------------------------ MODULE CacheService_proofs ------------------------
(***************************************************************************)
(* The cache service implements the abstract store of expiring entries,    *)
(* and a pattern delete that ends leaves nothing it found, for any number  *)
(* of threads, keys and values and any lifetime.                           *)
(***************************************************************************)
EXTENDS CacheService, TLAPS

USE TTLAssumption, BoundsAssumption, KeysAssumption, ServerAssumption, NoneAssumption

----------------------------------------------------------------------------
(* The inductive invariant                                                 *)

\* No entry has longer to live than the TTL, and counters count.
EntryFit(e, k) == e # None =>
    /\ e.expires <= clock + TTL
    /\ k \in CounterKeys => e.value \in 1..MaxCount
    /\ k \in CacheKeys => e.value \in Stored

StoreFit == \A h \in Homes, k \in Keys : EntryFit(store[h][k], k)

\* Only a lookup loads, and only Redis is scanned.
CallFit == \A t \in Threads :
    /\ pc[t] = "load" => call[t].op \in {"get_or_set", "discard"}
    /\ pc[t] = "scan" => call[t].op = "invalidate_pattern" /\ kind = "redis"

Inv == TypeOK /\ StoreFit /\ CallFit /\ SweepOwed

----------------------------------------------------------------------------
(* Types                                                                   *)

\* What a thread holds fits the step it is at.
ThreadFit(t) ==
    /\ pc[t] # "idle" <=> call[t] # None
    /\ pc[t] \in {"run", "scan"} <=> handle[t] # None
    /\ pc[t] = "return" => backend # None
    /\ call[t] # None =>
          /\ call[t].key \in KeysOf(call[t].op)
          /\ call[t].value # None <=> call[t].op = "set"
    /\ pc[t] = "load" => call[t].op \in {"get_or_set", "discard"}
    /\ pc[t] = "scan" => call[t].op = "invalidate_pattern" /\ kind = "redis"

Types ==
    /\ kind \in Kinds
    /\ backend \in Threads \cup {None}
    /\ store \in [Homes -> [Keys -> Entry \cup {None}]]
    /\ clock \in 0..MaxClock
    /\ pc \in [Threads -> Steps]
    /\ call \in [Threads -> Call \cup {None}]
    /\ handle \in [Threads -> Threads \cup {None}]
    /\ todo \in [Threads -> SUBSET CacheKeys]
    /\ doomed \in [Threads -> SUBSET CacheKeys]
    /\ answer \in [Threads -> Contents \cup {None, 0}]

LEMMA InvParts == Inv <=> Types /\ (\A t \in Threads : ThreadFit(t)) /\ StoreFit /\ SweepOwed
  BY DEF Inv, TypeOK, Types, ThreadFit, CallFit

\* The steps before an operation runs touch neither the stores nor the scans.
Untouched == UNCHANGED <<kind, store, clock, todo, doomed>>

\* A thread that is not at the step of a scan owes nothing.
LEMMA QuietFit ==
    ASSUME Inv, NEW t \in Threads, Untouched,
           pc'[t] # "scan", \A u \in Threads \ {t} : pc'[u] = pc[u],
           Types', \A u \in Threads : ThreadFit(u)'
    PROVE  Inv'
<1>1. StoreFit'
  BY DEF Inv, StoreFit, EntryFit, Untouched
<1>2. SweepOwed'
  BY DEF Inv, SweepOwed, Untouched
<1> QED
  BY <1>1, <1>2 DEF InvParts, Inv, TypeOK, Types, ThreadFit, CallFit

LEMMA BeginFit ==
    ASSUME Inv, NEW t \in Threads, NEW c \in Call,
           c.key \in KeysOf(c.op), c.value = None, c.op # "set", Begin(t, c)
    PROVE  Inv'
<1>1. Types /\ \A u \in Threads : ThreadFit(u)
  BY InvParts
<1>2. Types'
  BY <1>1 DEF Types, Begin, GetBackend, Goto, Steps
<1>3. ASSUME NEW u \in Threads PROVE ThreadFit(u)'
  BY <1>1, <1>3 DEF Types, ThreadFit, Begin, GetBackend, Goto
<1> QED
  BY <1>1, <1>2, <1>3, QuietFit DEF Begin, GetBackend, Goto, Untouched, Types

LEMMA BuildFit ==
    ASSUME Inv, NEW t \in Threads, Build(t)
    PROVE  Inv'
<1>1. Types /\ \A u \in Threads : ThreadFit(u)
  BY InvParts
<1>2. Types'
  BY <1>1 DEF Types, Build, Goto, Steps
<1>3. ASSUME NEW u \in Threads PROVE ThreadFit(u)'
  BY <1>1, <1>3 DEF Types, ThreadFit, Build, Goto
<1> QED
  BY <1>1, <1>2, <1>3, QuietFit DEF Build, Goto, Untouched, Types

LEMMA ReturnFit ==
    ASSUME Inv, NEW t \in Threads, Return(t)
    PROVE  Inv'
<1>1. Types /\ \A u \in Threads : ThreadFit(u)
  BY InvParts
<1>2. Types'
  BY <1>1 DEF Types, Return, Goto, Steps
<1>3. ASSUME NEW u \in Threads PROVE ThreadFit(u)'
  BY <1>1, <1>3 DEF Types, ThreadFit, Return, Goto
<1> QED
  BY <1>1, <1>2, <1>3, QuietFit DEF Return, Goto, Untouched, Types

LEMMA InvNext ==
    ASSUME Types', \A t \in Threads : ThreadFit(t)', StoreFit', SweepOwed'
    PROVE  Inv'
  BY DEF Inv, TypeOK, Types, ThreadFit, CallFit

----------------------------------------------------------------------------
(* Stores                                                                  *)

\* An operation at work has a dictionary to work on.
LEMMA HomeFit ==
    ASSUME Types, NEW t \in Threads, ThreadFit(t), pc[t] \in {"run", "scan"}
    PROVE  Home(handle[t]) \in Homes
  BY DEF Types, ThreadFit, Home, Homes

\* Storing or dropping one entry.
LEMMA SetFit ==
    ASSUME Types, StoreFit, NEW h \in Homes, NEW k \in Keys, NEW e \in Entry \cup {None},
           EntryFit(e, k), store' = [store EXCEPT ![h][k] = e], clock' = clock
    PROVE  /\ store' \in [Homes -> [Keys -> Entry \cup {None}]]
           /\ StoreFit'
           /\ \A q \in Keys \ {k} : store'[Server][q] = store[Server][q]
           /\ e = None => (store'[Server][k] # None => store[Server][k] # None)
<1>1. store' \in [Homes -> [Keys -> Entry \cup {None}]]
  BY DEF Types
<1>2. \A g \in Homes, q \in Keys :
        store'[g][q] = IF g = h /\ q = k THEN e ELSE store[g][q]
  BY DEF Types
<1>3. StoreFit'
  BY <1>2 DEF StoreFit, EntryFit
<1> QED
  BY <1>1, <1>2, <1>3 DEF Homes

\* A scan still owes no more than it had.
LEMMA OweFit ==
    ASSUME Inv, NEW t \in Threads,
           pc'[t] # "scan", \A u \in Threads \ {t} : pc'[u] = pc[u],
           todo' = todo, \A u \in Threads : doomed'[u] \subseteq doomed[u],
           \A u \in Threads : \A k \in doomed'[u] :
              store'[Server][k] # None => store[Server][k] # None
    PROVE  SweepOwed'
  BY DEF Inv, SweepOwed

\* A dropped entry.
LEMMA DropFit ==
    ASSUME Inv, NEW t \in Threads, NEW h \in Homes, NEW k \in Keys,
           store' = [store EXCEPT ![h][k] = None] \/ UNCHANGED store,
           UNCHANGED <<clock, todo, doomed>>,
           pc'[t] # "scan", \A u \in Threads \ {t} : pc'[u] = pc[u]
    PROVE  store' \in [Homes -> [Keys -> Entry \cup {None}]] /\ StoreFit' /\ SweepOwed'
<1>1. Types /\ StoreFit
  BY InvParts
<1>2. doomed \in [Threads -> SUBSET CacheKeys]
  BY <1>1 DEF Types
<1>3. CASE UNCHANGED store
  BY <1>1, <1>3, OweFit DEF Types, StoreFit, EntryFit
<1>4. CASE store' = [store EXCEPT ![h][k] = None]
  <2>1. EntryFit(None, k)
    BY DEF EntryFit
  <2>2. /\ store' \in [Homes -> [Keys -> Entry \cup {None}]]
        /\ StoreFit'
        /\ \A q \in Keys : store'[Server][q] # None => store[Server][q] # None
    BY <1>1, <1>4, <2>1, SetFit
  <2> QED
    BY <1>2, <2>2, OweFit DEF Keys
<1> QED
  BY <1>3, <1>4

\* A stored entry.
LEMMA WriteFit ==
    ASSUME Inv, NEW t \in Threads, NEW k \in Keys, NEW v \in Contents,
           k \in CounterKeys => v \in 1..MaxCount, k \in CacheKeys => v \in Stored,
           pc[t] = "run", Write(t, k, v), UNCHANGED <<clock, todo>>,
           pc'[t] # "scan", \A u \in Threads \ {t} : pc'[u] = pc[u]
    PROVE  /\ store' \in [Homes -> [Keys -> Entry \cup {None}]]
           /\ doomed' \in [Threads -> SUBSET CacheKeys]
           /\ StoreFit' /\ SweepOwed'
<1>1. Types /\ StoreFit /\ ThreadFit(t)
  BY InvParts
<1>2. Home(handle[t]) \in Homes
  BY <1>1, HomeFit
<1>3. Expiring(v) \in Entry /\ EntryFit(Expiring(v), k)
  BY <1>1 DEF Expiring, Entry, EntryFit, Types, Times
<1>4. /\ store' \in [Homes -> [Keys -> Entry \cup {None}]]
      /\ StoreFit'
      /\ \A q \in Keys \ {k} : store'[Server][q] = store[Server][q]
  BY <1>1, <1>2, <1>3, SetFit DEF Write, SetEntry
<1>5. /\ doomed' \in [Threads -> SUBSET CacheKeys]
      /\ \A u \in Threads : doomed'[u] \subseteq doomed[u] /\ k \notin doomed'[u]
  BY <1>1 DEF Write, Types
<1>6. ASSUME NEW u \in Threads, NEW q \in doomed'[u]
      PROVE  q \in Keys \ {k} /\ store'[Server][q] = store[Server][q]
  BY <1>4, <1>5 DEF Keys
<1>7. SweepOwed'
  BY <1>5, <1>6, OweFit
<1> QED
  BY <1>4, <1>5, <1>7

----------------------------------------------------------------------------
(* The operations                                                          *)

LEMMA ProceedFit ==
    ASSUME Inv, NEW t \in Threads, NEW op \in {"discard", "set"},
           NEW v \in Values \cup {None}, v # None <=> op = "set",
           call[t] # None, call[t].key \in CacheKeys, Proceed(t, op, v), UNCHANGED <<kind, backend>>
    PROVE  /\ pc' \in [Threads -> Steps]
           /\ call' \in [Threads -> Call \cup {None}]
           /\ handle' \in [Threads -> Threads \cup {None}]
           /\ \A u \in Threads : ThreadFit(u)'
           /\ pc'[t] # "scan" /\ \A u \in Threads \ {t} : pc'[u] = pc[u]
<1>1. Types /\ \A u \in Threads : ThreadFit(u)
  BY InvParts
<1>2. call[t] \in Call
  BY <1>1 DEF Types
<1> DEFINE c == [call[t] EXCEPT !.op = op, !.value = v]
<1>3. c \in Call /\ c.op = op /\ c.value = v /\ c.key = call[t].key
  BY <1>2 DEF Call, Operations
<1>4. call' = [call EXCEPT ![t] = c]
  BY <1>1, <1>2 DEF Proceed, Types, Call
<1>5. /\ pc' \in [Threads -> Steps]
      /\ handle' \in [Threads -> Threads \cup {None}]
      /\ pc'[t] # "scan" /\ \A u \in Threads \ {t} : pc'[u] = pc[u]
  BY <1>1 DEF Proceed, GetBackend, Goto, Types, Steps
<1> HIDE DEF c
<1>6. call' \in [Threads -> Call \cup {None}]
  BY <1>1, <1>3, <1>4 DEF Types
<1>7. call'[t] # None
  BY <1>1, <1>3, <1>4 DEF Types
<1>8. ASSUME NEW u \in Threads PROVE ThreadFit(u)'
  <2>1. CASE u = t
    BY <1>1, <1>3, <1>4, <1>7, <2>1
       DEF ThreadFit, Proceed, GetBackend, Goto, Types, KeysOf
  <2>2. CASE u # t
    BY <1>1, <1>4, <2>2 DEF ThreadFit, Proceed, GetBackend, Goto, Types
  <2> QED
    BY <2>1, <2>2
<1> QED
  BY <1>5, <1>6, <1>7, <1>8

\* The call of a thread that runs operation op.
LEMMA RunningFit ==
    ASSUME Types, NEW t \in Threads, ThreadFit(t), pc[t] # "idle"
    PROVE  call[t] \in Call /\ call[t] # None /\ call[t].key \in KeysOf(call[t].op)
  BY DEF Types, ThreadFit

\* An operation that ends, its thread idle again.
LEMMA FinishFit ==
    ASSUME Inv, NEW t \in Threads, Finish(t), UNCHANGED <<kind, backend>>
    PROVE  /\ pc' \in [Threads -> Steps]
           /\ call' \in [Threads -> Call \cup {None}]
           /\ handle' \in [Threads -> Threads \cup {None}]
           /\ \A u \in Threads : ThreadFit(u)'
           /\ pc'[t] = "idle" /\ \A u \in Threads \ {t} : pc'[u] = pc[u]
<1>1. Types /\ \A u \in Threads : ThreadFit(u)
  BY InvParts
<1>2. /\ pc' \in [Threads -> Steps]
      /\ call' \in [Threads -> Call \cup {None}]
      /\ handle' \in [Threads -> Threads \cup {None}]
      /\ pc'[t] = "idle" /\ \A u \in Threads \ {t} : pc'[u] = pc[u]
  BY <1>1 DEF Finish, Goto, Types, Steps
<1>3. ASSUME NEW u \in Threads PROVE ThreadFit(u)'
  BY <1>1, <1>3 DEF ThreadFit, Finish, Goto, Types
<1> QED
  BY <1>2, <1>3

\* A lookup that goes on to the loader.
LEMMA ToLoadFit ==
    ASSUME Inv, NEW t \in Threads, Goto(t, "load"), handle' = [handle EXCEPT ![t] = None],
           pc[t] # "idle", call[t].op \in {"get_or_set", "discard"},
           UNCHANGED <<kind, backend, call>>
    PROVE  /\ pc' \in [Threads -> Steps]
           /\ handle' \in [Threads -> Threads \cup {None}]
           /\ \A u \in Threads : ThreadFit(u)'
           /\ pc'[t] = "load" /\ \A u \in Threads \ {t} : pc'[u] = pc[u]
<1>1. Types /\ \A u \in Threads : ThreadFit(u)
  BY InvParts
<1>2. /\ pc' \in [Threads -> Steps]
      /\ handle' \in [Threads -> Threads \cup {None}]
      /\ pc'[t] = "load" /\ \A u \in Threads \ {t} : pc'[u] = pc[u]
  BY <1>1 DEF Goto, Types, Steps
<1>3. ASSUME NEW u \in Threads PROVE ThreadFit(u)'
  BY <1>1, <1>3 DEF ThreadFit, Goto, Types
<1> QED
  BY <1>2, <1>3

\* What a thread's lookup or count finds.
LEMMA LiveFit ==
    ASSUME Types, StoreFit, NEW t \in Threads, ThreadFit(t), pc[t] = "run",
           NEW k \in Keys, NEW e, e = Live(Dict(t), k)
    PROVE  /\ e \in Entry \cup {None}
           /\ e # None => /\ k \in CacheKeys => e.value \in Stored
                          /\ k \in CounterKeys => e.value \in 1..MaxCount
<1>1. Home(handle[t]) \in Homes
  BY HomeFit
<1>2. store[Home(handle[t])][k] \in Entry \cup {None}
  BY <1>1 DEF Types
<1>3. EntryFit(store[Home(handle[t])][k], k)
  BY <1>1 DEF StoreFit
<1> QED
  BY <1>2, <1>3 DEF Live, Dict, EntryFit

LEMMA LookupHitFit ==
    ASSUME Inv, NEW t \in Threads, LookupHit(t)
    PROVE  Inv'
<1>1. Types /\ StoreFit /\ ThreadFit(t)
  BY InvParts
<1>2. pc[t] = "run" /\ call[t].op = "get_or_set" /\ Finish(t) /\ UNCHANGED <<kind, backend>>
  BY DEF LookupHit, Running
<1>3. call[t].key \in CacheKeys
  BY <1>1, <1>2, RunningFit DEF KeysOf
<1>4. answer' \in [Threads -> Contents \cup {None, 0}]
  <2>1. Live(Dict(t), call[t].key) \in Entry
    BY <1>1, <1>2, <1>3, LiveFit DEF LookupHit, Keys
  <2>2. Live(Dict(t), call[t].key).value \in Contents
    BY <2>1 DEF Entry
  <2> QED
    BY <1>1, <2>2 DEF LookupHit, Answer, Types
<1>5. /\ pc' \in [Threads -> Steps]
      /\ call' \in [Threads -> Call \cup {None}]
      /\ handle' \in [Threads -> Threads \cup {None}]
      /\ \A u \in Threads : ThreadFit(u)'
      /\ pc'[t] = "idle" /\ \A u \in Threads \ {t} : pc'[u] = pc[u]
  BY <1>2, FinishFit
<1>6. Types' /\ Untouched
  BY <1>1, <1>4, <1>5 DEF Types, LookupHit, Running, Untouched
<1> QED
  BY <1>5, <1>6, QuietFit

\* A step that drops at most the entry of a call and ends at step "load".
LEMMA LookupMissFit ==
    ASSUME Inv, NEW t \in Threads, LookupMiss(t)
    PROVE  Inv'
<1>1. Types /\ StoreFit /\ ThreadFit(t)
  BY InvParts
<1>2. pc[t] = "run" /\ call[t].op = "get_or_set" /\ UNCHANGED <<kind, backend, clock>>
  BY DEF LookupMiss, Running
<1>3. call[t].key \in Keys
  BY <1>1, <1>2, RunningFit DEF KeysOf, Keys
<1>4. /\ pc' \in [Threads -> Steps]
      /\ handle' \in [Threads -> Threads \cup {None}]
      /\ \A u \in Threads : ThreadFit(u)'
      /\ pc'[t] = "load" /\ \A u \in Threads \ {t} : pc'[u] = pc[u]
  BY <1>2, ToLoadFit DEF LookupMiss
<1>5. store' \in [Homes -> [Keys -> Entry \cup {None}]] /\ StoreFit' /\ SweepOwed'
  BY <1>1, <1>2, <1>3, <1>4, HomeFit, DropFit DEF LookupMiss, SetEntry
<1>6. Types'
  BY <1>1, <1>2, <1>4, <1>5 DEF Types, LookupMiss, Answer
<1> QED
  BY <1>4, <1>5, <1>6, InvNext

LEMMA LookupUndecodableFit ==
    ASSUME Inv, NEW t \in Threads, LookupUndecodable(t)
    PROVE  Inv'
<1>1. Types /\ StoreFit /\ ThreadFit(t)
  BY InvParts
<1>2. /\ pc[t] = "run" /\ call[t].op = "get_or_set"
      /\ Proceed(t, "discard", None) /\ UNCHANGED <<kind, backend>>
  BY DEF LookupUndecodable, Running
<1>3. call[t].key \in CacheKeys /\ call[t] # None
  BY <1>1, <1>2, RunningFit DEF KeysOf
<1>4. /\ pc' \in [Threads -> Steps]
      /\ call' \in [Threads -> Call \cup {None}]
      /\ handle' \in [Threads -> Threads \cup {None}]
      /\ \A u \in Threads : ThreadFit(u)'
      /\ pc'[t] # "scan" /\ \A u \in Threads \ {t} : pc'[u] = pc[u]
  BY <1>2, <1>3, ProceedFit
<1>5. Types' /\ Untouched
  BY <1>1, <1>4 DEF Types, LookupUndecodable, Running, Untouched, Answer
<1> QED
  BY <1>4, <1>5, QuietFit

LEMMA DiscardFit ==
    ASSUME Inv, NEW t \in Threads, Discard(t)
    PROVE  Inv'
<1>1. Types /\ StoreFit /\ ThreadFit(t)
  BY InvParts
<1>2. pc[t] = "run" /\ call[t].op = "discard" /\ UNCHANGED <<kind, backend, clock>>
  BY DEF Discard, Running
<1>3. call[t].key \in Keys
  BY <1>1, <1>2, RunningFit DEF KeysOf, Keys
<1>4. /\ pc' \in [Threads -> Steps]
      /\ handle' \in [Threads -> Threads \cup {None}]
      /\ \A u \in Threads : ThreadFit(u)'
      /\ pc'[t] = "load" /\ \A u \in Threads \ {t} : pc'[u] = pc[u]
  BY <1>2, ToLoadFit DEF Discard
<1>5. store' \in [Homes -> [Keys -> Entry \cup {None}]] /\ StoreFit' /\ SweepOwed'
  BY <1>1, <1>2, <1>3, <1>4, HomeFit, DropFit DEF Discard, Delete, SetEntry
<1>6. Types'
  BY <1>1, <1>2, <1>4, <1>5 DEF Types, Discard
<1> QED
  BY <1>4, <1>5, <1>6, InvNext

LEMMA LoadFit ==
    ASSUME Inv, NEW t \in Threads, NEW v \in Values, Load(t, v)
    PROVE  Inv'
<1>1. Types /\ ThreadFit(t)
  BY InvParts
<1>2. v # None
  BY DEF Stored
<1>3. call[t].key \in CacheKeys /\ call[t] # None
  BY <1>1, RunningFit DEF Load, ThreadFit, KeysOf
<1>4. /\ pc' \in [Threads -> Steps]
      /\ call' \in [Threads -> Call \cup {None}]
      /\ handle' \in [Threads -> Threads \cup {None}]
      /\ \A u \in Threads : ThreadFit(u)'
      /\ pc'[t] # "scan" /\ \A u \in Threads \ {t} : pc'[u] = pc[u]
  BY <1>2, <1>3, ProceedFit DEF Load
<1>5. Types' /\ Untouched
  BY <1>1, <1>4 DEF Types, Load, Untouched
<1> QED
  BY <1>4, <1>5, QuietFit

LEMMA LoadNothingFit ==
    ASSUME Inv, NEW t \in Threads, LoadNothing(t)
    PROVE  Inv'
<1>1. Types
  BY InvParts
<1>2. /\ pc' \in [Threads -> Steps]
      /\ call' \in [Threads -> Call \cup {None}]
      /\ handle' \in [Threads -> Threads \cup {None}]
      /\ \A u \in Threads : ThreadFit(u)'
      /\ pc'[t] = "idle" /\ \A u \in Threads \ {t} : pc'[u] = pc[u]
  BY FinishFit DEF LoadNothing
<1>3. Types' /\ Untouched
  BY <1>1, <1>2 DEF Types, LoadNothing, Untouched
<1> QED
  BY <1>2, <1>3, QuietFit

LEMMA SetOperationFit ==
    ASSUME Inv, NEW t \in Threads, Set(t)
    PROVE  Inv'
<1>1. Types /\ StoreFit /\ ThreadFit(t)
  BY InvParts
<1>2. pc[t] = "run" /\ call[t].op = "set" /\ UNCHANGED <<kind, backend, clock, todo, answer>>
  BY DEF Set, Running
<1>3. call[t] \in Call /\ call[t].key \in CacheKeys /\ call[t].value # None
  BY <1>1, <1>2, RunningFit DEF KeysOf, ThreadFit
<1>4. call[t].key \in Keys /\ call[t].key \notin CounterKeys /\ call[t].value \in Stored
  BY <1>3 DEF Keys, Call, Stored
<1>5. /\ pc' \in [Threads -> Steps]
      /\ call' \in [Threads -> Call \cup {None}]
      /\ handle' \in [Threads -> Threads \cup {None}]
      /\ \A u \in Threads : ThreadFit(u)'
      /\ pc'[t] = "idle" /\ \A u \in Threads \ {t} : pc'[u] = pc[u]
  BY <1>2, FinishFit DEF Set
<1>6. CASE Write(t, call[t].key, call[t].value)
  <2>1. /\ store' \in [Homes -> [Keys -> Entry \cup {None}]]
        /\ doomed' \in [Threads -> SUBSET CacheKeys]
        /\ StoreFit' /\ SweepOwed'
    BY <1>2, <1>4, <1>5, <1>6, WriteFit DEF Contents
  <2>2. Types'
    BY <1>1, <1>2, <1>5, <2>1 DEF Types
  <2> QED
    BY <1>5, <2>1, <2>2, InvNext
<1>7. CASE UNCHANGED <<store, doomed>>
  <2>1. Types' /\ Untouched
    BY <1>1, <1>2, <1>5, <1>7 DEF Types, Untouched
  <2> QED
    BY <1>5, <2>1, QuietFit
<1> QED
  BY <1>6, <1>7 DEF Set

LEMMA InvalidateFit ==
    ASSUME Inv, NEW t \in Threads, Invalidate(t)
    PROVE  Inv'
<1>1. Types /\ StoreFit /\ ThreadFit(t)
  BY InvParts
<1>2. pc[t] = "run" /\ call[t].op = "invalidate" /\ UNCHANGED <<kind, backend, clock>>
  BY DEF Invalidate, Running
<1>3. call[t].key \in Keys
  BY <1>1, <1>2, RunningFit DEF KeysOf, Keys
<1>4. /\ pc' \in [Threads -> Steps]
      /\ call' \in [Threads -> Call \cup {None}]
      /\ handle' \in [Threads -> Threads \cup {None}]
      /\ \A u \in Threads : ThreadFit(u)'
      /\ pc'[t] = "idle" /\ \A u \in Threads \ {t} : pc'[u] = pc[u]
  BY <1>2, FinishFit DEF Invalidate
<1>5. store' \in [Homes -> [Keys -> Entry \cup {None}]] /\ StoreFit' /\ SweepOwed'
  BY <1>1, <1>2, <1>3, <1>4, HomeFit, DropFit DEF Invalidate, Delete, SetEntry
<1>6. Types'
  BY <1>1, <1>2, <1>4, <1>5 DEF Types, Invalidate
<1> QED
  BY <1>4, <1>5, <1>6, InvNext

LEMMA IncrementFit ==
    ASSUME Inv, NEW t \in Threads, Increment(t)
    PROVE  Inv'
<1>1. Types /\ StoreFit /\ ThreadFit(t)
  BY InvParts
<1>2. pc[t] = "run" /\ call[t].op = "increment" /\ UNCHANGED <<kind, backend, clock, todo>>
  BY DEF Increment, Running
<1>3. call[t].key \in CounterKeys /\ call[t].key \in Keys /\ call[t].key \notin CacheKeys
  BY <1>1, <1>2, RunningFit DEF KeysOf, Keys
<1> DEFINE e == Live(Dict(t), call[t].key)
           count == IF e = None THEN 1 ELSE e.value + 1
<1>4. e # None => e.value \in 1..MaxCount
  BY <1>1, <1>2, <1>3, LiveFit
<1>5. /\ pc' \in [Threads -> Steps]
      /\ call' \in [Threads -> Call \cup {None}]
      /\ handle' \in [Threads -> Threads \cup {None}]
      /\ \A u \in Threads : ThreadFit(u)'
      /\ pc'[t] = "idle" /\ \A u \in Threads \ {t} : pc'[u] = pc[u]
  BY <1>2, FinishFit DEF Increment
<1>6. CASE count <= MaxCount /\ Write(t, call[t].key, count)
           /\ (Answer(t, count) \/ Answer(t, 0))
  <2>1. count \in 1..MaxCount
    BY <1>4, <1>6
  <2> HIDE DEF count
  <2>2. /\ store' \in [Homes -> [Keys -> Entry \cup {None}]]
        /\ doomed' \in [Threads -> SUBSET CacheKeys]
        /\ StoreFit' /\ SweepOwed'
    BY <1>2, <1>3, <1>5, <1>6, <2>1, WriteFit DEF Contents
  <2>3. answer' \in [Threads -> Contents \cup {None, 0}]
    BY <1>1, <1>6, <2>1 DEF Types, Answer, Contents
  <2>4. Types'
    BY <1>1, <1>2, <1>5, <2>2, <2>3 DEF Types
  <2> QED
    BY <1>5, <2>2, <2>4, InvNext
<1>7. CASE UNCHANGED <<store, doomed>> /\ Answer(t, 0)
  <2>1. Types' /\ Untouched
    BY <1>1, <1>2, <1>5, <1>7 DEF Types, Untouched, Answer
  <2> QED
    BY <1>5, <2>1, QuietFit
<1> QED
  BY <1>6, <1>7 DEF Increment

----------------------------------------------------------------------------
(* Pattern deletes                                                         *)

LEMMA DeleteMatchingFit ==
    ASSUME Inv, NEW t \in Threads, DeleteMatching(t)
    PROVE  Inv'
<1>1. Types /\ StoreFit /\ ThreadFit(t) /\ CallFit
  BY InvParts DEF Inv
<1>2. /\ pc[t] = "run" /\ kind # "redis" /\ UNCHANGED <<kind, backend, clock, todo, doomed, answer>>
  BY DEF DeleteMatching, Running
<1>3. /\ pc' \in [Threads -> Steps]
      /\ call' \in [Threads -> Call \cup {None}]
      /\ handle' \in [Threads -> Threads \cup {None}]
      /\ \A u \in Threads : ThreadFit(u)'
      /\ pc'[t] = "idle" /\ \A u \in Threads \ {t} : pc'[u] = pc[u]
  BY <1>2, FinishFit DEF DeleteMatching
<1>4. handle[t] \in Homes
  BY <1>1, <1>2 DEF Types, ThreadFit, Homes
<1>5. store' \in [Homes -> [Keys -> Entry \cup {None}]] /\ StoreFit'
  <2>1. CASE kind = "memory"
    <3>1. store' \in [Homes -> [Keys -> Entry \cup {None}]]
      BY <1>1, <1>4, <2>1 DEF DeleteMatching, Types
    <3>2. \A h \in Homes, k \in Keys : store'[h][k] \in {store[h][k], None}
      BY <1>1, <1>4, <2>1 DEF DeleteMatching, Types
    <3> QED
      BY <1>1, <1>2, <3>1, <3>2 DEF StoreFit, EntryFit
  <2>2. CASE UNCHANGED store
    BY <1>1, <1>2, <2>2 DEF Types, StoreFit, EntryFit
  <2> QED
    BY <2>1, <2>2 DEF DeleteMatching
<1>6. Types'
  BY <1>1, <1>2, <1>3, <1>5 DEF Types
<1>7. SweepOwed'
  BY <1>1, <1>2, <1>3 DEF SweepOwed, CallFit
<1> QED
  BY <1>3, <1>5, <1>6, <1>7, InvNext

LEMMA ScanFit ==
    ASSUME Inv, NEW t \in Threads, Scan(t)
    PROVE  Inv'
<1>1. Types /\ StoreFit /\ SweepOwed /\ \A u \in Threads : ThreadFit(u)
  BY InvParts
<1>2. Types' /\ StoreFit'
  BY <1>1 DEF Types, Scan, Running, Goto, Steps, StoreFit, EntryFit
<1>3. ASSUME NEW u \in Threads PROVE ThreadFit(u)'
  BY <1>1, <1>3 DEF Types, ThreadFit, Scan, Running, Goto
<1>4. ASSUME NEW u \in Threads, pc'[u] = "scan", NEW k \in doomed'[u]
      PROVE  store'[Server][k] # None => k \in todo'[u]
  <2>1. CASE u = t
    BY <1>1, <1>4, <2>1 DEF Types, Scan
  <2>2. CASE u # t
    BY <1>1, <1>4, <2>2 DEF Types, Scan, Goto, SweepOwed
  <2> QED
    BY <2>1, <2>2
<1>5. SweepOwed'
  BY <1>4 DEF SweepOwed
<1> QED
  BY <1>2, <1>3, <1>5, InvNext

LEMMA ScanKeyFit ==
    ASSUME Inv, NEW t \in Threads, NEW k \in CacheKeys, ScanKey(t, k)
    PROVE  Inv'
<1>1. Types /\ StoreFit /\ SweepOwed /\ \A u \in Threads : ThreadFit(u)
  BY InvParts
<1>2. /\ kind = "redis" /\ handle[t] \in Threads /\ Home(handle[t]) = Server
      /\ UNCHANGED <<kind, backend, clock, pc, call, handle, doomed, answer>>
      /\ store' = [store EXCEPT ![Server][k] = None]
      /\ todo' = [todo EXCEPT ![t] = @ \ {k}]
  BY <1>1 DEF ScanKey, ThreadFit, Types, Home, SetEntry
<1>3. EntryFit(None, k) /\ k \in Keys /\ Server \in Homes
  BY DEF EntryFit, Keys, Homes
<1>4. /\ store' \in [Homes -> [Keys -> Entry \cup {None}]]
      /\ StoreFit'
      /\ \A q \in Keys \ {k} : store'[Server][q] = store[Server][q]
  BY <1>1, <1>2, <1>3, SetFit
<1>5. store'[Server][k] = None
  BY <1>1, <1>2, <1>3 DEF Types
<1>6. Types'
  BY <1>1, <1>2, <1>4 DEF Types
<1>7. ASSUME NEW u \in Threads PROVE ThreadFit(u)'
  BY <1>1, <1>2, <1>7 DEF ThreadFit
<1>8. ASSUME NEW u \in Threads, pc'[u] = "scan", NEW q \in doomed'[u], store'[Server][q] # None
      PROVE  q \in todo'[u]
  <2>1. q # k /\ q \in Keys /\ store[Server][q] # None
    BY <1>1, <1>2, <1>4, <1>5, <1>8 DEF Types, Keys
  <2>2. q \in todo[u]
    BY <1>1, <1>2, <1>8, <2>1 DEF SweepOwed
  <2> QED
    BY <1>1, <1>2, <2>1, <2>2 DEF Types
<1>9. SweepOwed'
  BY <1>8 DEF SweepOwed
<1> QED
  BY <1>4, <1>6, <1>7, <1>9, InvNext

LEMMA EndScanFit ==
    ASSUME Inv, NEW t \in Threads, EndScan(t)
    PROVE  Inv'
<1>1. Types /\ StoreFit /\ SweepOwed
  BY InvParts
<1>2. /\ pc' \in [Threads -> Steps]
      /\ call' \in [Threads -> Call \cup {None}]
      /\ handle' \in [Threads -> Threads \cup {None}]
      /\ \A u \in Threads : ThreadFit(u)'
      /\ pc'[t] = "idle" /\ \A u \in Threads \ {t} : pc'[u] = pc[u]
  BY FinishFit DEF EndScan
<1>3. Types' /\ StoreFit'
  BY <1>1, <1>2 DEF Types, EndScan, StoreFit, EntryFit
<1>4. SweepOwed'
  BY <1>1, <1>2 DEF SweepOwed, EndScan, Types
<1> QED
  BY <1>2, <1>3, <1>4, InvNext

----------------------------------------------------------------------------
(* The environment                                                         *)

\* A step of the environment that leaves the threads alone and stores nothing.
LEMMA DecayFit ==
    ASSUME Inv, UNCHANGED <<kind, backend, threads>>, clock' \in 0..MaxClock, clock <= clock',
           store' \in [Homes -> [Keys -> Entry \cup {None}]],
           \A h \in Homes, k \in Keys : store'[h][k] \in {store[h][k], None}
    PROVE  Inv'
<1>1. Types /\ StoreFit /\ SweepOwed /\ \A t \in Threads : ThreadFit(t)
  BY InvParts
<1>2. Types' /\ \A t \in Threads : ThreadFit(t)'
  BY <1>1 DEF Types, ThreadFit, threads
<1>3. ASSUME NEW h \in Homes, NEW k \in Keys PROVE EntryFit(store[h][k], k)'
  <2>1. EntryFit(store[h][k], k) /\ store[h][k] \in Entry \cup {None}
    BY <1>1 DEF StoreFit, Types
  <2>2. CASE store'[h][k] = None
    BY <2>2 DEF EntryFit
  <2>3. CASE store'[h][k] = store[h][k]
    BY <1>1, <2>1, <2>3 DEF EntryFit, Entry, Times, Types
  <2> QED
    BY <2>2, <2>3
<1>4. SweepOwed'
  BY <1>1 DEF SweepOwed, threads, Homes, Types, Keys
<1> QED
  BY <1>2, <1>3, <1>4, InvNext DEF StoreFit

LEMMA TickFit ==
    ASSUME Inv, Tick
    PROVE  Inv'
<1>1. Types
  BY InvParts
<1>2. clock' \in 0..MaxClock /\ clock <= clock'
  BY <1>1 DEF Tick, Types
<1>3. store' \in [Homes -> [Keys -> Entry \cup {None}]]
  <2> DEFINE kept == [k \in Keys |->
        IF store[Server][k] # None /\ store[Server][k].expires <= clock + 1
          THEN None ELSE store[Server][k]]
  <2>1. Server \in Homes
    BY DEF Homes
  <2>2. kept \in [Keys -> Entry \cup {None}]
    BY <1>1, <2>1 DEF Types
  <2>3. store' = [store EXCEPT ![Server] = kept]
    BY <1>1, <2>1 DEF Tick, Types
  <2> HIDE DEF kept
  <2> QED
    BY <1>1, <2>1, <2>2, <2>3 DEF Types
<1>4. \A h \in Homes, k \in Keys : store'[h][k] \in {store[h][k], None}
  BY <1>1 DEF Tick, Types
<1> QED
  BY <1>2, <1>3, <1>4, DecayFit DEF Tick

LEMMA EvictFit ==
    ASSUME Inv, NEW q \in Keys, Evict(q)
    PROVE  Inv'
<1>1. Types
  BY InvParts
<1>2. clock' \in 0..MaxClock /\ clock <= clock'
  BY <1>1 DEF Evict, Types
<1>3. store' \in [Homes -> [Keys -> Entry \cup {None}]]
  BY <1>1 DEF Evict, Types
<1>4. \A h \in Homes, k \in Keys : store'[h][k] \in {store[h][k], None}
  BY <1>1 DEF Evict, Types
<1> QED
  BY <1>2, <1>3, <1>4, DecayFit DEF Evict

LEMMA EachIn ==
    ASSUME NEW S, NEW x \in S
    PROVE  Each(x) \in [Threads -> S] /\ \A t \in Threads : Each(x)[t] = x
  BY DEF Each

LEMMA RestartFit ==
    ASSUME Inv, Restart
    PROVE  Inv'
<1>1. Types /\ StoreFit
  BY InvParts
<1>2. store' \in [Homes -> [Keys -> Entry \cup {None}]]
  BY <1>1 DEF Types, Restart, Empty
<1>3. \A h \in Homes, k \in Keys : store'[h][k] \in {store[h][k], None}
  BY <1>1 DEF Types, Restart, Empty
<1>4. Types'
  BY <1>1, <1>2 DEF Types, Restart, Each, Steps
<1>5. ASSUME NEW t \in Threads PROVE ThreadFit(t)'
  BY <1>1, <1>5 DEF ThreadFit, Restart, Each, Types
<1>6. StoreFit'
  BY <1>1, <1>3 DEF StoreFit, EntryFit, Restart
<1>7. SweepOwed'
  BY DEF SweepOwed, Restart, Each
<1> QED
  BY <1>4, <1>5, <1>6, <1>7, InvNext

----------------------------------------------------------------------------
(* The theorems                                                            *)

LEMMA InitFit ==
    ASSUME Init
    PROVE  Inv
<1>1. kind \in Kinds
  BY SettingsAssumption DEF Init, BackendSetting, Kinds
<1>2. PICK left \in [Keys -> {None, Leftover}] :
        store = [h \in Homes |-> IF h = Server THEN left ELSE Empty]
  BY DEF Init
<1>3. Leftover \in Entry /\ Leftover.value = Undecodable /\ Leftover.expires = TTL
  BY DEF Leftover, Entry, Contents, Stored, Times
<1>4. /\ store \in [Homes -> [Keys -> Entry \cup {None}]]
      /\ \A h \in Homes, k \in Keys : store[h][k] \in {None, Leftover}
  BY <1>2, <1>3 DEF Empty
<1>5. \A h \in Homes, k \in Keys : store[h][k] # None => k \in CacheKeys
  BY <1>2 DEF Init, Empty, Homes
<1>6. StoreFit
  BY <1>3, <1>4, <1>5 DEF StoreFit, EntryFit, Init, Stored
<1>7. Types
  BY <1>1, <1>4 DEF Types, Init, Each, Steps
<1>8. (\A t \in Threads : ThreadFit(t)) /\ SweepOwed
  BY DEF ThreadFit, SweepOwed, Init, Each
<1> QED
  BY <1>6, <1>7, <1>8, InvParts

LEMMA RequestFit ==
    ASSUME Inv, NEW t \in Threads, Request(t)
    PROVE  Inv'
<1>1. \A k \in CacheKeys, op \in {"get_or_set", "invalidate"} :
        /\ [op |-> op, key |-> k, value |-> None] \in Call
        /\ k \in KeysOf(op)
  BY DEF Call, Operations, Keys, KeysOf
<1>2. [op |-> "invalidate_pattern", key |-> None, value |-> None] \in Call
  BY DEF Call, Operations
<1>3. \A k \in CounterKeys : [op |-> "increment", key |-> k, value |-> None] \in Call
  BY DEF Call, Operations, Keys
<1>4. CASE \E k \in CacheKeys, op \in {"get_or_set", "invalidate"} :
             Begin(t, [op |-> op, key |-> k, value |-> None])
  BY <1>1, <1>4, BeginFit
<1>5. CASE Begin(t, [op |-> "invalidate_pattern", key |-> None, value |-> None])
  BY <1>2, <1>5, BeginFit DEF KeysOf
<1>6. CASE \E k \in CounterKeys : Begin(t, [op |-> "increment", key |-> k, value |-> None])
  BY <1>3, <1>6, BeginFit DEF KeysOf
<1> QED
  BY <1>4, <1>5, <1>6 DEF Request

LEMMA StepFit ==
    ASSUME Inv, NEW t \in Threads, Step(t)
    PROVE  Inv'
  BY BuildFit, ReturnFit, LookupHitFit, LookupMissFit, LookupUndecodableFit, DiscardFit,
     LoadNothingFit, LoadFit, SetOperationFit, InvalidateFit, IncrementFit,
     DeleteMatchingFit, ScanFit, ScanKeyFit, EndScanFit DEF Step, ScanDone, ScanFails

LEMMA NextFit ==
    ASSUME Inv, [Next]_vars
    PROVE  Inv'
<1>1. CASE UNCHANGED vars
  <2>1. Types' /\ (\A t \in Threads : ThreadFit(t)') /\ StoreFit' /\ SweepOwed'
    BY <1>1, InvParts DEF vars, threads, Types, ThreadFit, StoreFit, EntryFit, SweepOwed
  <2> QED
    BY <2>1, InvNext
<1>2. CASE Next
  BY <1>2, RequestFit, StepFit, EvictFit, TickFit, RestartFit DEF Next
<1> QED
  BY <1>1, <1>2

\* Every reachable state satisfies the inductive invariant.
THEOREM Inductive == Spec => []Inv
  BY InitFit, NextFit, PTL DEF Spec

\* Variables keep their types, a thread holds a call, a backend and a value
\* exactly at the steps that have one, and None is never stored.
THEOREM TypeCorrect == Spec => []TypeOK
<1>1. Inv => TypeOK
  BY DEF Inv
<1> QED
  BY <1>1, Inductive, PTL

\* A pattern delete that ends without an error leaves no entry that was there
\* when it began, whatever others stored, deleted or evicted meanwhile.
THEOREM SweepOwedHolds == Spec => []SweepOwed
<1>1. Inv => SweepOwed
  BY DEF Inv
<1> QED
  BY <1>1, Inductive, PTL

----------------------------------------------------------------------------
(* The abstract store: fresh dictionaries                                  *)

\* A dictionary that is about to become the backend is empty and nobody's, and
\* only Redis keeps anything outside the process.
Fresh ==
    /\ kind # "redis" => store[Server] = Empty
    /\ backend = None => \A t \in Threads : store[t] = Empty /\ handle[t] = None
    /\ \A t \in Threads : pc[t] = "build" =>
          store[t] = Empty /\ backend # t /\ \A u \in Threads : handle[u] # t

\* A step of a thread writes to no dictionary but the one in its hand.
LEMMA FreshKept ==
    ASSUME Fresh, UNCHANGED <<kind, backend>>,
           kind # "redis" => store'[Server] = store[Server],
           \A u \in Threads : store'[u] = store[u] \/ \E t \in Threads : handle[t] = u,
           \A u \in Threads : handle'[u] \in {handle[u], None, backend},
           \A u \in Threads : pc'[u] = "build" => pc[u] = "build" \/ backend = None
    PROVE  Fresh'
<1>1. (kind # "redis" => store[Server] = Empty)'
  BY DEF Fresh, Empty
<1>2. (backend = None => \A t \in Threads : store[t] = Empty /\ handle[t] = None)'
  BY DEF Fresh, Empty
<1>3. ASSUME NEW t \in Threads, pc'[t] = "build"
      PROVE  (store[t] = Empty /\ backend # t /\ \A u \in Threads : handle[u] # t)'
  <2>1. store[t] = Empty /\ backend # t /\ \A u \in Threads : handle[u] # t
    BY <1>3 DEF Fresh
  <2> QED
    BY <2>1 DEF Empty
<1> QED
  BY <1>1, <1>2, <1>3 DEF Fresh

\* Where a running operation writes.
LEMMA WrittenHome ==
    ASSUME Inv, NEW t \in Threads, pc[t] \in {"run", "scan"}, NEW k \in Keys, NEW e,
           SetEntry(t, k, e) \/ UNCHANGED store
    PROVE  /\ kind # "redis" => store'[Server] = store[Server]
           /\ \A u \in Threads : store'[u] = store[u] \/ \E w \in Threads : handle[w] = u
<1>1. Types /\ ThreadFit(t)
  BY InvParts
<1>2. CASE UNCHANGED store
  BY <1>2
<1>3. CASE SetEntry(t, k, e)
  <2>1. \A h \in Homes : h # Home(handle[t]) => store'[h] = store[h]
    BY <1>1, <1>3 DEF SetEntry, Types
  <2>2. kind # "redis" => Home(handle[t]) = handle[t] /\ handle[t] \in Threads
    BY <1>1 DEF Home, Types, ThreadFit
  <2>3. kind = "redis" => Home(handle[t]) = Server
    BY DEF Home
  <2> QED
    BY <2>1, <2>2, <2>3 DEF Homes
<1> QED
  BY <1>2, <1>3

\* What the steps of a thread do to the backends in hand.
LEMMA HandleSteps ==
    ASSUME Types, NEW t \in Threads
    PROVE  /\ GetBackend(t) => \A u \in Threads :
                 /\ handle'[u] \in {handle[u], None, backend}
                 /\ pc'[u] = "build" => pc[u] = "build" \/ backend = None
           /\ \A step \in Steps \ {"build"} :
                 Goto(t, step) /\ handle' = [handle EXCEPT ![t] = None] =>
                    \A u \in Threads :
                       /\ handle'[u] \in {handle[u], None, backend}
                       /\ pc'[u] = "build" => pc[u] = "build" \/ backend = None
<1>1. ASSUME GetBackend(t), NEW u \in Threads
      PROVE  /\ handle'[u] \in {handle[u], None, backend}
             /\ pc'[u] = "build" => pc[u] = "build" \/ backend = None
  BY <1>1 DEF Types, GetBackend, Goto
<1>2. ASSUME NEW step \in Steps \ {"build"}, Goto(t, step),
             handle' = [handle EXCEPT ![t] = None], NEW u \in Threads
      PROVE  /\ handle'[u] \in {handle[u], None, backend}
             /\ pc'[u] = "build" => pc[u] = "build" \/ backend = None
  BY <1>2 DEF Types, Goto
<1> QED
  BY <1>1, <1>2

LEMMA BeginFresh ==
    ASSUME Inv, Fresh, NEW t \in Threads, NEW c, Begin(t, c)
    PROVE  Fresh'
  BY InvParts, HandleSteps, FreshKept DEF Begin

\* The loader's value goes on to be stored.
LEMMA LoadFresh ==
    ASSUME Inv, Fresh, NEW t \in Threads,
           LoadNothing(t) \/ LookupUndecodable(t) \/ \E v \in Values : Load(t, v)
    PROVE  Fresh'
<1>1. "idle" \in Steps \ {"build"} /\ Types
  BY InvParts DEF Steps
<1>2. UNCHANGED <<kind, backend, store>> /\ (GetBackend(t) \/ Finish(t))
  BY DEF LoadNothing, LookupUndecodable, Load, Proceed, Running
<1> QED
  BY <1>1, <1>2, HandleSteps, FreshKept DEF Finish

\* The operations that end, or go on to the loader.
LEMMA RunFresh ==
    ASSUME Inv, Fresh, NEW t \in Threads, pc[t] \in {"run", "scan"}, UNCHANGED <<kind, backend>>,
           NEW k \in Keys, NEW e, SetEntry(t, k, e) \/ UNCHANGED store,
           NEW step \in Steps \ {"build"}, Goto(t, step), handle' = [handle EXCEPT ![t] = None]
    PROVE  Fresh'
  BY InvParts, WrittenHome, HandleSteps, FreshKept

LEMMA RunStepsFresh ==
    ASSUME Inv, Fresh, NEW t \in Threads,
           LookupHit(t) \/ LookupMiss(t) \/ Discard(t) \/ Set(t) \/ Invalidate(t) \/ Increment(t)
    PROVE  Fresh'
<1>1. Types /\ ThreadFit(t)
  BY InvParts
<1>2. pc[t] = "run" /\ UNCHANGED <<kind, backend>> /\ call[t].op # "invalidate_pattern"
  BY DEF LookupHit, LookupMiss, Discard, Set, Invalidate, Increment, Running
<1>3. call[t].key \in Keys
  BY <1>1, <1>2, RunningFit DEF KeysOf, Keys
<1>4. \E e : SetEntry(t, call[t].key, e) \/ UNCHANGED store
  BY DEF LookupHit, LookupMiss, Discard, Set, Invalidate, Increment, Delete, Write
<1>5. \E step \in Steps \ {"build"} : Goto(t, step) /\ handle' = [handle EXCEPT ![t] = None]
  BY DEF LookupHit, LookupMiss, Discard, Set, Invalidate, Increment, Finish, Steps
<1> QED
  BY <1>2, <1>3, <1>4, <1>5, RunFresh

LEMMA PatternFresh ==
    ASSUME Inv, Fresh, NEW t \in Threads,
           DeleteMatching(t) \/ Scan(t) \/ EndScan(t) \/ \E k \in CacheKeys : ScanKey(t, k)
    PROVE  Fresh'
<1>1. Types /\ ThreadFit(t) /\ "idle" \in Steps \ {"build"}
  BY InvParts DEF Steps
<1>2. CASE DeleteMatching(t)
  <2>1. pc[t] = "run" /\ UNCHANGED <<kind, backend>> /\ Finish(t) /\ handle[t] \in Threads
    BY <1>1, <1>2 DEF DeleteMatching, Running, ThreadFit, Types
  <2>2. \A h \in Homes : h # handle[t] => store'[h] = store[h]
    BY <1>1, <1>2 DEF DeleteMatching, Types
  <2> QED
    BY <1>1, <2>1, <2>2, HandleSteps, FreshKept DEF Finish, Homes
<1>3. CASE Scan(t)
  <2>1. UNCHANGED <<kind, backend, store, handle>> /\ Goto(t, "scan")
    BY <1>3 DEF Scan, Running
  <2>2. \A u \in Threads : pc'[u] = "build" => pc[u] = "build"
    BY <1>1, <2>1 DEF Goto, Types
  <2> QED
    BY <2>1, <2>2, FreshKept
<1>4. CASE EndScan(t)
  BY <1>1, <1>4, HandleSteps, FreshKept DEF EndScan, Finish
<1>5. CASE \E k \in CacheKeys : ScanKey(t, k)
  <2>1. PICK k \in CacheKeys : ScanKey(t, k)
    BY <1>5
  <2>2. pc[t] = "scan" /\ k \in Keys /\ SetEntry(t, k, None) /\ UNCHANGED <<kind, backend, pc, handle>>
    BY <2>1 DEF ScanKey, Keys
  <2> QED
    BY <2>2, WrittenHome, FreshKept
<1> QED
  BY <1>2, <1>3, <1>4, <1>5

\* The new backend was nobody's, so another thread's is still nobody's.
LEMMA BuildFresh ==
    ASSUME Inv, Fresh, NEW t \in Threads, Build(t) \/ Return(t)
    PROVE  Fresh'
<1>1. Types /\ ThreadFit(t)
  BY InvParts
<1>2. UNCHANGED <<kind, store>>
  BY DEF Build, Return
<1>3. CASE Build(t)
  <2>1. backend' = t /\ t # None /\ handle' = handle
    BY <1>3 DEF Build
  <2>2. ASSUME NEW u \in Threads, pc'[u] = "build" PROVE u # t /\ pc[u] = "build"
    BY <1>1, <1>3, <2>2 DEF Build, Goto, Types
  <2> QED
    BY <1>2, <2>1, <2>2 DEF Fresh, Empty
<1>4. CASE Return(t)
  <2>1. \A u \in Threads : handle'[u] \in {handle[u], None, backend}
    BY <1>1, <1>4 DEF Return, Types
  <2>2. \A u \in Threads : pc'[u] = "build" => pc[u] = "build"
    BY <1>1, <1>4 DEF Return, Goto, Types
  <2> QED
    BY <1>2, <1>4, <2>1, <2>2, FreshKept DEF Return
<1> QED
  BY <1>3, <1>4

LEMMA EnvironmentFresh ==
    ASSUME Inv, Fresh, Tick \/ Restart \/ \E k \in Keys : Evict(k)
    PROVE  Fresh'
<1>1. Types
  BY InvParts
<1>2. CASE Tick
  <2>1. \A u \in Threads : store'[u] = store[u]
    BY <1>1, <1>2 DEF Tick, Types, Homes
  <2>2. store[Server] = Empty => store'[Server] = Empty
    BY <1>1, <1>2 DEF Tick, Types, Homes, Empty
  <2>3. UNCHANGED <<kind, backend, handle, pc>>
    BY <1>2 DEF Tick, threads
  <2> QED
    BY <2>1, <2>2, <2>3 DEF Fresh, Empty
<1>3. CASE Restart
  <2>1. /\ \A u \in Threads : store'[u] = Empty /\ handle'[u] = None /\ pc'[u] = "idle"
        /\ store'[Server] = store[Server] /\ kind' = kind
    BY <1>1, <1>3 DEF Restart, Each, Homes
  <2> QED
    BY <2>1 DEF Fresh, Empty
<1>4. CASE \E k \in Keys : Evict(k)
  <2>1. kind = "redis" /\ UNCHANGED <<kind, backend, handle, pc>>
    BY <1>4 DEF Evict, threads
  <2>2. \A u \in Threads : store'[u] = store[u]
    BY <1>1, <1>4 DEF Evict, Types, Homes
  <2> QED
    BY <2>1, <2>2 DEF Fresh, Empty
<1> QED
  BY <1>2, <1>3, <1>4

LEMMA InitFresh ==
    ASSUME Init
    PROVE  Fresh
<1>1. PICK left \in [Keys -> {None, Leftover}] :
        store = [h \in Homes |-> IF h = Server THEN left ELSE Empty]
  BY DEF Init
<1>2. Server \in Homes /\ \A t \in Threads : t \in Homes /\ t # Server
  BY DEF Homes
<1>3. \A t \in Threads : store[t] = Empty
  BY <1>1, <1>2
<1>4. store[Server] = left
  BY <1>1, <1>2
<1>5. kind # "redis" => left = Empty
  BY <1>4 DEF Init, Empty
<1>6. \A t \in Threads : handle[t] = None /\ pc[t] = "idle"
  BY DEF Init, Each
<1> QED
  BY <1>3, <1>4, <1>5, <1>6 DEF Fresh

LEMMA NextFresh ==
    ASSUME Inv, Fresh, [Next]_vars
    PROVE  Fresh'
<1>1. CASE UNCHANGED vars
  BY <1>1 DEF vars, threads, Fresh, Empty
<1>2. ASSUME NEW t \in Threads, Request(t) PROVE Fresh'
  BY <1>2, BeginFresh DEF Request
<1>3. ASSUME NEW t \in Threads, Step(t) PROVE Fresh'
  BY <1>3, BuildFresh, LoadFresh, RunStepsFresh, PatternFresh DEF Step, ScanDone, ScanFails
<1> QED
  BY <1>1, <1>2, <1>3, EnvironmentFresh DEF Next

----------------------------------------------------------------------------
(* The abstract store: entries, stores and modes                           *)

\* Changing one entry changes what the callers can tell at that place only.
LEMMA EntrySet ==
    ASSUME Types, NEW h \in Homes, NEW k \in Keys, NEW e \in Entry \cup {None},
           store' = [store EXCEPT ![h][k] = e], clock' = clock
    PROVE  LiveEntries' = [LiveEntries EXCEPT ![h][k] = View(e)]
<1>1. \A g \in Homes, q \in Keys :
        store'[g][q] = IF g = h /\ q = k THEN e ELSE store[g][q]
  BY DEF Types
<1>2. \A g \in Homes, q \in Keys :
        View(store[g][q])' = IF g = h /\ q = k THEN View(e) ELSE View(store[g][q])
  BY <1>1 DEF View
<1> QED
  BY <1>2 DEF LiveEntries

LEMMA EntriesSame ==
    ASSUME UNCHANGED <<store, clock>>
    PROVE  LiveEntries' = LiveEntries
  BY DEF LiveEntries, View

\* An operation at work has a store in reach.
LEMMA HomeInReach ==
    ASSUME Inv, NEW t \in Threads, pc[t] \in {"run", "scan"}, ~Disabled
    PROVE  Home(handle[t]) \in Homes /\ Store!InReach(Home(handle[t]))
<1>1. Types /\ ThreadFit(t)
  BY InvParts
<1>2. CASE kind = "redis"
  BY <1>2 DEF Home, Homes, Store!InReach, Current
<1>3. CASE kind = "memory"
  <2>1. handle[t] \in Threads /\ Home(handle[t]) = handle[t]
    BY <1>1, <1>3 DEF Home, ThreadFit, Types
  <2>2. CASE SharedBackend
    BY <1>3, <2>1, <2>2 DEF SharedBackend, Homes, Store!InReach, Current
  <2>3. CASE ~SharedBackend
    BY <1>3, <2>1, <2>3 DEF Homes, Store!InReach, Store!Starting, Mode
  <2> QED
    BY <2>2, <2>3
<1> QED
  BY <1>1, <1>2, <1>3 DEF Types, Kinds, Disabled

\* Without Redis or a dictionary, the server stands for the store.
LEMMA ServerInReach ==
    ASSUME kind # "memory"
    PROVE  Server \in Homes /\ Store!InReach(Server)
  BY DEF Homes, Store!InReach, Current

\* A promise with room for failures is one of a backend that may fail.
LEMMA LossyWhen ==
    ASSUME Disabled \/ Unreachable
    PROVE  kind # "memory" /\ Store!Lossy
  BY DEF Mode, Disabled, Unreachable, Store!Lossy

\* A process that has settled remains so, and which backend is shared is left
\* alone by a thread that drops or takes the one it finds.
LEMMA Remains ==
    ASSUME UNCHANGED <<kind, backend>>,
           \A u \in Threads : handle'[u] \in {handle[u], None, backend},
           \A u \in Threads : pc'[u] = "build" => pc[u] = "build" \/ backend = None
    PROVE  Store!MayRemain
<1>1. Current' = Current
  BY DEF Current
<1>2. SharedBackend => SharedBackend'
  BY DEF SharedBackend
<1>3. CASE kind # "memory"
  BY <1>1, <1>3 DEF Mode, Store!MayRemain
<1>4. CASE kind = "memory"
  BY <1>1, <1>2, <1>4 DEF Mode, Store!MayRemain, Store!Starting
<1> QED
  BY <1>3, <1>4

LEMMA GetBackendRemains ==
    ASSUME Inv, NEW t \in Threads, GetBackend(t), UNCHANGED <<kind, backend>>
    PROVE  Store!MayRemain
  BY InvParts, HandleSteps, Remains

LEMMA ReleaseRemains ==
    ASSUME Inv, NEW t \in Threads, NEW step \in Steps \ {"build"},
           Goto(t, step), handle' = [handle EXCEPT ![t] = None], UNCHANGED <<kind, backend>>
    PROVE  Store!MayRemain
  BY InvParts, HandleSteps, Remains

LEMMA FinishRemains ==
    ASSUME Inv, NEW t \in Threads, Finish(t), UNCHANGED <<kind, backend>>
    PROVE  Store!MayRemain
  BY ReleaseRemains DEF Finish, Steps

----------------------------------------------------------------------------
(* The abstract store: the operations under way                            *)

LEMMA PendingOf ==
    ASSUME NEW t \in Threads, pc[t] # "load"
    PROVE  Pending[t] = call[t]
  BY DEF Pending

\* A thread between two steps of one operation.
LEMMA PendingSame ==
    ASSUME UNCHANGED call, \A u \in Threads : pc'[u] = "load" <=> pc[u] = "load"
    PROVE  Pending' = Pending
  BY DEF Pending

\* A thread whose operation is replaced, and not by the loader.
LEMMA PendingSet ==
    ASSUME Types, NEW t \in Threads, NEW step \in Steps \ {"load"}, Goto(t, step),
           NEW c, call' = [call EXCEPT ![t] = c]
    PROVE  Pending' = [Pending EXCEPT ![t] = c]
<1>1. \A u \in Threads : /\ u = t => pc'[u] # "load" /\ call'[u] = c
                         /\ u # t => pc'[u] = pc[u] /\ call'[u] = call[u]
  BY DEF Types, Goto
<1>2. \A u \in Threads :
        Pending'[u] = IF u = t THEN c ELSE Pending[u]
  BY <1>1 DEF Pending
<1> QED
  BY <1>2 DEF Pending

LEMMA PendingDone ==
    ASSUME Inv, NEW t \in Threads, Finish(t)
    PROVE  Store!Done(t)
<1>1. Types /\ "idle" \in Steps \ {"load"}
  BY InvParts DEF Steps
<1> QED
  BY <1>1, PendingSet DEF Finish, Store!Done

\* The next call into the service, or the loader, by the same caller.
LEMMA PendingProceed ==
    ASSUME Inv, NEW t \in Threads, call[t] \in Call, NEW op, NEW v, Proceed(t, op, v)
    PROVE  Store!Then(t, op, v)
<1> DEFINE c == [op |-> op, key |-> Pending[t].key, value |-> v]
<1>1. Types
  BY InvParts
<1>2. Pending[t].key = call[t].key
  BY DEF Pending, Call
<1>3. call' = [call EXCEPT ![t] = c]
  BY <1>2 DEF Proceed
<1>4. \E step \in Steps \ {"load"} : Goto(t, step)
  BY DEF Proceed, GetBackend, Steps
<1> HIDE DEF c
<1>5. Pending' = [Pending EXCEPT ![t] = c]
  BY <1>1, <1>3, <1>4, PendingSet
<1> QED
  BY <1>5 DEF c, Store!Then

LEMMA PendingLoad ==
    ASSUME Inv, NEW t \in Threads, pc[t] = "run", call[t] \in Call, call[t].value = None,
           Goto(t, "load"), UNCHANGED call
    PROVE  Store!Then(t, "load", None)
<1> DEFINE c == [op |-> "load", key |-> Pending[t].key, value |-> None]
<1>1. Types
  BY InvParts
<1>2. Pending[t].key = call[t].key
  BY PendingOf
<1>3. \A u \in Threads : /\ u = t => pc'[u] = "load"
                         /\ u # t => pc'[u] = pc[u]
  BY <1>1 DEF Types, Goto
<1>4. [call[t] EXCEPT !.op = "load"] = c
  BY <1>2 DEF Call
<1> HIDE DEF c
<1>5. \A u \in Threads : Pending'[u] = IF u = t THEN c ELSE Pending[u]
  BY <1>3, <1>4 DEF Pending
<1>6. Pending' = [Pending EXCEPT ![t] = c]
  BY <1>5 DEF Pending
<1> QED
  BY <1>6 DEF c, Store!Then

----------------------------------------------------------------------------
(* The abstract store: what an operation finds                             *)

\* An entry that has not expired is seen with the time it has left.
LEMMA ViewFit ==
    ASSUME Types, NEW e \in Entry, clock < e.expires, e.expires <= clock + TTL
    PROVE  /\ View(e) = [value |-> e.value, left |-> e.expires - clock]
           /\ View(e) # None
<1> DEFINE seen == [value |-> e.value, left |-> e.expires - clock]
<1>1. e # None /\ e.value \in Contents /\ e.expires - clock \in 1..TTL
  BY DEF Types, Entry, Times
<1>2. seen \in [value : Contents, left : 1..TTL]
  BY <1>1
<1>3. View(e) = seen
  BY <1>1 DEF View, Types, Entry, Times
<1> QED
  BY <1>2, <1>3

\* What a live entry answers a caller.
LEMMA LiveView ==
    ASSUME Inv, NEW t \in Threads, pc[t] = "run", ~Disabled,
           NEW k \in Keys, NEW e, e = Live(Dict(t), k), NEW seen,
           seen = LiveEntries[Home(handle[t])][k]
    PROVE  /\ e = None <=> seen = None
           /\ e # None => seen.value = e.value
<1>1. Home(handle[t]) \in Homes
  BY HomeInReach
<1>2. seen = View(Dict(t)[k])
  BY <1>1 DEF LiveEntries, Dict
<1>3. CASE Dict(t)[k] = None \/ Expired(Dict(t)[k])
  BY <1>2, <1>3 DEF Live, View, Expired
<1>4. CASE ~(Dict(t)[k] = None \/ Expired(Dict(t)[k]))
  <2>1. /\ Types /\ Dict(t)[k] \in Entry /\ clock < Dict(t)[k].expires
        /\ Dict(t)[k].expires <= clock + TTL
    BY <1>1, <1>4, InvParts DEF Dict, Types, StoreFit, EntryFit, Expired, Entry, Times
  <2>2. /\ seen = [value |-> Dict(t)[k].value, left |-> Dict(t)[k].expires - clock]
        /\ seen # None
    BY <1>2, <2>1, ViewFit
  <2> QED
    BY <1>4, <2>1, <2>2 DEF Live
<1> QED
  BY <1>3, <1>4

\* What is stored or dropped, the callers see.
LEMMA SetSeen ==
    ASSUME Inv, NEW t \in Threads, pc[t] \in {"run", "scan"}, ~Disabled, UNCHANGED clock,
           NEW k \in Keys, NEW e \in Entry \cup {None}, SetEntry(t, k, e)
    PROVE  LiveEntries' = [LiveEntries EXCEPT ![Home(handle[t])][k] = View(e)]
  BY InvParts, HomeInReach, EntrySet DEF SetEntry

LEMMA DropSeen ==
    ASSUME Inv, NEW t \in Threads, pc[t] \in {"run", "scan"}, ~Disabled, UNCHANGED clock,
           NEW k \in Keys, SetEntry(t, k, None)
    PROVE  Store!Remove(Home(handle[t]), k)
  BY SetSeen DEF View, Store!Remove

LEMMA WriteSeen ==
    ASSUME Inv, NEW t \in Threads, pc[t] = "run", ~Disabled, UNCHANGED clock,
           NEW k \in Keys, NEW v \in Contents, Write(t, k, v)
    PROVE  Store!Put(Home(handle[t]), k, v)
<1>1. Types
  BY InvParts
<1>2. Expiring(v) \in Entry
  BY <1>1 DEF Expiring, Entry, Types, Times
<1>3. View(Expiring(v)) = [value |-> v, left |-> TTL]
  BY <1>1, <1>2 DEF View, Expiring, Types
<1> QED
  BY <1>2, <1>3, SetSeen DEF Write, Store!Put

\* A deletion, or none where one may be skipped.
LEMMA DeleteSeen ==
    ASSUME Inv, NEW t \in Threads, pc[t] = "run", UNCHANGED clock,
           call[t].key \in Keys, Delete(t)
    PROVE  \E s \in Homes :
              Store!InReach(s) /\ (Store!Remove(s, call[t].key) \/ Store!Skipped)
<1>1. CASE ~Disabled /\ SetEntry(t, call[t].key, None)
  BY <1>1, HomeInReach, DropSeen
<1>2. CASE (Disabled \/ Unreachable) /\ UNCHANGED store
  BY <1>2, LossyWhen, ServerInReach, EntriesSame DEF Store!Skipped
<1> QED
  BY <1>1, <1>2 DEF Delete

----------------------------------------------------------------------------
(* The abstract store: the steps of a thread                               *)

Promise == [Store!Next]_(Store!vars)

\* A step the callers cannot tell from none.
LEMMA Stutter ==
    ASSUME UNCHANGED <<LiveEntries, Current, Mode, Pending, answer>>
    PROVE  Promise
  BY DEF Promise, Store!vars

LEMMA Takes ==
    ASSUME NEW t \in Threads, NEW s \in Homes, Store!InReach(s), Store!Effect(t, s)
    PROVE  Promise
  BY DEF Promise, Store!Next

LEMMA BeginKeeps ==
    ASSUME Inv, NEW t \in Threads, NEW c, c # None, Begin(t, c)
    PROVE  Store!Invoke(t, c)
<1>1. Types /\ ThreadFit(t) /\ pc[t] = "idle"
  BY InvParts DEF Begin
<1>2. Store!MayRemain
  BY GetBackendRemains DEF Begin
<1>3. LiveEntries' = LiveEntries
  BY EntriesSame DEF Begin
<1>4. Pending[t] = None
  BY <1>1, PendingOf DEF ThreadFit
<1>5. \E step \in Steps \ {"load"} : Goto(t, step)
  BY DEF Begin, GetBackend, Steps
<1>6. Pending' = [Pending EXCEPT ![t] = c]
  BY <1>1, <1>5, PendingSet DEF Begin
<1> QED
  BY <1>2, <1>3, <1>4, <1>6 DEF Begin, Store!Invoke, Store!Answer

LEMMA RequestKeeps ==
    ASSUME Inv, NEW t \in Threads, Request(t)
    PROVE  Promise
<1>1. \A op, k, v : [op |-> op, key |-> k, value |-> v] \in Call =>
                       [op |-> op, key |-> k, value |-> v] # None
  BY NoneAssumption
<1>2. \A k \in CacheKeys, op \in {"get_or_set", "invalidate"} :
        [op |-> op, key |-> k, value |-> None] \in Call
  BY DEF Call, Operations, Keys
<1>3. [op |-> "invalidate_pattern", key |-> None, value |-> None] \in Call
  BY DEF Call, Operations
<1>4. \A k \in CounterKeys : [op |-> "increment", key |-> k, value |-> None] \in Call
  BY DEF Call, Operations, Keys
<1>5. Store!Request(t)
  <2>1. CASE \E k \in CacheKeys, op \in {"get_or_set", "invalidate"} :
               Begin(t, [op |-> op, key |-> k, value |-> None])
    BY <1>1, <1>2, <2>1, BeginKeeps DEF Store!Request
  <2>2. CASE Begin(t, [op |-> "invalidate_pattern", key |-> None, value |-> None])
    BY <1>1, <1>3, <2>2, BeginKeeps DEF Store!Request
  <2>3. CASE \E k \in CounterKeys :
               Begin(t, [op |-> "increment", key |-> k, value |-> None])
    BY <1>1, <1>4, <2>3, BeginKeeps DEF Store!Request
  <2> QED
    BY <2>1, <2>2, <2>3 DEF Request
<1> QED
  BY <1>5 DEF Promise, Store!Next

\* The first calls may each make their own dictionary the process's.
LEMMA BuildKeeps ==
    ASSUME Inv, Fresh, NEW t \in Threads, Build(t)
    PROVE  Promise
<1>1. Types /\ t \in Homes
  BY InvParts DEF Homes
<1>2. LiveEntries' = LiveEntries /\ answer' = answer /\ kind' = kind /\ backend' = t
  BY EntriesSame DEF Build
<1>3. Pending' = Pending
  BY <1>1, PendingSame DEF Build, Goto, Types
<1>4. CASE kind = "memory"
  <2>1. Current' = t /\ Mode = "starting" /\ Mode' \in {"starting", "exact"}
    BY <1>2, <1>4 DEF Build, Current, Mode, SharedBackend
  <2>2. LiveEntries[t] = Store!Empty
    BY <1>1 DEF Fresh, Build, LiveEntries, View, Empty, Store!Empty, Store!Keys, Keys
  <2>3. Store!Build(t)
    BY <1>2, <1>3, <2>1, <2>2 DEF Store!Build, Store!Starting
  <2> QED
    BY <1>1, <2>3 DEF Promise, Store!Next
<1>5. CASE kind # "memory"
  BY <1>2, <1>3, <1>5, Stutter DEF Current, Mode
<1> QED
  BY <1>4, <1>5

LEMMA ReturnKeeps ==
    ASSUME Inv, NEW t \in Threads, Return(t)
    PROVE  Promise
<1>1. Types /\ ThreadFit(t)
  BY InvParts
<1>2. /\ \A u \in Threads \ {t} : pc'[u] = pc[u] /\ handle'[u] = handle[u]
      /\ pc[t] = "return" /\ pc'[t] = "run" /\ handle[t] = None /\ handle'[t] = backend
  BY <1>1 DEF Types, ThreadFit, Return, Goto
<1>3. Mode' = Mode /\ Current' = Current
  BY <1>2 DEF Mode, Current, SharedBackend, Return
<1>4. LiveEntries' = LiveEntries /\ answer' = answer
  BY EntriesSame DEF Return
<1>5. Pending' = Pending
  BY <1>2, PendingSame DEF Return
<1> QED
  BY <1>3, <1>4, <1>5, Stutter

LEMMA LookupHitKeeps ==
    ASSUME Inv, NEW t \in Threads, LookupHit(t)
    PROVE  Promise
<1> DEFINE s == Home(handle[t])
<1>1. Types /\ ThreadFit(t)
  BY InvParts
<1>2. /\ pc[t] = "run" /\ call[t].op = "get_or_set" /\ ~Disabled
      /\ UNCHANGED <<kind, backend, clock, store>> /\ Finish(t)
  BY DEF LookupHit, Running
<1>3. call[t] # None /\ call[t].key \in CacheKeys /\ call[t].key \in Keys
  BY <1>1, <1>2, RunningFit DEF KeysOf, Keys
<1>4. s \in Homes /\ Store!InReach(s)
  BY <1>2, HomeInReach
<1>5. Pending[t] = call[t] /\ Store!Done(t) /\ Store!MayRemain /\ LiveEntries' = LiveEntries
  BY <1>2, PendingOf, PendingDone, FinishRemains, EntriesSame
<1> DEFINE seen == LiveEntries[s][call[t].key]
           e == Live(Dict(t), call[t].key)
<1>6. e # None /\ e.value # Undecodable /\ answer' = [answer EXCEPT ![t] = e.value]
  BY DEF LookupHit, Answer
<1>7. seen # None /\ seen.value = e.value
  BY <1>2, <1>3, <1>6, LiveView
<1> HIDE DEF e
<1> HIDE DEF s
<1>8. Store!Hit(t, s)
  BY <1>2, <1>3, <1>5, <1>6, <1>7 DEF Store!Hit, Store!Op, Store!Answer
<1> QED
  BY <1>4, <1>8, Takes DEF Store!Effect

LEMMA LookupMissKeeps ==
    ASSUME Inv, NEW t \in Threads, LookupMiss(t)
    PROVE  Promise
<1> DEFINE k == call[t].key
<1>1. Types /\ ThreadFit(t)
  BY InvParts
<1>2. /\ pc[t] = "run" /\ call[t].op = "get_or_set" /\ UNCHANGED <<kind, backend, clock, call>>
      /\ Goto(t, "load") /\ handle' = [handle EXCEPT ![t] = None] /\ Answer(t, None)
  BY DEF LookupMiss, Running
<1>3. call[t] \in Call /\ call[t] # None /\ call[t].key \in CacheKeys /\ call[t].value = None
  BY <1>1, <1>2, RunningFit DEF KeysOf, ThreadFit
<1>4. Pending[t] = call[t] /\ Store!Then(t, "load", None) /\ k \in Keys
  BY <1>2, <1>3, PendingOf, PendingLoad DEF Keys
<1>5. Store!MayRemain
  BY <1>2, ReleaseRemains DEF Steps
<1>6. ASSUME NEW s \in Homes, LiveEntries' = LiveEntries, Store!InReach(s),
             LiveEntries[s][k] = None \/ Store!Lossy
      PROVE  Promise
  <2>1. Store!Miss(t, s)
    BY <1>2, <1>3, <1>4, <1>5, <1>6 DEF Store!Miss, Store!Op, Store!Answer, Answer
  <2> QED
    BY <1>6, <2>1, Takes DEF Store!Effect
<1>7. CASE ~Disabled /\ Live(Dict(t), k) = None /\ SetEntry(t, k, None)
  <2> DEFINE s == Home(handle[t])
  <2>1. s \in Homes /\ Store!InReach(s) /\ LiveEntries[s][k] = None
    BY <1>2, <1>4, <1>7, HomeInReach, LiveView
  <2>2. LiveEntries' = [LiveEntries EXCEPT ![s][k] = None]
    BY <1>2, <1>4, <1>7, DropSeen DEF Store!Remove
  <2> HIDE DEF s
  <2>3. [LiveEntries[s] EXCEPT ![k] = None] = LiveEntries[s]
    BY <1>4, <2>1 DEF LiveEntries
  <2>4. [LiveEntries EXCEPT ![s] = LiveEntries[s]] = LiveEntries
    BY DEF LiveEntries
  <2>5. LiveEntries' = LiveEntries
    BY <2>2, <2>3, <2>4
  <2> QED
    BY <1>6, <2>1, <2>5
<1>8. CASE (Disabled \/ Unreachable) /\ UNCHANGED store
  BY <1>2, <1>6, <1>8, EntriesSame, LossyWhen, ServerInReach
<1> QED
  BY <1>7, <1>8 DEF LookupMiss

LEMMA LookupUndecodableKeeps ==
    ASSUME Inv, NEW t \in Threads, LookupUndecodable(t)
    PROVE  Promise
<1> DEFINE s == Home(handle[t])
<1>1. Types /\ ThreadFit(t)
  BY InvParts
<1>2. /\ pc[t] = "run" /\ call[t].op = "get_or_set" /\ ~Disabled
      /\ UNCHANGED <<kind, backend, clock, store>> /\ Proceed(t, "discard", None)
      /\ Answer(t, None)
  BY DEF LookupUndecodable, Running
<1>3. call[t] \in Call /\ call[t] # None /\ call[t].key \in CacheKeys /\ call[t].key \in Keys
  BY <1>1, <1>2, RunningFit DEF KeysOf, Keys
<1>4. s \in Homes /\ Store!InReach(s)
  BY <1>2, HomeInReach
<1>5. Pending[t] = call[t] /\ Store!Then(t, "discard", None) /\ LiveEntries' = LiveEntries
  BY <1>2, <1>3, PendingOf, PendingProceed, EntriesSame
<1>6. Store!MayRemain
  BY <1>2, GetBackendRemains DEF Proceed
<1> DEFINE seen == LiveEntries[s][call[t].key]
<1>7. seen # None /\ seen.value = Undecodable
  BY <1>2, <1>3, LiveView DEF LookupUndecodable
<1> HIDE DEF s
<1>8. Store!Reject(t, s)
  BY <1>2, <1>3, <1>5, <1>6, <1>7 DEF Store!Reject, Store!Op, Store!Answer, Answer
<1> QED
  BY <1>4, <1>8, Takes DEF Store!Effect

LEMMA DiscardKeeps ==
    ASSUME Inv, NEW t \in Threads, Discard(t)
    PROVE  Promise
<1>1. Types /\ ThreadFit(t)
  BY InvParts
<1>2. /\ pc[t] = "run" /\ call[t].op = "discard" /\ Delete(t)
      /\ UNCHANGED <<kind, backend, clock, answer, call>>
      /\ Goto(t, "load") /\ handle' = [handle EXCEPT ![t] = None]
  BY DEF Discard, Running
<1>3. call[t] \in Call /\ call[t] # None /\ call[t].key \in Keys /\ call[t].value = None
  BY <1>1, <1>2, RunningFit DEF KeysOf, Keys, ThreadFit
<1>4. Pending[t] = call[t] /\ Store!Then(t, "load", None)
  BY <1>2, <1>3, PendingOf, PendingLoad
<1>5. Store!MayRemain
  BY <1>2, ReleaseRemains DEF Steps
<1>6. PICK s \in Homes :
        Store!InReach(s) /\ (Store!Remove(s, call[t].key) \/ Store!Skipped)
  BY <1>2, <1>3, DeleteSeen
<1>7. Store!Discard(t, s)
  BY <1>2, <1>3, <1>4, <1>5, <1>6 DEF Store!Discard, Store!Op
<1> QED
  BY <1>6, <1>7, Takes DEF Store!Effect

LEMMA InvalidateKeeps ==
    ASSUME Inv, NEW t \in Threads, Invalidate(t)
    PROVE  Promise
<1>1. Types /\ ThreadFit(t)
  BY InvParts
<1>2. /\ pc[t] = "run" /\ call[t].op = "invalidate" /\ Delete(t) /\ Finish(t)
      /\ UNCHANGED <<kind, backend, clock, answer>>
  BY DEF Invalidate, Running
<1>3. call[t] # None /\ call[t].key \in Keys
  BY <1>1, <1>2, RunningFit DEF KeysOf, Keys
<1>4. Pending[t] = call[t] /\ Store!Done(t) /\ Store!MayRemain
  BY <1>2, PendingOf, PendingDone, FinishRemains
<1>5. PICK s \in Homes :
        Store!InReach(s) /\ (Store!Remove(s, call[t].key) \/ Store!Skipped)
  BY <1>2, <1>3, DeleteSeen
<1>6. Store!Invalidate(t, s)
  BY <1>2, <1>3, <1>4, <1>5 DEF Store!Invalidate, Store!Op
<1> QED
  BY <1>5, <1>6, Takes DEF Store!Effect

\* At its loader, a thread has nothing else to do than to store the outcome.
LEMMA LoaderFit ==
    ASSUME Inv, NEW t \in Threads, pc[t] = "load"
    PROVE  call[t] \in Call /\ Store!Op(t, "load")
<1>1. call[t] \in Call /\ call[t] # None
  BY InvParts, RunningFit
<1>2. Pending[t] = [call[t] EXCEPT !.op = "load"]
  BY DEF Pending
<1>3. Pending[t].op = "load"
  BY <1>1, <1>2 DEF Call
<1>4. Pending[t] # None
  <2>1. Pending[t] = [op |-> "load", key |-> call[t].key, value |-> call[t].value]
    BY <1>1, <1>2 DEF Call
  <2>2. Pending[t] \in [op : {"load"}, key : Keys \cup {None}, value : Values \cup {None}]
    BY <1>1, <2>1 DEF Call
  <2> QED
    BY <2>2, NoneAssumption
<1> QED
  BY <1>1, <1>3, <1>4 DEF Store!Op

LEMMA LoadKeeps ==
    ASSUME Inv, NEW t \in Threads, LoadNothing(t) \/ \E v \in Values : Load(t, v)
    PROVE  Promise
<1>1. pc[t] = "load" /\ UNCHANGED <<kind, backend, store, clock, answer>>
  BY DEF LoadNothing, Load
<1>2. call[t] \in Call /\ Store!Op(t, "load") /\ LiveEntries' = LiveEntries
  BY <1>1, LoaderFit, EntriesSame
<1>3. CASE LoadNothing(t)
  <2>1. Store!LoadNothing(t)
    BY <1>1, <1>2, <1>3, PendingDone, FinishRemains DEF LoadNothing, Store!LoadNothing
  <2> QED
    BY <2>1 DEF Promise, Store!Next
<1>4. ASSUME NEW v \in Values, Load(t, v)
      PROVE  Promise
  <2>1. Proceed(t, "set", v)
    BY <1>4 DEF Load
  <2>2. Store!Then(t, "set", v) /\ Store!MayRemain
    BY <1>1, <1>2, <2>1, PendingProceed, GetBackendRemains DEF Proceed
  <2>3. Store!Load(t, v)
    BY <1>1, <1>2, <2>2 DEF Store!Load
  <2> QED
    BY <2>3 DEF Promise, Store!Next, Stored
<1> QED
  BY <1>3, <1>4

LEMMA SetKeeps ==
    ASSUME Inv, NEW t \in Threads, Set(t)
    PROVE  Promise
<1>1. Types /\ ThreadFit(t)
  BY InvParts
<1>2. /\ pc[t] = "run" /\ call[t].op = "set" /\ Finish(t)
      /\ UNCHANGED <<kind, backend, clock, answer>>
  BY DEF Set, Running
<1>3. call[t] \in Call /\ call[t] # None /\ call[t].key \in Keys /\ call[t].value # None
  BY <1>1, <1>2, RunningFit DEF KeysOf, Keys, ThreadFit
<1>4. call[t].value \in Contents
  BY <1>3 DEF Call, Contents, Stored
<1>5. Pending[t] = call[t] /\ Store!Done(t) /\ Store!MayRemain
  BY <1>2, PendingOf, PendingDone, FinishRemains
<1>6. \E s \in Homes :
        Store!InReach(s) /\ (Store!Put(s, call[t].key, call[t].value) \/ Store!Skipped)
  <2>1. CASE ~Disabled /\ Write(t, call[t].key, call[t].value)
    BY <1>2, <1>3, <1>4, <2>1, HomeInReach, WriteSeen
  <2>2. CASE (Disabled \/ Unreachable) /\ UNCHANGED store
    BY <1>2, <2>2, LossyWhen, ServerInReach, EntriesSame DEF Store!Skipped
  <2> QED
    BY <2>1, <2>2 DEF Set
<1>7. PICK s \in Homes :
        Store!InReach(s) /\ (Store!Put(s, call[t].key, call[t].value) \/ Store!Skipped)
  BY <1>6
<1>8. Store!Set(t, s)
  BY <1>2, <1>3, <1>5, <1>7 DEF Store!Set, Store!Op
<1> QED
  BY <1>7, <1>8, Takes DEF Store!Effect

LEMMA IncrementKeeps ==
    ASSUME Inv, NEW t \in Threads, Increment(t)
    PROVE  Promise
<1> DEFINE k == call[t].key
           e == Live(Dict(t), k)
           count == IF e = None THEN 1 ELSE e.value + 1
<1>1. Types /\ ThreadFit(t) /\ StoreFit
  BY InvParts
<1>2. /\ pc[t] = "run" /\ call[t].op = "increment" /\ Finish(t)
      /\ UNCHANGED <<kind, backend, clock>>
  BY DEF Increment, Running
<1>3. call[t] # None /\ k \in CounterKeys /\ k \in Keys
  BY <1>1, <1>2, RunningFit DEF KeysOf, Keys
<1>4. Pending[t] = call[t] /\ Store!Done(t) /\ Store!MayRemain
  BY <1>2, PendingOf, PendingDone, FinishRemains
<1>5. CASE ~Disabled /\ count <= MaxCount /\ Write(t, k, count)
           /\ (Answer(t, count) \/ (Unreachable /\ Answer(t, 0)))
  <2> DEFINE s == Home(handle[t])
  <2>1. s \in Homes /\ Store!InReach(s)
    BY <1>2, <1>5, HomeInReach
  <2>2. e # None => e.value \in 1..MaxCount
    BY <1>1, <1>2, <1>3, <1>5, LiveFit
  <2>3. count \in Contents
    BY <1>5, <2>2 DEF Contents
  <2>4. count = Store!Count(s, k)
    BY <1>2, <1>3, <1>5, LiveView DEF Store!Count
  <2> HIDE DEF count, s
  <2>5. Store!Put(Home(handle[t]), k, count)
    BY <1>2, <1>3, <1>5, <2>3, WriteSeen
  <2>6. Store!Put(s, k, Store!Count(s, k))
    BY <2>4, <2>5 DEF s
  <2>7. Store!Answer(t, Store!Count(s, k)) \/ (Store!Lossy /\ Store!Answer(t, 0))
    BY <1>5, <2>4, LossyWhen DEF Store!Answer, Answer
  <2>8. Store!Increment(t, s)
    BY <1>2, <1>3, <1>4, <2>6, <2>7 DEF Store!Increment, Store!Op
  <2> QED
    BY <2>1, <2>8, Takes DEF Store!Effect
<1>6. CASE (Disabled \/ Unreachable) /\ UNCHANGED <<store, doomed>> /\ Answer(t, 0)
  <2>1. Store!Skipped /\ Server \in Homes /\ Store!InReach(Server)
    BY <1>2, <1>6, LossyWhen, ServerInReach, EntriesSame DEF Store!Skipped
  <2>2. Store!Increment(t, Server)
    BY <1>2, <1>3, <1>4, <1>6, <2>1 DEF Store!Increment, Store!Op, Store!Answer, Answer
  <2> QED
    BY <2>1, <2>2, Takes DEF Store!Effect
<1> QED
  BY <1>5, <1>6 DEF Increment

LEMMA DeleteMatchingKeeps ==
    ASSUME Inv, NEW t \in Threads, DeleteMatching(t)
    PROVE  Promise
<1>1. Types /\ ThreadFit(t)
  BY InvParts
<1>2. /\ pc[t] = "run" /\ call[t].op = "invalidate_pattern" /\ Finish(t) /\ kind # "redis"
      /\ UNCHANGED <<kind, backend, clock, answer>>
  BY DEF DeleteMatching, Running
<1>3. call[t] # None /\ handle[t] \in Threads
  BY <1>1, <1>2 DEF ThreadFit, Types
<1>4. Pending[t] = call[t] /\ Store!Done(t) /\ Store!MayRemain
  BY <1>2, PendingOf, PendingDone, FinishRemains
<1>5. CASE kind = "memory"
  <2>1. handle[t] \in Homes /\ Store!InReach(handle[t]) /\ ~Store!Lossy
    BY <1>2, <1>5, HomeInReach DEF Disabled, Home, Store!Lossy, Mode
  <2>2. \A h \in Homes, k \in Keys :
          store'[h][k] = IF h = handle[t] /\ k \in CacheKeys THEN None ELSE store[h][k]
    BY <1>1, <1>5, <2>1 DEF DeleteMatching, Types
  <2>3. \A h \in Homes, k \in Keys :
          View(store[h][k])' =
            IF h = handle[t] /\ k \in CacheKeys THEN None ELSE View(store[h][k])
    BY <1>2, <2>2 DEF View
  <2>4. LiveEntries' = [LiveEntries EXCEPT ![handle[t]] =
                          [k \in Store!Keys |-> IF k \in CacheKeys THEN None ELSE @[k]]]
    BY <2>1, <2>3 DEF LiveEntries, Store!Keys, Keys
  <2>5. Store!InvalidatePattern(t, handle[t])
    BY <1>2, <1>3, <1>4, <2>1, <2>4 DEF Store!InvalidatePattern, Store!Op
  <2> QED
    BY <2>1, <2>5, Takes DEF Store!Effect
<1>6. CASE kind = "disabled"
  <2>1. Store!Skipped /\ Server \in Homes /\ Store!InReach(Server)
    BY <1>2, <1>6, LossyWhen, ServerInReach, EntriesSame
       DEF Store!Skipped, Disabled, DeleteMatching
  <2>2. Store!InvalidatePattern(t, Server)
    BY <1>2, <1>3, <1>4, <2>1 DEF Store!InvalidatePattern, Store!Op, Store!Skipped
  <2> QED
    BY <2>1, <2>2, Takes DEF Store!Effect
<1> QED
  BY <1>1, <1>2, <1>5, <1>6 DEF Types, Kinds

\* A scan removes keys one at a time, and takes effect when it ends.
LEMMA ScanKeeps ==
    ASSUME Inv, NEW t \in Threads, Scan(t)
    PROVE  Promise
<1>1. Types /\ pc[t] = "run"
  BY InvParts DEF Scan, Running
<1>2. \A u \in Threads : pc'[u] = "load" <=> pc[u] = "load"
  BY <1>1 DEF Scan, Goto, Types
<1>3. Pending' = Pending
  BY <1>2, PendingSame DEF Scan
<1>4. Current' = Current /\ Mode' = Mode
  BY DEF Current, Mode, Scan, Running
<1> QED
  BY <1>3, <1>4, EntriesSame, Stutter DEF Scan, Running

LEMMA ScanKeyKeeps ==
    ASSUME Inv, NEW t \in Threads, NEW k \in CacheKeys, ScanKey(t, k)
    PROVE  Promise
<1> DEFINE s == Home(handle[t])
<1>1. /\ pc[t] = "scan" /\ kind = "redis" /\ call[t] # None
      /\ call[t].op = "invalidate_pattern" /\ k \in Keys
      /\ SetEntry(t, k, None) /\ UNCHANGED <<kind, backend, clock, pc, call, handle, answer>>
  BY InvParts DEF ScanKey, ThreadFit, Keys
<1>2. ~Disabled /\ Store!Lossy
  BY <1>1, LossyWhen DEF Disabled, Unreachable
<1>3. s \in Homes /\ Store!InReach(s) /\ Store!Remove(s, k)
  BY <1>1, <1>2, HomeInReach, DropSeen
<1>4. Pending[t] = call[t] /\ Pending' = Pending
  BY <1>1, PendingOf, PendingSame
<1>5. Store!MayRemain
  BY <1>1 DEF Store!MayRemain, Mode, Current
<1> HIDE DEF s
<1>6. Store!InvalidatePattern(t, s)
  BY <1>1, <1>2, <1>3, <1>4, <1>5 DEF Store!InvalidatePattern, Store!Op
<1> QED
  BY <1>3, <1>6, Takes DEF Store!Effect

LEMMA EndScanKeeps ==
    ASSUME Inv, NEW t \in Threads, pc[t] = "scan", EndScan(t)
    PROVE  Promise
<1>1. /\ kind = "redis" /\ call[t] # None /\ call[t].op = "invalidate_pattern"
      /\ Finish(t) /\ UNCHANGED <<kind, backend, store, clock, answer>>
  BY InvParts DEF EndScan, ThreadFit
<1>2. Store!Skipped /\ Server \in Homes /\ Store!InReach(Server)
  BY <1>1, LossyWhen, ServerInReach, EntriesSame DEF Store!Skipped, Unreachable
<1>3. Pending[t] = call[t] /\ Store!Done(t) /\ Store!MayRemain
  BY <1>1, PendingOf, PendingDone, FinishRemains
<1>4. Store!InvalidatePattern(t, Server)
  BY <1>1, <1>2, <1>3 DEF Store!InvalidatePattern, Store!Op, Store!Skipped
<1> QED
  BY <1>2, <1>4, Takes DEF Store!Effect

----------------------------------------------------------------------------
(* The abstract store: the environment                                     *)

\* The time an entry has left, a tick later.
LEMMA AgedView ==
    ASSUME Inv, Tick, NEW h \in Homes, NEW k \in Keys
    PROVE  View(store[h][k])' = Store!Aged(View(store[h][k]))
<1> DEFINE e == store[h][k]
<1>1. Types /\ e \in Entry \cup {None} /\ (e # None => e.expires <= clock + TTL)
  BY InvParts DEF Types, StoreFit, EntryFit
<1>2. clock \in Nat /\ clock' = clock + 1
  BY <1>1 DEF Types, Tick
<1>3. \/ store'[h][k] = e
      \/ store'[h][k] = None /\ e # None /\ e.expires <= clock + 1
  BY <1>1 DEF Tick, Types, Homes
<1>4. CASE e = None
  BY <1>3, <1>4 DEF View, Store!Aged
<1>5. CASE e # None /\ e.expires <= clock
  <2>1. View(e) = None
    BY <1>5 DEF View
  <2>2. e.expires <= clock'
    BY <1>1, <1>2, <1>5 DEF Entry, Times
  <2>3. View(store[h][k])' = None
    BY <1>2, <1>3, <2>2 DEF View
  <2> QED
    BY <2>1, <2>3 DEF Store!Aged
<1>6. CASE e # None /\ ~(e.expires <= clock)
  <2>1. e \in Entry /\ e.expires \in Nat /\ clock < e.expires
    BY <1>1, <1>2, <1>6 DEF Entry, Times
  <2>2. View(e) = [value |-> e.value, left |-> e.expires - clock] /\ View(e) # None
    BY <1>1, <1>6, <2>1, ViewFit
  <2>3. CASE e.expires = clock + 1
    <3>1. View(store[h][k])' = None
      BY <1>2, <1>3, <2>3 DEF View
    <3> QED
      BY <1>2, <2>2, <2>3, <3>1 DEF Store!Aged
  <2>4. CASE e.expires # clock + 1
    <3>1. ~(e.expires <= clock + 1)
      BY <1>2, <2>1, <2>4
    <3>2. store'[h][k] = e
      BY <1>3, <3>1
    <3>3. View(store[h][k])' = [value |-> e.value, left |-> e.expires - (clock + 1)]
      BY <1>2, <1>6, <3>1, <3>2 DEF View
    <3>4. Store!Aged(View(e)) = [View(e) EXCEPT !.left = @ - 1]
      BY <1>2, <2>1, <2>2, <2>4 DEF Store!Aged
    <3> QED
      BY <1>2, <2>1, <2>2, <3>3, <3>4
  <2> QED
    BY <2>3, <2>4
<1> QED
  BY <1>4, <1>5, <1>6

\* A tick ages every live entry, whether or not its dictionary drops it.
LEMMA TickKeeps ==
    ASSUME Inv, Tick
    PROVE  Promise
<1>1. Mode' = Mode /\ Current' = Current /\ Pending' = Pending /\ answer' = answer
  BY DEF Mode, Current, Pending, SharedBackend, Tick, threads
<1>2. LiveEntries' =
        [s \in Homes |-> [k \in Store!Keys |-> Store!Aged(LiveEntries[s][k])]]
  BY AgedView DEF LiveEntries, Store!Keys, Keys
<1>3. Store!Tick
  BY <1>1, <1>2 DEF Store!Tick
<1> QED
  BY <1>3 DEF Promise, Store!Next

LEMMA EvictKeeps ==
    ASSUME Inv, NEW k \in Keys, Evict(k)
    PROVE  Promise
<1>1. Types /\ Server \in Homes
  BY InvParts DEF Homes
<1>2. /\ Mode' = Mode /\ Current' = Current /\ Pending' = Pending /\ answer' = answer
      /\ Mode = "lossy" /\ Current = Server
  BY DEF Mode, Current, Pending, SharedBackend, Evict, threads
<1>3. LiveEntries' = [LiveEntries EXCEPT ![Server][k] = View(None)]
  BY <1>1, EntrySet DEF Evict
<1>4. Store!Evict
  BY <1>2, <1>3 DEF Store!Evict, Store!Lossy, Store!Remove, View, Store!Keys, Keys
<1> QED
  BY <1>4 DEF Promise, Store!Next

LEMMA RestartKeeps ==
    ASSUME Inv, Fresh, Restart
    PROVE  Promise
<1>1. Types
  BY InvParts
<1>2. answer' = [t \in Threads |-> None] /\ Pending' = [t \in Threads |-> None]
  BY <1>1 DEF Restart, Each, Pending
<1>3. \A h \in Homes : store'[h] = IF h = Server THEN store[h] ELSE Empty
  BY DEF Restart
<1>4. \A h \in Homes : LiveEntries'[h] = IF h = Server THEN LiveEntries[h] ELSE Store!Empty
  <2>1. ASSUME NEW h \in Homes, h # Server
        PROVE  LiveEntries'[h] = Store!Empty
    BY <1>3, <2>1 DEF LiveEntries, View, Empty, Store!Empty, Store!Keys, Keys
  <2>2. LiveEntries'[Server] = LiveEntries[Server] /\ Server \in Homes
    BY <1>3 DEF LiveEntries, View, Restart, Homes
  <2> QED
    BY <2>1, <2>2
<1>5. CASE kind = "memory"
  <2>1. Mode # "lossy" /\ Mode' = "starting" /\ Current' = None
    BY <1>5 DEF Mode, Current, SharedBackend, Restart
  <2>2. store[Server] = Empty
    BY <1>5 DEF Fresh
  <2>3. LiveEntries[Server] = Store!Empty
    BY <2>2 DEF LiveEntries, Homes, View, Empty, Store!Empty, Store!Keys, Keys
  <2>4. LiveEntries' = [h \in Homes |-> Store!Empty]
    BY <1>4, <2>3 DEF LiveEntries
  <2>5. Store!Restart
    BY <1>2, <2>1, <2>4 DEF Store!Restart, Store!Lossy
  <2> QED
    BY <2>5 DEF Promise, Store!Next
<1>6. CASE kind # "memory"
  <2>1. Mode = "lossy" /\ Mode' = "lossy" /\ Current = Server /\ Current' = Server
    BY <1>6 DEF Mode, Current, Restart
  <2>2. LiveEntries' = [h \in Homes |-> IF h = Server THEN LiveEntries[h] ELSE Store!Empty]
    BY <1>4 DEF LiveEntries
  <2>3. Store!Restart
    BY <1>2, <2>1, <2>2 DEF Store!Restart, Store!Lossy
  <2> QED
    BY <2>3 DEF Promise, Store!Next
<1> QED
  BY <1>5, <1>6

----------------------------------------------------------------------------
(* The abstract store: the refinement                                      *)

LEMMA NextKeeps ==
    ASSUME Inv, Fresh, [Next]_vars
    PROVE  Promise
<1>1. CASE UNCHANGED vars
  <2>1. LiveEntries' = LiveEntries
    BY <1>1, EntriesSame DEF vars
  <2>2. Mode' = Mode /\ Current' = Current /\ Pending' = Pending /\ answer' = answer
    BY <1>1 DEF vars, threads, Mode, Current, Pending, SharedBackend
  <2> QED
    BY <2>1, <2>2, Stutter
<1>2. ASSUME NEW t \in Threads, Step(t)
      PROVE  Promise
  BY <1>2, BuildKeeps, ReturnKeeps, LookupHitKeeps, LookupMissKeeps,
     LookupUndecodableKeeps, DiscardKeeps, LoadKeeps, SetKeeps, InvalidateKeeps,
     IncrementKeeps, DeleteMatchingKeeps, ScanKeeps, ScanKeyKeeps, EndScanKeeps
     DEF Step, ScanDone, ScanFails
<1> QED
  BY <1>1, <1>2, RequestKeeps, EvictKeeps, TickKeeps, RestartKeeps DEF Next

LEMMA InitKeeps ==
    ASSUME Init
    PROVE  Store!Init
<1>1. Fresh
  BY InitFresh
<1>2. Pending = [t \in Threads |-> None] /\ answer = [t \in Threads |-> None]
  BY DEF Init, Each, Pending
<1>3. \/ kind = "memory" /\ Mode = "starting" /\ Current = None
      \/ kind # "memory" /\ Mode = "lossy" /\ Current = Server /\ Server \in Homes
  BY DEF Init, Mode, Current, SharedBackend, Homes
<1>4. \A h \in Homes : h # Current => store[h] = Empty
  BY <1>1, <1>3 DEF Fresh, Init, Homes
<1>5. \A h \in Homes : h # Current => LiveEntries[h] = Store!Empty
  BY <1>4 DEF LiveEntries, View, Empty, Store!Empty, Store!Keys, Keys
<1> QED
  BY <1>2, <1>3, <1>5 DEF Store!Init

\* "It implements the same TTL semantics": whichever backend the process was
\* started with, what its threads store, find, count and delete is a behaviour
\* of stores of expiring entries in which each operation takes effect once,
\* between its call and its end.  From the moment the unsynchronised first
\* calls have settled on one in-memory backend it is one such store, in which
\* no operation is skipped and no entry lost before its time.
THEOREM Implements == Spec => ImplementsTtlStore
<1>1. Inv /\ Fresh /\ [Next]_vars => [Store!Next]_(Store!vars)
  BY NextKeeps DEF Promise
<1>2. Init => Store!Init
  BY InitKeeps
<1>3. Spec => []Fresh
  <2>1. Init => Fresh
    BY InitFresh
  <2>2. Inv /\ Fresh /\ [Next]_vars => Fresh'
    BY NextFresh
  <2> QED
    BY <2>1, <2>2, Inductive, PTL DEF Spec
<1> QED
  BY <1>1, <1>2, <1>3, Inductive, PTL DEF Spec, ImplementsTtlStore, Store!Spec

=============================================================================
