-------------------------- MODULE RateLimit_proofs --------------------------
(***************************************************************************)
(* The rate limiter keeps its limit, for any number of tasks, callers and  *)
(* requests, any limits, and any clock skew and delay that together do not *)
(* exceed a window.                                                        *)
(***************************************************************************)
EXTENDS RateLimit, FiniteSetTheorems, TLAPS

USE WindowAssumption, LimitAssumption, LagAssumption, NoneAssumption

----------------------------------------------------------------------------
(* The inductive invariant                                                 *)

\* A request being counted read a clock inside its window, not long ago.
JobFit ==
    \A h \in Handlers : Counting(h) =>
        /\ job[h].key[2] <= job[h].at /\ job[h].at < job[h].key[2] + Window
        /\ job[h].since <= job[h].at /\ job[h].at <= job[h].since + MaxSkew
        /\ job[h].since <= now /\ now <= job[h].since + MaxLag

\* The earliest time at which a counter that has counted can be gone.
Horizon(k) == k[2] + 2 * Window - MaxSkew

Live(k) ==
    /\ counter[k] # None
    /\ counter[k].count >= admitted[k]
    /\ counter[k].expires >= Horizon(k)

\* A counter Redis did not drop knows of every request it let through until
\* nothing can be counted in its window any more.
CounterFit ==
    \A k \in Keys : ~lost[k] =>
        /\ admitted[k] <= Limit(k[1])
        /\ admitted[k] > 0 =>
              /\ now >= k[2] - MaxSkew
              /\ Live(k) \/ now >= Horizon(k)

Inv == TypeOK /\ JobFit /\ CounterFit

----------------------------------------------------------------------------
(* Arithmetic of windows                                                   *)

\* A clock reading lies in the window that starts at its WindowStart.
LEMMA WindowStartBounds ==
    ASSUME NEW c \in Nat
    PROVE  /\ WindowStart(c) \in Nat
           /\ WindowStart(c) <= c /\ c < WindowStart(c) + Window
<1> DEFINE q == c \div Window
<1>1. q \in Nat /\ c = q * Window + (c % Window) /\ c % Window \in 0..(Window - 1)
  OBVIOUS
<1>2. q * Window \in Nat
  BY <1>1
<1> QED
  BY <1>1, <1>2 DEF WindowStart

\* What is left of a window is at most the window, in whole seconds too.
LEMMA SecondsBound ==
    ASSUME NEW rest \in 1..Window
    PROVE  rest \div Second \in 0..Window
<1> DEFINE q == rest \div Second
<1>1. q \in Nat /\ rest = q * Second + (rest % Second) /\ rest % Second \in Nat
  OBVIOUS
<1>2. q <= q * Second
  BY <1>1
<1> QED
  BY <1>1, <1>2

\* A key is a subject and the start of a window.
LEMMA KeyParts ==
    ASSUME NEW k \in Keys
    PROVE  k[1] \in Subjects /\ k[2] \in Starts /\ k[2] \in Nat
<1>1. k[1] \in Subjects /\ k[2] \in Starts
  BY DEF Keys
<1>2. \A c \in Clocks : WindowStart(c) \in Nat
  BY WindowStartBounds DEF Clocks
<1> QED
  BY <1>1, <1>2 DEF Starts

LEMMA LimitType == ASSUME NEW s PROVE Limit(s) \in Nat
  BY DEF Limit

----------------------------------------------------------------------------
(* What the pieces of a step do                                            *)

\* The key a request is counted under, and the clock it read.
LEMMA ArrivalFits ==
    ASSUME TypeOK, NEW t \in Tasks, NEW s \in Subjects
    PROVE  /\ Clock(t) \in Clocks /\ Clock(t) \in Nat
           /\ CounterKey(s, WindowStart(Clock(t))) \in Keys
           /\ <<s, WindowStart(Clock(t))>> \in Keys
           /\ CounterKey(s, WindowStart(Clock(t)))[2] <= Clock(t)
           /\ Clock(t) < CounterKey(s, WindowStart(Clock(t)))[2] + Window
           /\ now <= Clock(t) /\ Clock(t) <= now + MaxSkew
<1>1. now \in Times /\ skew[t] \in 0..MaxSkew
  BY DEF TypeOK
<1>2. /\ Clock(t) \in Clocks /\ Clock(t) \in Nat
      /\ now <= Clock(t) /\ Clock(t) <= now + MaxSkew
  BY <1>1 DEF Clock, Clocks, Times
<1>3. WindowStart(Clock(t)) \in Starts
  BY <1>2 DEF Starts
<1>4. /\ WindowStart(Clock(t)) <= Clock(t)
      /\ Clock(t) < WindowStart(Clock(t)) + Window
  BY <1>2, WindowStartBounds
<1> QED
  BY <1>2, <1>3, <1>4 DEF CounterKey, Keys

\* The subject of any request is one the limiter knows.
LEMMA SubjectType ==
    ASSUME NEW path \in {"auth", "api"}, NEW user \in Users \cup {None},
           NEW address \in Addresses
    PROVE  Subject(path, user, address) \in Subjects
  BY DEF Subject, Subjects

\* INCR and EXPIRE touch one counter, which then counts one more and lives for
\* KeyTTL.
LEMMA IncrementedFields ==
    ASSUME TypeOK, NEW k \in Keys
    PROVE  /\ Incremented(k) \in [Keys -> Counter \cup {None}]
           /\ Incremented(k)[k] # None
           /\ Incremented(k)[k].count = CountOf(k) + 1
           /\ Incremented(k)[k].expires = now + KeyTTL
           /\ \A other \in Keys : other # k => Incremented(k)[other] = counter[other]
           /\ CountOf(k) \in Nat
<1> DEFINE new == [count |-> CountOf(k) + 1, expires |-> now + KeyTTL]
<1>1. counter \in [Keys -> Counter \cup {None}] /\ now \in Nat /\ KeyTTL \in Nat
  BY DEF TypeOK, Times, KeyTTL
<1>2. CountOf(k) \in Nat
  BY <1>1 DEF CountOf, Counter
<1>3. new \in Counter /\ new.count = CountOf(k) + 1 /\ new.expires = now + KeyTTL
  BY <1>1, <1>2 DEF Counter
<1>4. new # None
  BY <1>3
<1>5. Incremented(k) = [counter EXCEPT ![k] = new]
  BY DEF Incremented
<1> HIDE DEF new
<1> QED
  BY <1>1, <1>2, <1>3, <1>4, <1>5

\* A job being counted is a record of the first kind.
LEMMA CountingType ==
    ASSUME TypeOK, NEW h \in Handlers, Counting(h)
    PROVE  /\ job[h].key \in Keys /\ job[h].at \in Clocks /\ job[h].since \in Times
           /\ job[h].at \in Nat /\ job[h].since \in Nat
  BY DEF TypeOK, Counting, Job, Clocks, Times

\* A request is counted before the horizon of its window.
LEMMA CountingBeforeHorizon ==
    ASSUME TypeOK, JobFit, NEW h \in Handlers, Counting(h)
    PROVE  now < Horizon(job[h].key) /\ now >= job[h].key[2] - MaxSkew
<1>1. now \in Nat /\ job[h].key[2] \in Nat /\ job[h].at \in Nat /\ job[h].since \in Nat
  BY CountingType, KeyParts DEF TypeOK, Times
<1> QED
  BY <1>1 DEF JobFit, Horizon

----------------------------------------------------------------------------
(* The invariant is inductive                                              *)

LEMMA InitInv == Init => Inv
<1> SUFFICES ASSUME Init PROVE Inv
  OBVIOUS
<1>1. TypeOK
  BY DEF Init, TypeOK, Times
<1>2. JobFit
  BY DEF Init, JobFit, Counting
<1>3. CounterFit
  BY LimitType DEF Init, CounterFit
<1> QED
  BY <1>1, <1>2, <1>3 DEF Inv

LEMMA ArriveInv ==
    ASSUME Inv, NEW h \in Handlers, NEW t \in Tasks, NEW s \in Subjects, Arrive(h, t, s)
    PROVE  Inv'
<1> DEFINE start == WindowStart(Clock(t))
           new == [step |-> "count", key |-> CounterKey(s, start),
                   at |-> Clock(t), since |-> now]
<1>1. TypeOK /\ JobFit /\ CounterFit
  BY DEF Inv
<1>2. /\ new \in Job /\ new.key = CounterKey(s, start) /\ new.at = Clock(t)
      /\ new.since = now
  BY <1>1, ArrivalFits DEF Job, TypeOK
<1>3. /\ new.key[2] <= new.at /\ new.at < new.key[2] + Window
      /\ new.since <= new.at /\ new.at <= new.since + MaxSkew
  BY <1>1, <1>2, ArrivalFits
<1>4. job' = [job EXCEPT ![h] = new] /\ asked' = [asked EXCEPT ![<<s, start>>] = @ + 1]
  BY DEF Arrive
<1>5. <<s, start>> \in Keys
  BY <1>1, ArrivalFits
<1> HIDE DEF new, start
<1>6. job' \in [Handlers -> Job \cup {None}]
  BY <1>1, <1>2, <1>4 DEF TypeOK
<1>7. asked' \in [Keys -> Nat]
  BY <1>1, <1>4, <1>5 DEF TypeOK
<1>8. TypeOK'
  BY <1>1, <1>6, <1>7 DEF Arrive, TypeOK
<1>9. JobFit'
  <2> SUFFICES ASSUME NEW g \in Handlers, Counting(g)'
               PROVE  (/\ job[g].key[2] <= job[g].at
                       /\ job[g].at < job[g].key[2] + Window
                       /\ job[g].since <= job[g].at
                       /\ job[g].at <= job[g].since + MaxSkew
                       /\ job[g].since <= now /\ now <= job[g].since + MaxLag)'
    BY DEF JobFit
  <2>1. CASE g = h
    <3>1. job'[g] = new /\ now' = now /\ now \in Nat
      BY <1>1, <1>4, <2>1 DEF TypeOK, Times, Arrive
    <3> QED
      BY <3>1, <1>2, <1>3
  <2>2. CASE g # h
    <3>1. job'[g] = job[g] /\ now' = now
      BY <1>1, <1>4, <2>2 DEF TypeOK, Arrive
    <3> QED
      BY <3>1, <1>1 DEF JobFit, Counting
  <2> QED
    BY <2>1, <2>2
<1>10. CounterFit'
  BY <1>1 DEF Arrive, CounterFit, Live
<1> QED
  BY <1>8, <1>9, <1>10 DEF Inv

\* Counting one more never spoils what a counter knows.
LEMMA IncrementKeepsFit ==
    ASSUME Inv, NEW k \in Keys, counter' = Incremented(k),
           now' = now, lost' = lost, admitted' = admitted
    PROVE  CounterFit'
<1> SUFFICES ASSUME NEW other \in Keys, ~lost[other], admitted[other] > 0
             PROVE  Live(other)' \/ now >= Horizon(other)
  BY DEF Inv, CounterFit, Horizon
<1>1. /\ now \in Nat /\ admitted[other] \in Nat /\ other[2] \in Nat
      /\ now >= other[2] - MaxSkew
      /\ Live(other) \/ now >= Horizon(other)
  BY KeyParts DEF Inv, TypeOK, Times, CounterFit
<1>2. CASE Live(other) /\ other = k
  <2>1. /\ counter'[k] # None /\ counter'[k].count = CountOf(k) + 1
        /\ counter'[k].expires = now + KeyTTL /\ CountOf(k) \in Nat
    BY IncrementedFields DEF Inv
  <2>2. CountOf(k) >= admitted[k]
    BY <1>2 DEF Live, CountOf
  <2>3. counter'[k].count >= admitted[k] /\ counter'[k].expires >= Horizon(k)
    BY <1>1, <1>2, <2>1, <2>2 DEF KeyTTL, Horizon
  <2> QED
    BY <1>2, <2>1, <2>3 DEF Live, Horizon
<1>3. CASE Live(other) /\ other # k
  <2>1. counter'[other] = counter[other]
    BY <1>3, IncrementedFields DEF Inv
  <2> QED
    BY <1>3, <2>1 DEF Live, Horizon
<1> QED
  BY <1>1, <1>2, <1>3

\* Requests that are answered, or wait on at the same time, stay fit.
LEMMA JobsKeepFit ==
    ASSUME JobFit, now' = now,
           \A g \in Handlers : Counting(g)' => Counting(g) /\ job'[g] = job[g]
    PROVE  JobFit'
  BY DEF JobFit

LEMMA RunUnreadInv == ASSUME Inv, NEW k \in Keys, RunUnread(k) PROVE Inv'
<1>1. TypeOK /\ JobFit
  BY DEF Inv
<1>2. /\ counter' = Incremented(k) /\ unread' = unread \ {k} /\ now' = now
      /\ UNCHANGED <<skew, job, asked, admitted, admittedBy, lost>>
  BY DEF RunUnread, histories
<1>3. TypeOK'
  <2>1. counter' \in [Keys -> Counter \cup {None}] /\ unread' \subseteq Keys
    BY <1>1, <1>2, IncrementedFields DEF TypeOK
  <2> QED
    BY <1>1, <1>2, <2>1 DEF TypeOK
<1>4. JobFit'
  BY <1>1, <1>2, JobsKeepFit DEF Counting
<1>5. CounterFit'
  BY <1>2, IncrementKeepsFit
<1> QED
  BY <1>3, <1>4, <1>5 DEF Inv

LEMMA EvictInv == ASSUME Inv, NEW k \in Keys, Evict(k) PROVE Inv'
<1>1. TypeOK /\ JobFit /\ CounterFit
  BY DEF Inv
<1>2. /\ counter' = [counter EXCEPT ![k] = None] /\ lost' = [lost EXCEPT ![k] = TRUE]
      /\ now' = now /\ UNCHANGED <<skew, unread, job, asked, admitted, admittedBy>>
  BY DEF Evict
<1>3. TypeOK'
  BY <1>1, <1>2 DEF TypeOK
<1>4. JobFit'
  BY <1>1, <1>2, JobsKeepFit DEF Counting
<1>5. \A other \in Keys : ~lost'[other] =>
          ~lost[other] /\ counter'[other] = counter[other]
  BY <1>1, <1>2 DEF TypeOK
<1>6. CounterFit'
  BY <1>1, <1>2, <1>5 DEF CounterFit, Live
<1> QED
  BY <1>3, <1>4, <1>6 DEF Inv

LEMMA AdmitInv == ASSUME Inv, NEW h \in Handlers, Admit(h) PROVE Inv'
<1>1. TypeOK /\ JobFit /\ CounterFit /\ Counting(h)
  BY DEF Inv, Admit
<1>k. PICK k \in Keys : k = job[h].key
  BY <1>1, CountingType
<1>2. /\ CountOf(k) + 1 <= Limit(k[1])
      /\ counter' = Incremented(k) /\ job' = [job EXCEPT ![h] = None]
      /\ admitted' = [admitted EXCEPT ![k] = @ + 1]
      /\ admittedBy' = [admittedBy EXCEPT ![k[1]] =
                        [t \in Times |-> IF now <= t THEN @[t] + 1 ELSE @[t]]]
      /\ now' = now /\ UNCHANGED <<skew, unread, asked, lost>>
  <2>1. CountOf(k) \in Nat /\ Limit(k[1]) \in Nat
    BY <1>1, IncrementedFields, LimitType
  <2> QED
    BY <1>k, <2>1 DEF Admit, Exceeds
<1>3. /\ k \in Keys /\ k[1] \in Subjects /\ k[2] \in Nat /\ now \in Times /\ now \in Nat
      /\ now < Horizon(k) /\ now >= k[2] - MaxSkew
      /\ CountOf(k) \in Nat /\ Limit(k[1]) \in Nat
  <2>1. now < Horizon(k) /\ now >= k[2] - MaxSkew
    BY <1>1, <1>k, CountingBeforeHorizon
  <2>2. k[1] \in Subjects /\ k[2] \in Nat
    BY KeyParts
  <2>3. CountOf(k) \in Nat /\ Limit(k[1]) \in Nat
    BY <1>1, IncrementedFields, LimitType
  <2> QED
    BY <1>1, <2>1, <2>2, <2>3 DEF TypeOK, Times
<1>4. TypeOK'
  <2>1. counter' \in [Keys -> Counter \cup {None}]
    BY <1>1, <1>2, <1>3, IncrementedFields
  <2>2. job' \in [Handlers -> Job \cup {None}] /\ admitted' \in [Keys -> Nat]
    BY <1>1, <1>2, <1>3 DEF TypeOK
  <2>3. admittedBy' \in [Subjects -> [Times -> Nat]]
    BY <1>1, <1>2, <1>3 DEF TypeOK
  <2> QED
    BY <1>1, <1>2, <2>1, <2>2, <2>3 DEF TypeOK
<1>5. JobFit'
  <2>1. \A g \in Handlers : Counting(g)' => Counting(g) /\ job'[g] = job[g]
    BY <1>1, <1>2 DEF TypeOK, Counting
  <2> QED
    BY <1>1, <1>2, <2>1, JobsKeepFit
<1>6. CounterFit'
  <2> SUFFICES ASSUME NEW other \in Keys, ~lost[other]
               PROVE  (/\ admitted[other] <= Limit(other[1])
                       /\ admitted[other] > 0 =>
                             /\ now >= other[2] - MaxSkew
                             /\ Live(other) \/ now >= Horizon(other))'
    BY <1>2 DEF CounterFit
  <2>1. CASE other = k
    <3>1. admitted[k] \in Nat /\ admitted'[k] = admitted[k] + 1
      BY <1>1, <1>2, <1>3 DEF TypeOK
    <3>2. CountOf(k) >= admitted[k]
      BY <1>1, <1>3, <2>1, <3>1 DEF CounterFit, Live, CountOf, Horizon
    <3>3. /\ counter'[k] # None /\ counter'[k].count = CountOf(k) + 1
          /\ counter'[k].expires = now + KeyTTL
      BY <1>1, <1>2, <1>3, IncrementedFields
    <3>4. counter'[k].expires >= Horizon(k)
      BY <1>3, <3>3 DEF KeyTTL, Horizon
    <3>5. admitted'[k] <= Limit(k[1])
      BY <1>2, <1>3, <3>1, <3>2
    <3>6. Live(k)'
      BY <1>3, <3>1, <3>2, <3>3, <3>4 DEF Live, Horizon
    <3> QED
      BY <1>2, <1>3, <2>1, <3>5, <3>6 DEF Limit, Live, Horizon
  <2>2. CASE other # k
    <3>1. counter'[other] = counter[other] /\ admitted'[other] = admitted[other]
      BY <1>1, <1>2, <1>3, <2>2, IncrementedFields DEF TypeOK
    <3> QED
      BY <1>1, <1>2, <3>1 DEF CounterFit, Live, Horizon, Limit
  <2> QED
    BY <2>1, <2>2
<1> QED
  BY <1>4, <1>5, <1>6 DEF Inv

LEMMA RefuseInv == ASSUME Inv, NEW h \in Handlers, Refuse(h) PROVE Inv'
<1>1. TypeOK /\ JobFit /\ CounterFit /\ Counting(h)
  BY DEF Inv, Refuse
<1>k. PICK k \in Keys : k = job[h].key
  BY <1>1, CountingType
<1>a. PICK at \in Clocks : at = job[h].at
  BY <1>1, CountingType
<1>r. PICK retry \in Int : retry = RetryAfter(job[h])
  <2>1. k[2] \in Nat /\ at \in Nat
    BY KeyParts DEF Clocks
  <2>2. SecondsLeft(job[h]) \in Int
    BY <1>k, <1>a, <2>1 DEF SecondsLeft
  <2> QED
    BY <2>2 DEF RetryAfter
<1>2. retry \in 1..Window
  <2>1. k[2] \in Nat /\ at \in Nat /\ k[2] <= at /\ at < k[2] + Window
    BY <1>1, <1>k, <1>a, KeyParts DEF JobFit, Clocks
  <2>2. k[2] + Window - at \in 1..Window
    BY <2>1
  <2>3. SecondsLeft(job[h]) \in 0..Window
    BY <1>k, <1>a, <2>2, SecondsBound DEF SecondsLeft
  <2> QED
    BY <1>r, <2>3 DEF RetryAfter
<1> DEFINE new == [step |-> "refused", key |-> k, at |-> at, retryAfter |-> retry]
<1>3. /\ counter' = Incremented(k) /\ job' = [job EXCEPT ![h] = new] /\ now' = now
      /\ UNCHANGED <<skew, unread, asked, admitted, admittedBy, lost>>
  BY <1>k, <1>a, <1>r DEF Refuse, histories
<1>4. new \in Job /\ new.step = "refused"
  BY <1>2 DEF Job
<1> HIDE DEF new
<1>5. TypeOK'
  <2>1. counter' \in [Keys -> Counter \cup {None}]
    BY <1>1, <1>3, IncrementedFields
  <2>2. job' \in [Handlers -> Job \cup {None}]
    BY <1>1, <1>3, <1>4 DEF TypeOK
  <2> QED
    BY <1>1, <1>3, <2>1, <2>2 DEF TypeOK
<1>6. JobFit'
  <2>1. \A g \in Handlers : Counting(g)' => Counting(g) /\ job'[g] = job[g]
    BY <1>1, <1>3, <1>4 DEF TypeOK, Counting
  <2> QED
    BY <1>1, <1>3, <2>1, JobsKeepFit
<1>7. CounterFit'
  BY <1>3, IncrementKeepsFit
<1> QED
  BY <1>5, <1>6, <1>7 DEF Inv

LEMMA AnswerInv == ASSUME Inv, NEW h \in Handlers, Respond(h) \/ FailOpen(h) PROVE Inv'
<1>1. TypeOK /\ JobFit /\ CounterFit
  BY DEF Inv
<1>2. /\ job' = [job EXCEPT ![h] = None]
      /\ UNCHANGED <<now, skew, counter, asked, admitted, admittedBy, lost>>
  BY DEF Respond, FailOpen, histories
<1>3. unread' \subseteq Keys
  <2>1. CASE Respond(h)
    BY <1>1, <2>1 DEF Respond, TypeOK
  <2>2. CASE FailOpen(h)
    BY <1>1, <2>2, CountingType DEF FailOpen, TypeOK
  <2> QED
    BY <2>1, <2>2
<1>4. TypeOK'
  BY <1>1, <1>2, <1>3 DEF TypeOK
<1>5. JobFit'
  <2>1. \A g \in Handlers : Counting(g)' => Counting(g) /\ job'[g] = job[g]
    BY <1>1, <1>2 DEF TypeOK, Counting
  <2> QED
    BY <1>1, <1>2, <2>1, JobsKeepFit
<1>6. CounterFit'
  BY <1>1, <1>2 DEF CounterFit, Live, Horizon
<1> QED
  BY <1>4, <1>5, <1>6 DEF Inv

LEMMA TickInv == ASSUME Inv, Tick PROVE Inv'
<1>1. TypeOK /\ JobFit /\ CounterFit /\ now \in Nat /\ now' = now + 1
  BY DEF Inv, TypeOK, Times, Tick
<1>2. /\ counter' = [k \in Keys |->
            IF counter[k] # None /\ counter[k].expires <= now' THEN None
            ELSE counter[k]]
      /\ now < MaxTime
      /\ UNCHANGED <<skew, unread, job, asked, admitted, admittedBy, lost>>
  BY DEF Tick, histories
<1>3. TypeOK'
  <2>1. counter' \in [Keys -> Counter \cup {None}]
    BY <1>1, <1>2 DEF TypeOK
  <2>2. now' \in Times
    BY <1>1, <1>2 DEF Times
  <2> QED
    BY <1>1, <1>2, <2>1, <2>2 DEF TypeOK
<1>4. JobFit'
  <2> SUFFICES ASSUME NEW h \in Handlers, Counting(h)
               PROVE  /\ job[h].key[2] <= job[h].at
                      /\ job[h].at < job[h].key[2] + Window
                      /\ job[h].since <= job[h].at
                      /\ job[h].at <= job[h].since + MaxSkew
                      /\ job[h].since <= now + 1 /\ now + 1 <= job[h].since + MaxLag
    BY <1>1, <1>2 DEF JobFit, Counting
  <2>1. now < job[h].since + MaxLag /\ job[h].since \in Nat
    BY <1>1, CountingType DEF Tick
  <2> QED
    BY <1>1, <2>1 DEF JobFit
<1>5. CounterFit'
  <2> SUFFICES ASSUME NEW k \in Keys, ~lost[k], admitted[k] > 0
               PROVE  /\ now + 1 >= k[2] - MaxSkew
                      /\ Live(k)' \/ now + 1 >= Horizon(k)
    BY <1>1, <1>2 DEF CounterFit, Horizon, Limit
  <2>1. /\ k[2] \in Nat /\ now >= k[2] - MaxSkew
        /\ Live(k) \/ now >= Horizon(k)
    BY <1>1, KeyParts DEF CounterFit
  <2>2. CASE now >= Horizon(k)
    BY <1>1, <2>1, <2>2 DEF Horizon
  <2>3. CASE Live(k) /\ counter[k].expires > now + 1
    <3>0. counter[k].expires \in Nat /\ ~(counter[k].expires <= now')
      BY <1>1, <2>3 DEF Live, TypeOK, Counter
    <3>1. counter'[k] = counter[k]
      BY <1>2, <3>0
    <3> QED
      BY <1>1, <1>2, <2>1, <2>3, <3>1 DEF Live, Horizon
  <2>4. CASE Live(k) /\ ~(counter[k].expires > now + 1)
    <3>1. counter[k].expires \in Nat
      BY <1>1, <2>4 DEF Live, TypeOK, Counter
    <3> QED
      BY <1>1, <2>1, <2>4, <3>1 DEF Live, Horizon
  <2> QED
    BY <2>1, <2>2, <2>3, <2>4, <1>1
<1> QED
  BY <1>3, <1>4, <1>5 DEF Inv

LEMMA InvStep == Inv /\ [Next]_vars => Inv'
<1> SUFFICES ASSUME Inv, [Next]_vars PROVE Inv'
  OBVIOUS
<1>1. CASE UNCHANGED vars
  BY <1>1 DEF vars, Inv, TypeOK, JobFit, CounterFit, Counting, Live, Clock
<1>2. ASSUME NEW h \in Handlers, NEW t \in Tasks, NEW path \in {"auth", "api"},
             NEW user \in Users \cup {None}, NEW address \in Addresses,
             Arrive(h, t, Subject(path, user, address))
      PROVE  Inv'
  BY <1>2, SubjectType, ArriveInv
<1>3. ASSUME NEW h \in Handlers, Admit(h) \/ Refuse(h) \/ Respond(h) \/ FailOpen(h)
      PROVE  Inv'
  BY <1>3, AdmitInv, RefuseInv, AnswerInv
<1>4. ASSUME NEW k \in Keys, RunUnread(k) \/ Evict(k) PROVE Inv'
  BY <1>4, RunUnreadInv, EvictInv
<1>5. CASE Tick
  BY <1>5, TickInv
<1> QED
  BY <1>1, <1>2, <1>3, <1>4, <1>5 DEF Next

\* Every state of the rate limiter satisfies the inductive invariant.
THEOREM Invariance == Spec => []Inv
<1> QED
  BY InitInv, InvStep, PTL DEF Spec

\* Retry-After is always positive and never more than a window, and every
\* count, key and clock reading is of its kind.
THEOREM TypeCorrect == Spec => []TypeOK
<1>1. Inv => TypeOK
  BY DEF Inv
<1> QED
  BY <1>1, Invariance, PTL

\* No window lets more than the limit through on its count, whatever the tasks'
\* clocks and however their increments interleave, unless Redis drops the
\* counter.
THEOREM WindowLimitHolds == Spec => []WindowLimit
<1>1. Inv => WindowLimit
  BY DEF Inv, CounterFit, WindowLimit
<1> QED
  BY <1>1, Invariance, PTL

\* The second window of _KEY_TTL_SECONDS is enough: a counter that has let a
\* request through is there for as long as a request can be counted by it.
THEOREM CounterOutlivesWindowHolds == Spec => []CounterOutlivesWindow
<1>1. Inv => CounterOutlivesWindow
  <2> SUFFICES ASSUME Inv, NEW k \in Keys, admitted[k] > 0, ~lost[k], Open(k)
               PROVE  counter[k] # None
    BY DEF CounterOutlivesWindow
  <2>1. now < Horizon(k)
    <3>1. ASSUME NEW t \in Tasks, WindowStart(Clock(t)) = k[2]
          PROVE  now < Horizon(k)
      <4>1. skew[t] \in 0..MaxSkew /\ now \in Nat
        BY DEF Inv, TypeOK, Times
      <4>2. Clock(t) \in Nat /\ now <= Clock(t)
        BY <4>1 DEF Clock
      <4>3. Clock(t) < k[2] + Window /\ k[2] \in Nat
        BY <3>1, <4>2, WindowStartBounds, KeyParts
      <4> QED
        BY <4>1, <4>2, <4>3 DEF Horizon
    <3>2. ASSUME NEW h \in Handlers, Counting(h), job[h].key = k
          PROVE  now < Horizon(k)
      BY <3>2, CountingBeforeHorizon DEF Inv
    <3> QED
      BY <3>1, <3>2 DEF Open
  <2>2. now \in Nat /\ Horizon(k) \in Int
    BY KeyParts DEF Inv, TypeOK, Times, Horizon
  <2> QED
    BY <2>1, <2>2 DEF Inv, CounterFit, Live
<1> QED
  BY <1>1, Invariance, PTL

----------------------------------------------------------------------------
(* Refusals                                                                *)

\* Requests under k between reading the clock and the count, in job table j.
Waiting(j, k) == {h \in Handlers : j[h] # None /\ j[h].step = "count" /\ j[h].key = k}
Pending(u, k) == IF k \in u THEN 1 ELSE 0

\* What a counter has counted, will count or may still count has been asked for.
AskedFit ==
    \A k \in Keys :
        CountOf(k) + Pending(unread, k) + Cardinality(Waiting(job, k)) <= asked[k]

RefusalFit ==
    \A h \in Handlers : Refused(h) => asked[job[h].key] > Limit(job[h].key[1])

AskedInv == AskedFit /\ RefusalFit

LEMMA WaitingNumber ==
    ASSUME NEW j, NEW k
    PROVE  IsFiniteSet(Waiting(j, k)) /\ Cardinality(Waiting(j, k)) \in Nat
<1>1. Waiting(j, k) \in SUBSET Handlers
  BY DEF Waiting
<1>2. IsFiniteSet(Waiting(j, k))
  BY <1>1, HandlersAssumption, FS_Subset
<1> QED
  BY <1>2, FS_CardinalityType

LEMMA AskedNumbers ==
    ASSUME TypeOK, NEW k \in Keys
    PROVE  /\ CountOf(k) \in Nat /\ asked[k] \in Nat
           /\ \A u : Pending(u, k) \in Nat
           /\ \A j : Cardinality(Waiting(j, k)) \in Nat
  BY IncrementedFields, WaitingNumber DEF TypeOK, Pending

\* A request stops waiting.
LEMMA WaitingLess ==
    ASSUME TypeOK, NEW h \in Handlers, Counting(h), NEW x, job' = [job EXCEPT ![h] = x],
           x = None \/ x.step = "refused"
    PROVE  /\ Cardinality(Waiting(job', job[h].key)) = Cardinality(Waiting(job, job[h].key)) - 1
           /\ \A k \in Keys : k # job[h].key => Waiting(job', k) = Waiting(job, k)
<1>1. job'[h] = x /\ \A g \in Handlers : g # h => job'[g] = job[g]
  BY DEF TypeOK
<1>2. h \in Waiting(job, job[h].key)
  BY DEF Waiting, Counting
<1>3. \A k : Waiting(job', k) = Waiting(job, k) \ {h}
  BY <1>1 DEF Waiting
<1>4. \A k \in Keys : k # job[h].key => h \notin Waiting(job, k)
  BY DEF Waiting
<1>5. Cardinality(Waiting(job, job[h].key) \ {h}) = Cardinality(Waiting(job, job[h].key)) - 1
  <2> DEFINE W == Waiting(job, job[h].key)
  <2>1. h \in W /\ IsFiniteSet(W)
    BY <1>2, WaitingNumber
  <2> HIDE DEF W
  <2>2. Cardinality(W \ {h}) = Cardinality(W) - 1
    BY <2>1, FS_RemoveElement
  <2> QED
    BY <2>2 DEF W
<1> QED
  BY <1>3, <1>4, <1>5

LEMMA AskedStep == TypeOK /\ AskedInv /\ [Next]_vars => AskedInv'
<1> SUFFICES ASSUME TypeOK, AskedInv, [Next]_vars PROVE AskedInv'
  OBVIOUS
<1>0. \A k \in Keys :
        /\ CountOf(k) \in Nat /\ asked[k] \in Nat
        /\ Pending(unread, k) \in Nat /\ Pending(unread', k) \in Nat
        /\ Cardinality(Waiting(job, k)) \in Nat /\ Cardinality(Waiting(job', k)) \in Nat
        /\ CountOf(k) + Pending(unread, k) + Cardinality(Waiting(job, k)) <= asked[k]
  BY AskedNumbers DEF AskedInv, AskedFit
<1>1. ASSUME NEW h \in Handlers, NEW t \in Tasks, NEW s \in Subjects, Arrive(h, t, s)
      PROVE  AskedInv'
  <2> DEFINE k == <<s, WindowStart(Clock(t))>>
             new == [step |-> "count", key |-> CounterKey(s, WindowStart(Clock(t))),
                     at |-> Clock(t), since |-> now]
  <2>1. /\ job[h] = None /\ job' = [job EXCEPT ![h] = new]
        /\ asked' = [asked EXCEPT ![k] = @ + 1]
        /\ counter' = counter /\ unread' = unread
    BY <1>1 DEF Arrive
  <2>2. k \in Keys /\ new.step = "count" /\ new.key = k /\ new # None
    <3>1. k \in Keys
      BY ArrivalFits
    <3>2. new \in Job
      BY ArrivalFits DEF TypeOK, Job
    <3> QED
      BY <3>1, <3>2 DEF CounterKey
  <2> HIDE DEF k, new
  <2>3. job'[h] = new /\ \A g \in Handlers : g # h => job'[g] = job[g]
    BY <2>1 DEF TypeOK
  <2>4. asked'[k] = asked[k] + 1 /\ \A o \in Keys : o # k => asked'[o] = asked[o]
    BY <2>1, <2>2 DEF TypeOK
  <2>5. h \notin Waiting(job, k) /\ Waiting(job', k) = Waiting(job, k) \cup {h}
        /\ \A o \in Keys : o # k => Waiting(job', o) = Waiting(job, o)
    BY <2>1, <2>2, <2>3 DEF Waiting
  <2>6. Cardinality(Waiting(job', k)) = Cardinality(Waiting(job, k)) + 1
    BY <2>5, WaitingNumber, FS_AddElement
  <2>7. ASSUME NEW o \in Keys
        PROVE  CountOf(o) + Pending(unread', o) + Cardinality(Waiting(job', o)) <= asked'[o]
    <3>1. CASE o = k
      BY <1>0, <2>1, <2>2, <2>4, <2>6, <3>1
    <3>2. CASE o # k
      BY <1>0, <2>1, <2>4, <2>5, <3>2
    <3> QED
      BY <3>1, <3>2
  <2>8. AskedFit'
    BY <2>1, <2>7 DEF AskedFit, CountOf
  <2>9. RefusalFit'
    <3> SUFFICES ASSUME NEW g \in Handlers, Refused(g)'
                 PROVE  asked'[job'[g].key] > Limit(job'[g].key[1])
      BY DEF RefusalFit, Limit
    <3>1. g # h
      BY <2>2, <2>3 DEF Refused
    <3>2. job'[g] = job[g] /\ Refused(g)
      BY <2>3, <3>1 DEF Refused
    <3>3. job[g].key \in Keys /\ asked[job[g].key] > Limit(job[g].key[1])
      BY <3>2 DEF TypeOK, Job, Refused, AskedInv, RefusalFit
    <3>4. Limit(job[g].key[1]) \in Nat
      BY LimitType
    <3> QED
      BY <1>0, <2>4, <3>2, <3>3, <3>4
  <2> QED
    BY <2>8, <2>9 DEF AskedInv
<1>2. ASSUME NEW h \in Handlers, Admit(h) \/ Refuse(h) PROVE AskedInv'
  <2>k. PICK k \in Keys : k = job[h].key /\ Counting(h)
    BY <1>2, CountingType DEF Admit, Refuse
  <2>1. /\ counter' = Incremented(k) /\ unread' = unread /\ asked' = asked
        /\ Exceeds(CountOf(k) + 1, Limit(k[1])) \/ Admit(h)
    BY <1>2, <2>k DEF Admit, Refuse, histories
  <2>2. PICK x : /\ job' = [job EXCEPT ![h] = x]
                 /\ \/ x = None
                    \/ x.step = "refused" /\ x.key = k /\ Refuse(h)
    <3>1. CASE Admit(h)
      BY <3>1 DEF Admit
    <3>2. CASE Refuse(h)
      <4> DEFINE x == [step |-> "refused", key |-> k, at |-> job[h].at,
                       retryAfter |-> RetryAfter(job[h])]
      <4>1. job' = [job EXCEPT ![h] = x]
        BY <2>k, <3>2 DEF Refuse
      <4>2. x.step = "refused" /\ x.key = k
        OBVIOUS
      <4> HIDE DEF x
      <4> QED
        BY <3>2, <4>1, <4>2
    <3> QED
      BY <1>2, <3>1, <3>2
  <2>3. /\ Cardinality(Waiting(job', k)) = Cardinality(Waiting(job, k)) - 1
        /\ \A o \in Keys : o # k => Waiting(job', o) = Waiting(job, o)
    BY <2>k, <2>2, WaitingLess
  <2>4. /\ counter'[k] # None /\ counter'[k].count = CountOf(k) + 1
        /\ \A o \in Keys : o # k => counter'[o] = counter[o]
    BY <2>1, IncrementedFields
  <2>5. AskedFit'
    <3> SUFFICES ASSUME NEW o \in Keys
                 PROVE  CountOf(o)' + Pending(unread', o) + Cardinality(Waiting(job', o)) <= asked'[o]
      BY DEF AskedFit
    <3>1. CASE o = k
      <4>1. CountOf(o)' = CountOf(k) + 1
        BY <2>4, <3>1 DEF CountOf
      <4> QED
        BY <1>0, <2>1, <2>3, <3>1, <4>1
    <3>2. CASE o # k
      <4>1. CountOf(o)' = CountOf(o)
        BY <2>4, <3>2 DEF CountOf
      <4> QED
        BY <1>0, <2>1, <2>3, <3>2, <4>1
    <3> QED
      BY <3>1, <3>2
  <2>6. RefusalFit'
    <3> SUFFICES ASSUME NEW g \in Handlers, Refused(g)'
                 PROVE  asked'[job'[g].key] > Limit(job'[g].key[1])
      BY DEF RefusalFit, Limit
    <3>1. CASE g # h
      <4>1. job'[g] = job[g] /\ Refused(g)
        BY <2>2, <3>1 DEF TypeOK, Refused
      <4> QED
        BY <2>1, <4>1 DEF AskedInv, RefusalFit
    <3>2. CASE g = h
      <4>1. job'[g] = x /\ x # None
        BY <2>2, <3>2 DEF TypeOK, Refused
      <4>2. x.key = k /\ Refuse(h)
        BY <2>2, <4>1
      <4>3. Exceeds(CountOf(k) + 1, Limit(k[1]))
        BY <2>k, <4>2 DEF Refuse
      <4>4. Cardinality(Waiting(job, k)) \in Nat /\ Cardinality(Waiting(job', k)) \in Nat
            /\ CountOf(k) \in Nat /\ Limit(k[1]) \in Nat
        BY <1>0, LimitType
      <4> QED
        BY <1>0, <2>1, <2>3, <4>1, <4>2, <4>3, <4>4 DEF Exceeds
    <3> QED
      BY <3>1, <3>2
  <2> QED
    BY <2>5, <2>6 DEF AskedInv
<1>3. ASSUME NEW h \in Handlers, FailOpen(h) PROVE AskedInv'
  <2>k. PICK k \in Keys : k = job[h].key /\ Counting(h)
    BY <1>3, CountingType DEF FailOpen
  <2>1. /\ job' = [job EXCEPT ![h] = None] /\ counter' = counter /\ asked' = asked
        /\ unread' = unread \/ (k \notin unread /\ unread' = unread \cup {k})
    BY <1>3, <2>k DEF FailOpen, histories
  <2>2. /\ Cardinality(Waiting(job', k)) = Cardinality(Waiting(job, k)) - 1
        /\ \A o \in Keys : o # k => Waiting(job', o) = Waiting(job, o)
    BY <2>k, <2>1, WaitingLess
  <2>3. /\ Pending(unread', k) <= Pending(unread, k) + 1
        /\ \A o \in Keys : o # k => Pending(unread', o) = Pending(unread, o)
    BY <2>1 DEF Pending
  <2>4. \A o \in Keys :
          CountOf(o) + Pending(unread', o) + Cardinality(Waiting(job', o)) <= asked'[o]
    <3> SUFFICES ASSUME NEW o \in Keys
                 PROVE  CountOf(o) + Pending(unread', o) + Cardinality(Waiting(job', o)) <= asked'[o]
      OBVIOUS
    <3>1. CASE o = k
      BY <1>0, <2>1, <2>2, <2>3, <3>1
    <3>2. CASE o # k
      BY <1>0, <2>1, <2>2, <2>3, <3>2
    <3> QED
      BY <3>1, <3>2
  <2>5. AskedFit'
    BY <2>1, <2>4 DEF AskedFit, CountOf
  <2>6. \A g \in Handlers : Refused(g)' => Refused(g) /\ job'[g] = job[g]
    BY <2>1 DEF TypeOK, Refused
  <2>7. RefusalFit'
    BY <2>1, <2>6 DEF AskedInv, RefusalFit, Limit
  <2> QED
    BY <2>5, <2>7 DEF AskedInv
<1>4. ASSUME NEW h \in Handlers, Respond(h) PROVE AskedInv'
  <2>1. /\ job' = [job EXCEPT ![h] = None] /\ counter' = counter /\ asked' = asked
        /\ unread' = unread /\ Refused(h)
    BY <1>4 DEF Respond, histories
  <2>2. job'[h] = None /\ \A g \in Handlers : g # h => job'[g] = job[g]
    BY <2>1 DEF TypeOK
  <2>3. \A o : Waiting(job', o) = Waiting(job, o)
    BY <2>1, <2>2 DEF Waiting, Refused
  <2>4. AskedFit'
    BY <1>0, <2>1, <2>3 DEF AskedFit, CountOf
  <2>5. RefusalFit'
    BY <2>1, <2>2 DEF AskedInv, RefusalFit, Limit, Refused
  <2> QED
    BY <2>4, <2>5 DEF AskedInv
<1>5. ASSUME NEW k \in Keys, RunUnread(k) PROVE AskedInv'
  <2>1. /\ k \in unread /\ counter' = Incremented(k) /\ unread' = unread \ {k}
        /\ job' = job /\ asked' = asked
    BY <1>5 DEF RunUnread, histories
  <2>2. /\ counter'[k] # None /\ counter'[k].count = CountOf(k) + 1
        /\ \A o \in Keys : o # k => counter'[o] = counter[o]
    BY <2>1, IncrementedFields
  <2>3. /\ Pending(unread, k) = 1 /\ Pending(unread', k) = 0
        /\ \A o \in Keys : o # k => Pending(unread', o) = Pending(unread, o)
    BY <2>1 DEF Pending
  <2>4. AskedFit'
    <3> SUFFICES ASSUME NEW o \in Keys
                 PROVE  CountOf(o)' + Pending(unread', o) + Cardinality(Waiting(job', o)) <= asked'[o]
      BY DEF AskedFit
    <3>1. CASE o = k
      <4>1. CountOf(o)' = CountOf(k) + 1
        BY <2>2, <3>1 DEF CountOf
      <4> QED
        BY <1>0, <2>1, <2>3, <3>1, <4>1
    <3>2. CASE o # k
      <4>1. CountOf(o)' = CountOf(o)
        BY <2>2, <3>2 DEF CountOf
      <4> QED
        BY <1>0, <2>1, <2>3, <3>2, <4>1
    <3> QED
      BY <3>1, <3>2
  <2> QED
    BY <2>1, <2>4 DEF AskedInv, RefusalFit, Limit, Refused
<1>6. ASSUME \A k \in Keys : counter'[k] = counter[k] \/ counter'[k] = None,
             UNCHANGED <<unread, job, asked>>
      PROVE  AskedInv'
  <2>1. \A k \in Keys : CountOf(k)' \in Nat /\ CountOf(k)' <= CountOf(k)
    BY <1>0, <1>6 DEF CountOf
  <2>2. AskedFit'
    <3> SUFFICES ASSUME NEW o \in Keys
                 PROVE  CountOf(o)' + Pending(unread', o) + Cardinality(Waiting(job', o)) <= asked'[o]
      BY DEF AskedFit
    <3> QED
      BY <1>0, <1>6, <2>1
  <2> QED
    BY <1>6, <2>2 DEF AskedInv, RefusalFit, Limit, Refused
<1>7. ASSUME NEW k \in Keys, Evict(k) PROVE AskedInv'
  <2>1. \A o \in Keys : counter'[o] = counter[o] \/ counter'[o] = None
    BY <1>7 DEF Evict, TypeOK
  <2> QED
    BY <1>6, <1>7, <2>1 DEF Evict
<1>8. ASSUME Tick PROVE AskedInv'
  <2>1. \A o \in Keys : counter'[o] = counter[o] \/ counter'[o] = None
    BY <1>8 DEF Tick
  <2> QED
    BY <1>6, <1>8, <2>1 DEF Tick, histories
<1>9. ASSUME UNCHANGED vars PROVE AskedInv'
  BY <1>6, <1>9 DEF vars
<1> HIDE DEF AskedInv
<1> QED
  BY <1>1, <1>2, <1>3, <1>4, <1>5, <1>7, <1>8, <1>9, SubjectType DEF Next

LEMMA InitAsked == Init => AskedInv
<1> SUFFICES ASSUME Init PROVE AskedInv
  OBVIOUS
<1>1. \A k \in Keys : Waiting(job, k) = {} /\ CountOf(k) = 0 /\ Pending(unread, k) = 0
                      /\ asked[k] = 0
  BY DEF Init, Waiting, CountOf, Pending
<1>2. \A h \in Handlers : ~Refused(h)
  BY DEF Init, Refused
<1>3. AskedFit
  BY <1>1, FS_EmptySet DEF AskedFit
<1> QED
  BY <1>2, <1>3 DEF AskedInv, RefusalFit

\* A refusal has the caller's own requests behind it: in the window it was
\* counted in, more of them than the limit, whatever increments were given up
\* on and ran after all.
THEOREM RefusalDeservedHolds == Spec => []RefusalDeserved
<1>1. Inv /\ AskedInv /\ [Next]_vars => AskedInv'
  BY AskedStep DEF Inv
<1>2. Inv /\ AskedInv => RefusalDeserved
  <2> SUFFICES ASSUME TypeOK, RefusalFit, NEW h \in Handlers, Refused(h)
               PROVE  \E s \in Subjects :
                         job[h].key[1] = s /\ asked[<<s, job[h].key[2]>>] > Limit(s)
    BY DEF Inv, AskedInv, RefusalDeserved
  <2>1. PICK k \in Keys : k = job[h].key
    BY DEF TypeOK, Job, Refused
  <2>2. k[1] \in Subjects /\ k = <<k[1], k[2]>>
    BY DEF Keys
  <2>3. asked[k] > Limit(k[1])
    BY <2>1 DEF RefusalFit
  <2> QED
    BY <2>1, <2>2, <2>3
<1> QED
  BY <1>1, <1>2, InitAsked, Invariance, PTL DEF Spec

----------------------------------------------------------------------------
(* Bursts                                                                  *)

\* Requests of s let through on their count at or before t.
Upto(s, t) == IF t < 0 THEN 0 ELSE admittedBy[s][t]

\* Those that were counted in the window that starts at w.
In(s, w) == IF <<s, w>> \in Keys THEN admitted[<<s, w>>] ELSE 0

\* The first window in which a request let through after t can be counted, and
\* what the windows from there on let through.
FirstWindow(t) == WindowStart(t + 1 - MaxLag)
InThree(s, b) == In(s, b) + In(s, b + Window) + In(s, b + 2 * Window)

Recent == {t \in Int : now - Window <= t /\ t <= now}

\* Nothing is let through in the future, and what was let through after a time
\* not longer than a window ago was counted in one of three windows.
BurstFit ==
    /\ \A s \in Subjects, t \in Times :
          now <= t => admittedBy[s][t] = admittedBy[s][now]
    /\ \A s \in Subjects : \A t \in Recent :
          Upto(s, now) <= Upto(s, t) + InThree(s, FirstWindow(t))

\* The same of a time before the start of the run.
LEMMA WindowsBefore ==
    ASSUME NEW c \in Int
    PROVE  /\ WindowStart(c) \in Int
           /\ WindowStart(c) <= c /\ c < WindowStart(c) + Window
           /\ \E q \in Int : WindowStart(c) = q * Window
<1> DEFINE q == c \div Window
<1>1. q \in Int /\ c = q * Window + (c % Window) /\ c % Window \in 0..(Window - 1)
  OBVIOUS
<1>2. q * Window \in Int
  BY <1>1
<1> QED
  BY <1>1, <1>2 DEF WindowStart

\* Fewer than three windows on from the start of a window there are three.
LEMMA ThreeStarts ==
    ASSUME NEW q \in Int, NEW r \in Int,
           r * Window - Window < q * Window, q * Window < r * Window + 3 * Window
    PROVE  q * Window \in {r * Window, r * Window + Window, r * Window + 2 * Window}
<1> DEFINE d == q - r
<1>1. d \in Int /\ q = r + d
  OBVIOUS
<1>2. d * Window \in Int /\ q * Window = r * Window + d * Window
  BY <1>1
<1>3. -Window < d * Window /\ d * Window < 3 * Window
  BY <1>2
<1>4. d >= 0
  <2>1. ASSUME d <= -1 PROVE FALSE
    <3>1. (-1 - d) * Window >= 0
      BY <1>1, <2>1
    <3> QED
      BY <1>1, <1>3, <3>1
  <2> QED
    BY <1>1, <2>1
<1>5. d <= 2
  <2>1. ASSUME d >= 3 PROVE FALSE
    <3>1. (d - 3) * Window >= 0
      BY <1>1, <2>1
    <3> QED
      BY <1>1, <1>3, <3>1
  <2> QED
    BY <1>1, <2>1
<1>6. d = 0 \/ d = 1 \/ d = 2
  BY <1>1, <1>4, <1>5
<1> QED
  BY <1>2, <1>6

LEMMA CountsType ==
    ASSUME TypeOK, NEW s \in Subjects
    PROVE  /\ \A t \in Int : t <= now => Upto(s, t) \in Nat
           /\ \A w : In(s, w) \in Nat
           /\ \A b : InThree(s, b) \in Nat
<1>1. now \in Times /\ admittedBy[s] \in [Times -> Nat] /\ admitted \in [Keys -> Nat]
  BY DEF TypeOK
<1>2. \A t \in Int : t <= now => Upto(s, t) \in Nat
  BY <1>1 DEF Upto, Times
<1>3. \A w : In(s, w) \in Nat
  BY <1>1 DEF In
<1> QED
  BY <1>2, <1>3 DEF InThree

\* A request is counted in one of the three windows that begin with the first
\* one in which it could be.
LEMMA CountedInThree ==
    ASSUME TypeOK, JobFit, NEW h \in Handlers, Counting(h),
           NEW t \in Recent, t # now
    PROVE  job[h].key[2] \in {FirstWindow(t), FirstWindow(t) + Window,
                              FirstWindow(t) + 2 * Window}
<1> DEFINE b == FirstWindow(t)
           j == job[h].key[2]
           at == job[h].at
<1>1. /\ now \in Nat /\ t \in Int /\ t < now /\ now - Window <= t
      /\ j \in Nat /\ at \in Nat /\ j <= at /\ at < j + Window
      /\ at <= now + MaxSkew /\ now - MaxLag <= at
  <2>1. job[h].key \in Keys /\ at \in Nat /\ job[h].since \in Nat /\ now \in Nat
    BY CountingType DEF TypeOK, Times
  <2>2. j \in Nat
    BY <2>1, KeyParts
  <2> QED
    BY <2>1, <2>2 DEF JobFit, Recent
<1>0. t + 1 - MaxLag \in Int
  BY <1>1
<1>2. PICK r \in Int : b = r * Window
  BY <1>0, WindowsBefore DEF FirstWindow
<1>3. b \in Int /\ b <= t + 1 - MaxLag /\ t + 1 - MaxLag < b + Window
  BY <1>0, WindowsBefore DEF FirstWindow
<1>4. PICK q \in Int : j = q * Window
  <2>1. PICK c \in Clocks : j = WindowStart(c)
    BY CountingType, KeyParts DEF Starts
  <2>2. c \in Int
    BY <2>1 DEF Clocks
  <2>3. \E q \in Int : WindowStart(c) = q * Window
    BY <2>2, WindowsBefore
  <2> QED
    BY <2>1, <2>3
<1> HIDE DEF b, j, at
<1>5. b - Window < j /\ j < b + 3 * Window
  BY <1>1, <1>3
<1>6. j \in {b, b + Window, b + 2 * Window}
  BY <1>2, <1>4, <1>5, ThreeStarts
<1> QED
  BY <1>6 DEF b, j

LEMMA AdmitBurst ==
    ASSUME Inv, BurstFit, NEW h \in Handlers, Admit(h) PROVE BurstFit'
<1>1. TypeOK /\ JobFit /\ Counting(h)
  BY DEF Inv, Admit
<1>k. PICK k \in Keys : k = job[h].key
  BY <1>1, CountingType
<1>2. /\ admitted' = [admitted EXCEPT ![k] = @ + 1]
      /\ admittedBy' = [admittedBy EXCEPT ![k[1]] =
                          [t \in Times |-> IF now <= t THEN @[t] + 1 ELSE @[t]]]
      /\ now' = now
  BY <1>k DEF Admit
<1>3. /\ now \in Times /\ now \in Nat /\ admitted \in [Keys -> Nat]
      /\ admittedBy \in [Subjects -> [Times -> Nat]]
      /\ k[1] \in Subjects /\ k[2] \in Nat /\ k = <<k[1], k[2]>>
  BY <1>1, KeyParts DEF TypeOK, Times, Keys
<1>4. \A s \in Subjects, t \in Times :
        admittedBy'[s][t] = admittedBy[s][t] + (IF s = k[1] /\ now <= t THEN 1 ELSE 0)
  BY <1>2, <1>3
<1>5. \A o \in Keys : admitted'[o] = admitted[o] + (IF o = k THEN 1 ELSE 0)
  BY <1>2, <1>3
<1>6. \A s \in Subjects, t \in Times : now <= t => admittedBy'[s][t] = admittedBy'[s][now]
  <2> SUFFICES ASSUME NEW s \in Subjects, NEW t \in Times, now <= t
               PROVE  admittedBy'[s][t] = admittedBy'[s][now]
    OBVIOUS
  <2>1. admittedBy[s][t] = admittedBy[s][now]
    BY DEF BurstFit
  <2> QED
    BY <1>3, <1>4, <2>1
<1>7. ASSUME NEW s \in Subjects, NEW t \in Recent
      PROVE  Upto(s, now)' <= Upto(s, t)' + InThree(s, FirstWindow(t))'
  <2> DEFINE b == FirstWindow(t)
  <2>1. /\ t \in Int /\ t <= now
        /\ Upto(s, now) \in Nat /\ Upto(s, t) \in Nat
        /\ \A w : In(s, w) \in Nat
        /\ Upto(s, now) <= Upto(s, t) + InThree(s, b)
    BY <1>1, <1>3, CountsType DEF Recent, BurstFit
  <2>2. \A w : In(s, w)' = In(s, w) + (IF s = k[1] /\ w = k[2] THEN 1 ELSE 0)
    <3> SUFFICES ASSUME NEW w
                 PROVE  In(s, w)' = In(s, w) + (IF s = k[1] /\ w = k[2] THEN 1 ELSE 0)
      OBVIOUS
    <3>1. CASE <<s, w>> \in Keys
      <4>1. <<s, w>> = k <=> s = k[1] /\ w = k[2]
        BY <1>3
      <4> QED
        BY <1>3, <1>5, <3>1, <4>1 DEF In
    <3>2. CASE <<s, w>> \notin Keys
      BY <1>3, <3>2 DEF In
    <3> QED
      BY <3>1, <3>2
  <2>3. Upto(s, now)' = Upto(s, now) + (IF s = k[1] THEN 1 ELSE 0)
    BY <1>2, <1>3, <1>4 DEF Upto
  <2>4. Upto(s, t)' >= Upto(s, t) /\ Upto(s, t)' \in Nat
        /\ (t = now => Upto(s, t)' = Upto(s, now)')
    <3>1. CASE t < 0
      BY <1>3, <2>1, <3>1 DEF Upto
    <3>2. CASE t >= 0
      <4>1. t \in Times
        BY <1>3, <2>1, <3>2 DEF Times
      <4> QED
        BY <1>2, <1>3, <1>4, <2>1, <3>2, <4>1 DEF Upto
    <3> QED
      BY <2>1, <3>1, <3>2
  <2>5. CASE t # now /\ s = k[1]
    <3>1. k[2] \in {b, b + Window, b + 2 * Window}
      BY <1>1, <1>k, <2>5, CountedInThree
    <3>2. /\ In(s, b)' \in Nat /\ In(s, b + Window)' \in Nat /\ In(s, b + 2 * Window)' \in Nat
          /\ In(s, b)' >= In(s, b) /\ In(s, b + Window)' >= In(s, b + Window)
          /\ In(s, b + 2 * Window)' >= In(s, b + 2 * Window)
      BY <2>1, <2>2
    <3>3. \/ In(s, b)' = In(s, b) + 1 \/ In(s, b + Window)' = In(s, b + Window) + 1
          \/ In(s, b + 2 * Window)' = In(s, b + 2 * Window) + 1
      BY <2>2, <2>5, <3>1
    <3>4. InThree(s, b)' >= InThree(s, b) + 1 /\ InThree(s, b)' \in Nat /\ InThree(s, b) \in Nat
      BY <2>1, <3>2, <3>3 DEF InThree, FirstWindow, WindowStart
    <3>5. FirstWindow(t)' = b
      BY DEF FirstWindow, WindowStart
    <3> HIDE DEF b
    <3> QED
      BY <2>1, <2>3, <2>4, <2>5, <3>4 DEF b
  <2>6. CASE t # now /\ s # k[1]
    <3>1. \A w : In(s, w)' = In(s, w)
      BY <2>1, <2>2, <2>6
    <3>2. InThree(s, b)' = InThree(s, b) /\ InThree(s, b) \in Nat
      BY <2>1, <3>1 DEF InThree, FirstWindow, WindowStart
    <3> QED
      BY <2>1, <2>3, <2>4, <2>6, <3>2
  <2>7. CASE t = now
    <3>1. \A w : In(s, w)' \in Nat
      BY <2>1, <2>2
    <3>2. InThree(s, b)' \in Nat
      BY <3>1 DEF InThree
    <3> QED
      BY <2>1, <2>3, <2>4, <2>7, <3>2
  <2> QED
    BY <2>5, <2>6, <2>7
<1>8. Recent' = Recent
  BY <1>2 DEF Recent
<1> QED
  BY <1>2, <1>6, <1>7, <1>8 DEF BurstFit

\* As time passes the three windows move on no faster than the requests leave.
LEMMA TickBurst == ASSUME Inv, BurstFit, Tick PROVE BurstFit'
<1>1. /\ now' = now + 1 /\ admitted' = admitted /\ admittedBy' = admittedBy
      /\ now \in Times /\ now + 1 \in Times /\ now \in Nat
      /\ admittedBy \in [Subjects -> [Times -> Nat]]
  BY DEF Inv, TypeOK, Tick, histories, Times
<1>2. \A s \in Subjects, t \in Times :
         now <= t => admittedBy[s][t] = admittedBy[s][now]
  BY DEF BurstFit
<1>3. \A s \in Subjects, t \in Times :
         now' <= t => admittedBy'[s][t] = admittedBy'[s][now']
  BY <1>1, <1>2 DEF Times
<1>4. ASSUME NEW s \in Subjects, NEW t \in Recent'
      PROVE  Upto(s, now)' <= Upto(s, t)' + InThree(s, FirstWindow(t))'
  <2>1. /\ t \in Int /\ t <= now + 1 /\ now + 1 - Window <= t
    BY <1>1 DEF Recent
  <2>2. Upto(s, now)' = Upto(s, now) /\ Upto(s, t)' = Upto(s, t) /\ Upto(s, now) \in Nat
    BY <1>1, <1>2, <2>1 DEF Upto, Times
  <2>3. InThree(s, FirstWindow(t))' = InThree(s, FirstWindow(t))
        /\ InThree(s, FirstWindow(t)) \in Nat
    BY <1>1, CountsType DEF Inv, InThree, In, FirstWindow, WindowStart
  <2>4. CASE t <= now
    <3>1. t \in Recent
      BY <1>1, <2>1, <2>4 DEF Recent
    <3> QED
      BY <2>2, <2>3, <3>1 DEF BurstFit
  <2>5. CASE t = now + 1
    <3>1. Upto(s, t) = Upto(s, now)
      BY <1>1, <1>2, <2>5 DEF Upto
    <3> QED
      BY <2>2, <2>3, <3>1
  <2> QED
    BY <1>1, <2>1, <2>4, <2>5
<1> QED
  BY <1>3, <1>4 DEF BurstFit

LEMMA NextBurst == Inv /\ BurstFit /\ [Next]_vars => BurstFit'
<1> SUFFICES ASSUME Inv, BurstFit, [Next]_vars PROVE BurstFit'
  OBVIOUS
<1>1. ASSUME UNCHANGED <<now, admitted, admittedBy>> PROVE BurstFit'
  BY <1>1 DEF BurstFit, Recent, Upto, InThree, In, FirstWindow, WindowStart
<1>2. ASSUME NEW h \in Handlers, Refuse(h) \/ Respond(h) \/ FailOpen(h)
      PROVE  BurstFit'
  BY <1>1, <1>2 DEF Refuse, Respond, FailOpen, histories
<1>3. ASSUME NEW k \in Keys, RunUnread(k) \/ Evict(k) PROVE BurstFit'
  BY <1>1, <1>3 DEF RunUnread, Evict, histories
<1>4. ASSUME NEW h \in Handlers, NEW t \in Tasks, NEW s, Arrive(h, t, s)
      PROVE  BurstFit'
  BY <1>1, <1>4 DEF Arrive
<1>5. CASE UNCHANGED vars
  BY <1>1, <1>5 DEF vars
<1> HIDE DEF BurstFit
<1> QED
  BY <1>2, <1>3, <1>4, <1>5, AdmitBurst, TickBurst DEF Next

LEMMA InitBurst == Init => BurstFit
<1> SUFFICES ASSUME Init PROVE BurstFit
  OBVIOUS
<1>1. Inv /\ now = 0 /\ \A s \in Subjects, t \in Times : admittedBy[s][t] = 0
  BY InitInv DEF Init
<1>2. \A s \in Subjects, t \in Recent : InThree(s, FirstWindow(t)) \in Nat
  BY <1>1, CountsType DEF Inv
<1>3. \A s \in Subjects, t \in Recent : Upto(s, t) = 0 /\ Upto(s, now) = 0
  BY <1>1 DEF Upto, Recent, Times
<1> QED
  BY <1>1, <1>2, <1>3 DEF BurstFit, Times

\* In any window's length of real time a caller gets three times the limit
\* through at most, and twice when clocks agree and nothing is late, whatever
\* the interleaving of the tasks.
THEOREM BurstBoundHolds == Spec => []BurstBound
<1>1. Inv /\ BurstFit => BurstBound
  <2> SUFFICES ASSUME Inv, BurstFit, NEW s \in Subjects, \A k \in Keys : ~lost[k]
               PROVE  Burst(s) <= (IF MaxSkew = 0 /\ MaxLag = 0 THEN 2 ELSE 3) * Limit(s)
    BY DEF BurstBound
  <2> DEFINE t == now - Window
             b == FirstWindow(t)
  <2>1. now \in Nat /\ now \in Times /\ t \in Recent /\ t \in Int /\ t + 1 - MaxLag \in Int
    BY DEF Inv, TypeOK, Times, Recent
  <2>2. Upto(s, now) <= Upto(s, t) + InThree(s, b)
    BY <2>1 DEF BurstFit
  <2>3. /\ Upto(s, now) \in Nat /\ Upto(s, t) \in Nat
        /\ In(s, b) \in Nat /\ In(s, b + Window) \in Nat /\ In(s, b + 2 * Window) \in Nat
    BY <2>1, CountsType DEF Inv
  <2>4. Burst(s) = Upto(s, now) - Upto(s, t)
    BY <2>1, <2>3 DEF Burst, Upto
  <2>5. ASSUME NEW w PROVE In(s, w) <= Limit(s)
    <3>1. CASE <<s, w>> \in Keys
      BY <3>1 DEF In, Inv, CounterFit
    <3>2. CASE <<s, w>> \notin Keys
      BY <3>2, LimitType DEF In
    <3> QED
      BY <3>1, <3>2
  <2>6. ASSUME MaxSkew = 0, MaxLag = 0 PROVE In(s, b + 2 * Window) = 0
    <3> DEFINE w == b + 2 * Window
    <3>1. b \in Int /\ t + 1 - MaxLag < b + Window
      BY <2>1, WindowsBefore DEF FirstWindow
    <3>2. w \in Int /\ now < w
      BY <2>1, <2>6, <3>1
    <3>3. CASE <<s, w>> \in Keys
      <4>1. ~(admitted[<<s, w>>] > 0)
        BY <2>1, <2>6, <3>2, <3>3 DEF Inv, CounterFit
      <4> QED
        BY <2>3, <3>3, <4>1 DEF In
    <3>4. CASE <<s, w>> \notin Keys
      BY <3>4 DEF In
    <3> QED
      BY <3>3, <3>4
  <2>7. Limit(s) \in Nat
    BY LimitType
  <2>8. /\ In(s, b) <= Limit(s) /\ In(s, b + Window) <= Limit(s)
        /\ In(s, b + 2 * Window) <= Limit(s)
    BY <2>5
  <2> HIDE DEF t, b
  <2>9. Burst(s) <= InThree(s, b)
    BY <2>2, <2>3, <2>4 DEF InThree
  <2>10. CASE MaxSkew = 0 /\ MaxLag = 0
    <3>1. InThree(s, b) <= 2 * Limit(s) /\ InThree(s, b) \in Nat
      BY <2>3, <2>6, <2>7, <2>8, <2>10 DEF InThree
    <3> QED
      BY <2>3, <2>4, <2>7, <2>9, <2>10, <3>1
  <2>11. CASE ~(MaxSkew = 0 /\ MaxLag = 0)
    <3>1. InThree(s, b) <= 3 * Limit(s) /\ InThree(s, b) \in Nat
      BY <2>3, <2>7, <2>8 DEF InThree
    <3> QED
      BY <2>3, <2>4, <2>7, <2>9, <2>11, <3>1
  <2> QED
    BY <2>10, <2>11
<1> QED
  BY <1>1, Invariance, InitBurst, NextBurst, PTL DEF Spec

=============================================================================
