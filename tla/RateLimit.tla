----------------------------- MODULE RateLimit -----------------------------
(***************************************************************************)
(* The fixed-window rate limiter.                                          *)
(*                                                                         *)
(* Before a request to /api/ is routed, its task reads its own clock,      *)
(* names a counter after the caller and the window that clock is in, and   *)
(* has Redis increment it; the request is refused when the count exceeds   *)
(* the limit, and let through when Redis gives no count.  Tasks share the      *)
(* counters and nothing else: their clocks differ.  Pages are not limited, *)
(* and with RATE_LIMIT_ENABLED off nothing is.                             *)
(***************************************************************************)
EXTENDS Integers, FiniteSets, FiniteSetsExt

CONSTANTS
    Handlers,      \* request-handling threads
    Tasks,         \* ECS tasks, each with a clock
    Users,         \* ids of signed-in users
    Addresses,     \* client addresses
    None,          \* nobody, no counter, no request
    Window,        \* WINDOW_SECONDS, in ticks
    Second,        \* one second, in ticks
    ApiLimit,      \* rate_limit_api_per_minute
    AuthLimit,     \* rate_limit_auth_per_minute
    MaxSkew,       \* what task clocks may be ahead of real time
    MaxLag,        \* from reading the clock to the counter's increment
    Faults,        \* what may go wrong: a subset of FaultKinds
    MaxUnread,     \* bound on the increments given up on
    MaxTime,       \* bound on real time
    MaxRequests    \* bound on the requests of a run

FaultKinds == {"outage", "timeout", "evict"}

ASSUME WindowAssumption ==
    Window \in Nat \ {0} /\ Second \in Nat \ {0} /\ MaxTime \in Nat
ASSUME HandlersAssumption == IsFiniteSet(Handlers)
ASSUME LimitAssumption == ApiLimit \in Nat /\ AuthLimit \in Nat
ASSUME LagAssumption ==
    MaxSkew \in Nat /\ MaxLag \in Nat /\ MaxSkew + MaxLag <= Window

VARIABLES
    now,           \* real time
    skew,          \* per task, how far its clock is ahead
    counter,       \* Redis: [Keys -> Counter or None]
    unread,        \* keys whose INCR was given up on and may still run
    job,           \* per handler, the request it is checking
    asked,         \* history: requests per caller and window
    admitted,      \* history: those let through because of their count
    admittedBy,    \* history: the same per caller, at or before each time
    lost           \* history: counters that Redis dropped

vars == <<now, skew, counter, unread, job, asked, admitted, admittedBy, lost>>
histories == <<asked, admitted, admittedBy, lost>>

----------------------------------------------------------------------------

Times == 0..MaxTime
Clocks == 0..(MaxTime + MaxSkew)

Clock(t) == now + skew[t]

\* _window_start
WindowStart(c) == (c \div Window) * Window

Starts == {WindowStart(c) : c \in Clocks}

\* _rule_for_request and _identity: a POST under /api/auth/ counts against the
\* address, anything else under /api/ against the user if there is one.
Subject(path, user, address) ==
    IF path = "auth" THEN <<"auth", address>>
    ELSE <<"api", IF user # None THEN user ELSE address>>

Subjects == ({"auth"} \X Addresses) \cup ({"api"} \X (Users \cup Addresses))

Limit(subject) == IF subject[1] = "auth" THEN AuthLimit ELSE ApiLimit

\* Mutant of CounterKey: one counter for everybody.
SharedKey(subject, start) == <<CHOOSE s \in Subjects : TRUE, start>>

CounterKey(subject, start) == <<subject, start>>

Keys == Subjects \X Starts

\* Mutant of KeyTTL: counters live for half a window more than their own.
WindowAndAHalf == Window + Window \div 2

\* _KEY_TTL_SECONDS
KeyTTL == Window * 2

Counter == [count : Nat, expires : Nat]

\* A request between reading the clock and the count, and one told to go away.
Job == [step : {"count"}, key : Keys, at : Clocks, since : Times]
         \cup [step : {"refused"}, key : Keys, at : Clocks, retryAfter : 1..Window]

ASSUME NoneAssumption ==
    None \notin Counter /\ None \notin Job /\ None \notin Users

Counting(h) == job[h] # None /\ job[h].step = "count"
Refused(h) == job[h] # None /\ job[h].step = "refused"

----------------------------------------------------------------------------
(* Redis                                                                   *)

CountOf(k) == IF counter[k] = None THEN 0 ELSE counter[k].count

\* INCR and EXPIRE in one transaction.
Incremented(k) ==
    [counter EXCEPT ![k] = [count |-> CountOf(k) + 1, expires |-> now + KeyTTL]]

\* The abandoned transaction runs after all.
RunUnread(k) ==
    /\ k \in unread
    /\ counter' = Incremented(k)
    /\ unread' = unread \ {k}
    /\ UNCHANGED <<now, skew, job, histories>>

\* allkeys-lru, or a restart without persistence.
Evict(k) ==
    /\ "evict" \in Faults
    /\ counter[k] # None
    /\ counter' = [counter EXCEPT ![k] = None]
    /\ lost' = [lost EXCEPT ![k] = TRUE]
    /\ UNCHANGED <<now, skew, unread, job, asked, admitted, admittedBy>>

----------------------------------------------------------------------------
(* A request                                                               *)

Requests == MapThenSumSet(LAMBDA k : asked[k], Keys)

\* check: time.time() is read once, for the key and for Retry-After.
Arrive(h, t, subject) ==
    LET start == WindowStart(Clock(t)) IN
    /\ job[h] = None
    /\ Requests < MaxRequests
    /\ job' = [job EXCEPT ![h] =
                 [step |-> "count", key |-> CounterKey(subject, start),
                  at |-> Clock(t), since |-> now]]
    /\ asked' = [asked EXCEPT ![<<subject, start>>] = @ + 1]
    /\ UNCHANGED <<now, skew, counter, unread, admitted, admittedBy, lost>>

\* Mutant of Exceeds: the comparison is off by one.
ExceedsByTwo(count, limit) == count > limit + 1

Exceeds(count, limit) == count > limit

\* int(window_start + WINDOW_SECONDS - now): rounded down.
SecondsLeft(j) == (j.key[2] + Window - j.at) \div Second

\* Mutant of RetryAfter: it may be zero.
RetryAfterUnfloored(j) == SecondsLeft(j)

\* retry_after
RetryAfter(j) == IF SecondsLeft(j) < 1 THEN 1 ELSE SecondsLeft(j)

Admit(h) ==
    LET k == job[h].key IN
    /\ Counting(h)
    /\ ~Exceeds(CountOf(k) + 1, Limit(k[1]))
    /\ counter' = Incremented(k)
    /\ job' = [job EXCEPT ![h] = None]
    /\ admitted' = [admitted EXCEPT ![k] = @ + 1]
    /\ admittedBy' = [admittedBy EXCEPT ![k[1]] =
                        [t \in Times |-> IF now <= t THEN @[t] + 1 ELSE @[t]]]
    /\ UNCHANGED <<now, skew, unread, asked, lost>>

Refuse(h) ==
    LET k == job[h].key IN
    /\ Counting(h)
    /\ Exceeds(CountOf(k) + 1, Limit(k[1]))
    /\ counter' = Incremented(k)
    /\ job' = [job EXCEPT ![h] = [step |-> "refused", key |-> k, at |-> job[h].at,
                                  retryAfter |-> RetryAfter(job[h])]]
    /\ UNCHANGED <<now, skew, unread, histories>>

\* The 429 with its Retry-After header.
Respond(h) ==
    /\ Refused(h)
    /\ job' = [job EXCEPT ![h] = None]
    /\ UNCHANGED <<now, skew, counter, unread, histories>>

\* increment returns 0: the request goes through uncounted, or counted later.
FailOpen(h) ==
    /\ Counting(h)
    /\ \/ "outage" \in Faults /\ UNCHANGED unread
       \/ /\ "timeout" \in Faults /\ job[h].key \notin unread
          /\ Cardinality(unread) < MaxUnread
          /\ unread' = unread \cup {job[h].key}
    /\ job' = [job EXCEPT ![h] = None]
    /\ UNCHANGED <<now, skew, counter, histories>>

\* Time passes, no handler sits on its clock reading for longer than MaxLag,
\* and expired counters are gone.
Tick ==
    /\ now < MaxTime
    /\ \A h \in Handlers : Counting(h) => now < job[h].since + MaxLag
    /\ now' = now + 1
    /\ counter' = [k \in Keys |->
          IF counter[k] # None /\ counter[k].expires <= now' THEN None
          ELSE counter[k]]
    /\ UNCHANGED <<skew, unread, job, histories>>

Init ==
    /\ now = 0
    /\ skew \in [Tasks -> 0..MaxSkew]
    /\ counter = [k \in Keys |-> None]
    /\ unread = {}
    /\ job = [h \in Handlers |-> None]
    /\ asked = [k \in Keys |-> 0]
    /\ admitted = [k \in Keys |-> 0]
    /\ admittedBy = [s \in Subjects |-> [t \in Times |-> 0]]
    /\ lost = [k \in Keys |-> FALSE]

Next ==
    \/ \E h \in Handlers, t \in Tasks, path \in {"auth", "api"},
          user \in Users \cup {None}, address \in Addresses :
          Arrive(h, t, Subject(path, user, address))
    \/ \E h \in Handlers : Admit(h) \/ Refuse(h) \/ Respond(h) \/ FailOpen(h)
    \/ \E k \in Keys : RunUnread(k) \/ Evict(k)
    \/ Tick

Spec == Init /\ [][Next]_vars

----------------------------------------------------------------------------
(* Properties                                                              *)

TypeOK ==
    /\ now \in Times
    /\ skew \in [Tasks -> 0..MaxSkew]
    /\ counter \in [Keys -> Counter \cup {None}]
    /\ unread \subseteq Keys
    /\ job \in [Handlers -> Job \cup {None}]
    /\ asked \in [Keys -> Nat]
    /\ admitted \in [Keys -> Nat]
    /\ admittedBy \in [Subjects -> [Times -> Nat]]
    /\ lost \in [Keys -> BOOLEAN]

\* "So the limit holds across every ECS task": however many tasks check a
\* caller's requests at once, and whatever their clocks say, no window lets
\* more than the limit through on its count, unless Redis drops the counter.
WindowLimit ==
    \A k \in Keys : ~lost[k] => admitted[k] <= Limit(k[1])

\* A request may still be counted under k.
Open(k) ==
    \/ \E t \in Tasks : WindowStart(Clock(t)) = k[2]
    \/ \E h \in Handlers : Counting(h) /\ job[h].key = k

\* "Counters outlive their window slightly so a clock skew between tasks cannot
\* drop one": a counter does not expire while a request can be counted by it.
CounterOutlivesWindow ==
    \A k \in Keys :
        admitted[k] > 0 /\ ~lost[k] /\ Open(k) => counter[k] # None

\* Nobody is refused for what others do: behind a refusal there are as many
\* requests as the limit, and this one, of the same caller in the same window.
RefusalDeserved ==
    \A h \in Handlers :
        Refused(h) =>
            \E s \in Subjects :
                /\ job[h].key[1] = s
                /\ asked[<<s, job[h].key[2]>>] > Limit(s)

\* Requests of a caller let through in the last Window ticks of real time.
Burst(s) ==
    admittedBy[s][now] - (IF now < Window THEN 0 ELSE admittedBy[s][now - Window])

\* "A fixed window permits a burst of up to 2x the limit across a window
\* boundary".
BurstTwice == \A s \in Subjects : Burst(s) <= 2 * Limit(s)

\* What a caller can get through in any Window ticks: twice the limit when all
\* clocks agree and every count follows its clock reading at once.  Otherwise
\* three times: late counts of one window, the next one whole, and the first of
\* the one after it.
BurstBound ==
    \A s \in Subjects : (\A k \in Keys : ~lost[k]) =>
        Burst(s) <= (IF MaxSkew = 0 /\ MaxLag = 0 THEN 2 ELSE 3) * Limit(s)

=============================================================================
