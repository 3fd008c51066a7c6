--------------------------- MODULE IncidentCache ---------------------------
(***************************************************************************)
(* Incident reads through the cache, and what the writers do to it.        *)
(*                                                                         *)
(* Request handlers (threads of any number of web tasks) share PostgreSQL  *)
(* and Redis.  GET /api/incidents/<id> runs get_incident_view: look in     *)
(* the cache, on a miss load the row, store the payload.  PUT on the same  *)
(* path runs update_incident: load, commit, delete the key.  Renaming a    *)
(* project and creating an incident write PostgreSQL only.                 *)
(*                                                                         *)
(* A payload is abstracted to the version of the incident row and the      *)
(* version of its project's name: every net change of a row is a new       *)
(* version.  Columns are the business of module IncidentUpdate.            *)
(***************************************************************************)
EXTENDS Integers, FiniteSets

CONSTANTS
    Handlers,      \* request-handling threads, over all web tasks
    Orgs,          \* organizations that send requests
    Projects,      \* projects that exist
    ProjectOrg,    \* the organization_id column of each project
    Incidents,     \* incident ids
    TTL,           \* ttl_incident, in ticks
    Faults,        \* what may go wrong: a subset of FaultKinds
    MaxClock,      \* the history clock saturates here
    MaxVersion,    \* bound on the updates of one row
    MaxDelayed,    \* bound on the commands Redis has yet to read
    None,          \* no row, no entry, no payload, ...
    Undecodable    \* a cached string that json.loads rejects

FaultKinds == {"outage", "delay", "crash", "evict"}

ASSUME TTLAssumption == TTL \in Nat \ {0}
ASSUME ProjectOrgAssumption == ProjectOrg \in [Projects -> Orgs]
ASSUME FaultsAssumption == Faults \subseteq FaultKinds
ASSUME BoundsAssumption == MaxClock \in Nat /\ MaxVersion \in Nat

VARIABLES
    incident,      \* the incidents table: [Incidents -> IncidentRow or None]
    name,          \* version of each project's name column
    cache,         \* Redis: [Keys -> Entry or None]
    delayed,       \* per handler, a command Redis has yet to read from a socket
                   \* the client gave up on
    pc,            \* per handler, the next statement
    org,           \* per handler, context.organization.id of its request
    target,        \* per handler, the incident id in its path
    payload,       \* per handler, the value loaded or hit
    clock,         \* history: ticks since the start, saturating at MaxClock
    incidentAt,    \* history: when each version of an incident was committed
    nameAt         \* history: when each version of a name was committed

tables == <<incident, name, incidentAt, nameAt>>
redis == <<cache, delayed>>
threads == <<pc, org, target, payload>>
vars == <<tables, redis, threads, clock>>

----------------------------------------------------------------------------

Versions == 0..MaxVersion
Times == 0..MaxClock
Keys == Orgs \X Incidents

IncidentRow == [org : Orgs, project : Projects, version : Versions]

\* What serialize_incident builds; "loaded" is history: when it was built.
Payload == [id : Incidents, version : Versions, name : Versions, loaded : Times]

\* A Redis string with its remaining TTL.  "stored" and "escaped" are history:
\* when SETEX ran, and whether the invalidation of the entry is past: the row
\* had moved on before SETEX ran, or a DEL of the key has been lost since.
Entry == [payload : Payload \cup {Undecodable}, ttl : 1..TTL,
          stored : Times, escaped : BOOLEAN]

Command == [op : {"setex", "del"}, key : Keys, payload : Payload \cup {None}]

ASSUME NoneAssumption ==
    /\ None \notin Orgs \cup Incidents
    /\ None \notin IncidentRow \cup Payload \cup Entry \cup Command
    /\ Undecodable \notin Payload

Steps == {"idle", "discard", "load", "store", "respond", "commit", "invalidate"}

\* Mutant of IncidentKey: the key is built from the id alone.
IncidentKeyById(o, i) == <<CHOOSE x \in Orgs : TRUE, i>>

\* The key of a cached incident names the organization as well as the id.
IncidentKey(o, i) == <<o, i>>

\* The row the repository's query returns, or None: the organization is in
\* the WHERE clause.
SelectIncident(o, i) ==
    IF incident[i] # None /\ incident[i].org = o THEN incident[i] ELSE None

\* One SELECT with the project joined, so both versions are of one snapshot.
SerializeIncident(i) ==
    [id |-> i, version |-> incident[i].version,
     name |-> name[incident[i].project], loaded |-> clock]

----------------------------------------------------------------------------
(* Redis                                                                   *)

\* SETEX: the TTL starts when the server runs the command.
StoredEntry(p) ==
    [payload |-> p, ttl |-> TTL, stored |-> clock,
     escaped |-> p.version # incident[p.id].version]

ApplySet(k, p) == cache' = [cache EXCEPT ![k] = StoredEntry(p)]

ApplyDelete(k) == cache' = [cache EXCEPT ![k] = None]

\* A DEL of k is lost; only the history of the entry changes.
LoseDelete(k) ==
    cache' = [cache EXCEPT ![k] =
                IF @ = None THEN None ELSE [@ EXCEPT !.escaped = TRUE]]

\* The client gets a RedisError and goes on: either the server never sees the
\* command, or it is slower than the socket timeout and may run it later.
Unavailable == "outage" \in Faults /\ UNCHANGED delayed

TimesOut(h, command) ==
    /\ "delay" \in Faults
    /\ delayed[h] = None
    /\ Cardinality({g \in Handlers : delayed[g] # None}) < MaxDelayed
    /\ delayed' = [delayed EXCEPT ![h] = command]

CacheSet(h, k, p) ==
    \/ ApplySet(k, p) /\ UNCHANGED delayed
    \/ /\ UNCHANGED cache
       /\ \/ Unavailable
          \/ TimesOut(h, [op |-> "setex", key |-> k, payload |-> p])

CacheInvalidate(h, k) ==
    \/ ApplyDelete(k) /\ UNCHANGED delayed
    \/ /\ LoseDelete(k)
       /\ \/ Unavailable
          \/ TimesOut(h, [op |-> "del", key |-> k, payload |-> None])

----------------------------------------------------------------------------
(* GET /api/incidents/<id>: get_incident_view                              *)

Goto(h, step) == pc' = [pc EXCEPT ![h] = step]

Start(h, o, i, step) ==
    /\ pc[h] = "idle"
    /\ Goto(h, step)
    /\ org' = [org EXCEPT ![h] = o]
    /\ target' = [target EXCEPT ![h] = i]

Finish(h) ==
    /\ Goto(h, "idle")
    /\ org' = [org EXCEPT ![h] = None]
    /\ target' = [target EXCEPT ![h] = None]
    /\ payload' = [payload EXCEPT ![h] = None]

\* Mutant of ViewHit: a hit also renews the TTL (GETEX for GET).
ViewHitRenewing(h, o, i) ==
    LET k == IncidentKey(o, i) IN
    /\ Start(h, o, i, "respond")
    /\ cache[k] # None
    /\ cache[k].payload # Undecodable
    /\ payload' = [payload EXCEPT ![h] = cache[k].payload]
    /\ cache' = [cache EXCEPT ![k].ttl = TTL]
    /\ UNCHANGED <<tables, delayed, clock>>

\* cache_service.get returns the decoded value.
ViewHit(h, o, i) ==
    LET e == cache[IncidentKey(o, i)] IN
    /\ Start(h, o, i, "respond")
    /\ e # None
    /\ e.payload # Undecodable
    /\ payload' = [payload EXCEPT ![h] = e.payload]
    /\ UNCHANGED <<tables, redis, clock>>

\* json.loads fails: the entry is dropped before the lookup counts as a miss.
ViewUndecodable(h, o, i) ==
    LET e == cache[IncidentKey(o, i)] IN
    /\ Start(h, o, i, "discard")
    /\ e # None
    /\ e.payload = Undecodable
    /\ UNCHANGED <<tables, redis, payload, clock>>

ViewDiscard(h) ==
    /\ pc[h] = "discard"
    /\ CacheInvalidate(h, IncidentKey(org[h], target[h]))
    /\ Goto(h, "load")
    /\ UNCHANGED <<tables, org, target, payload, clock>>

\* Nothing under the key, or no answer from Redis.
ViewMiss(h, o, i) ==
    /\ Start(h, o, i, "load")
    /\ cache[IncidentKey(o, i)] = None \/ Faults \cap {"outage", "delay"} # {}
    /\ UNCHANGED <<tables, redis, payload, clock>>

\* The loader; NotFoundError propagates and nothing is stored.
ViewLoad(h) ==
    /\ pc[h] = "load"
    /\ SelectIncident(org[h], target[h]) # None
    /\ payload' = [payload EXCEPT ![h] = SerializeIncident(target[h])]
    /\ Goto(h, "store")
    /\ UNCHANGED <<tables, redis, org, target, clock>>

ViewNotFound(h) ==
    /\ pc[h] = "load"
    /\ SelectIncident(org[h], target[h]) = None
    /\ Finish(h)
    /\ UNCHANGED <<tables, redis, clock>>

ViewStore(h) ==
    /\ pc[h] = "store"
    /\ CacheSet(h, IncidentKey(org[h], target[h]), payload[h])
    /\ Goto(h, "respond")
    /\ UNCHANGED <<tables, org, target, payload, clock>>

Respond(h) ==
    /\ pc[h] = "respond"
    /\ Finish(h)
    /\ UNCHANGED <<tables, redis, clock>>

----------------------------------------------------------------------------
(* Writers                                                                 *)

\* PUT /api/incidents/<id>: get_incident; a 404 leaves everything as it is.
UpdateLoad(h, o, i) ==
    /\ SelectIncident(o, i) # None
    /\ Start(h, o, i, "commit")
    /\ UNCHANGED <<tables, redis, payload, clock>>

\* Mutant of UpdateCommit: the handler returns without the invalidation.
UpdateCommitOnly(h) ==
    LET i == target[h] IN
    /\ pc[h] = "commit"
    /\ incident[i].version < MaxVersion
    /\ incident' = [incident EXCEPT ![i].version = @ + 1]
    /\ incidentAt' =
          [incidentAt EXCEPT ![i][incident[i].version + 1] = clock]
    /\ Finish(h)
    /\ UNCHANGED <<name, nameAt, redis, clock>>

\* session.commit() flushes the UPDATE of the columns that differ.  With no
\* net change nothing is written, and the handler goes on all the same.
UpdateCommit(h) ==
    LET i == target[h] IN
    /\ pc[h] = "commit"
    /\ \/ /\ incident[i].version < MaxVersion
          /\ incident' = [incident EXCEPT ![i].version = @ + 1]
          /\ incidentAt' =
                [incidentAt EXCEPT ![i][incident[i].version + 1] = clock]
       \/ UNCHANGED <<incident, incidentAt>>
    /\ Goto(h, "invalidate")
    /\ UNCHANGED <<name, nameAt, redis, org, target, payload, clock>>

\* The commit raises (a constraint, a lost connection): the transaction is
\* rolled back and the handler never reaches the invalidation.
UpdateRejected(h) ==
    /\ pc[h] = "commit"
    /\ Finish(h)
    /\ UNCHANGED <<tables, redis, clock>>

UpdateInvalidate(h) ==
    /\ pc[h] = "invalidate"
    /\ CacheInvalidate(h, IncidentKey(org[h], target[h]))
    /\ Finish(h)
    /\ UNCHANGED <<tables, clock>>

\* PUT /api/projects/<id>: the commit is its only effect on shared state.
UpdateProject(p) ==
    /\ name[p] < MaxVersion
    /\ name' = [name EXCEPT ![p] = @ + 1]
    /\ nameAt' = [nameAt EXCEPT ![p][name[p] + 1] = clock]
    /\ UNCHANGED <<incident, incidentAt, redis, threads, clock>>

\* POST /api/projects/<id>/incidents: the project must be the caller's own.
CreateIncident(o, p, i) ==
    /\ ProjectOrg[p] = o
    /\ incident[i] = None
    /\ incident' = [incident EXCEPT ![i] = [org |-> o, project |-> p, version |-> 0]]
    /\ incidentAt' = [incidentAt EXCEPT ![i][0] = clock]
    /\ UNCHANGED <<name, nameAt, redis, threads, clock>>

----------------------------------------------------------------------------
(* The environment                                                         *)

\* The thread dies with its task, or a commit is applied but its
\* acknowledgement is lost, so that the handler stops before its next step.
Crash(h) ==
    /\ "crash" \in Faults
    /\ pc[h] # "idle"
    /\ IF pc[h] = "invalidate"
         THEN LoseDelete(IncidentKey(org[h], target[h]))
         ELSE UNCHANGED cache
    /\ Finish(h)
    /\ UNCHANGED <<tables, delayed, clock>>

\* Redis may drop any key: the policy is allkeys-lru and nothing is persisted,
\* so a restart drops them all.
Evict(k) ==
    /\ "evict" \in Faults
    /\ cache[k] # None
    /\ ApplyDelete(k)
    /\ UNCHANGED <<tables, delayed, threads, clock>>

\* Redis reads the abandoned command after all, or its socket is gone.
DeliverSet(h) ==
    /\ delayed[h] # None
    /\ delayed[h].op = "setex"
    /\ ApplySet(delayed[h].key, delayed[h].payload)
    /\ delayed' = [delayed EXCEPT ![h] = None]
    /\ UNCHANGED <<tables, threads, clock>>

DeliverDelete(h) ==
    /\ delayed[h] # None
    /\ delayed[h].op = "del"
    /\ ApplyDelete(delayed[h].key)
    /\ delayed' = [delayed EXCEPT ![h] = None]
    /\ UNCHANGED <<tables, threads, clock>>

LoseCommand(h) ==
    /\ delayed[h] # None
    /\ delayed' = [delayed EXCEPT ![h] = None]
    /\ UNCHANGED <<tables, cache, threads, clock>>

\* Mutants of Aged: a value stored without an expiry (SET for SETEX), and a
\* key that outlives its last tick.
Unaged(e) == e

AgedLate(e) ==
    IF e = None THEN None
    ELSE IF e.ttl = 0 THEN None ELSE [e EXCEPT !.ttl = @ - 1]

\* A tick of Redis's clock: every TTL counts down and the expired keys go.
Aged(e) ==
    IF e = None THEN None
    ELSE IF e.ttl = 1 THEN None ELSE [e EXCEPT !.ttl = @ - 1]

Tick ==
    /\ clock' = IF clock < MaxClock THEN clock + 1 ELSE clock
    /\ cache' = [k \in Keys |-> Aged(cache[k])]
    /\ UNCHANGED <<tables, delayed, threads>>

----------------------------------------------------------------------------

\* A key may hold a value an older, incompatible release wrote.
Leftover == [payload |-> Undecodable, ttl |-> TTL, stored |-> 0, escaped |-> FALSE]

Init ==
    /\ incident = [i \in Incidents |-> None]
    /\ name = [p \in Projects |-> 0]
    /\ cache \in [Keys -> {None, Leftover}]
    /\ delayed = [h \in Handlers |-> None]
    /\ pc = [h \in Handlers |-> "idle"]
    /\ org = [h \in Handlers |-> None]
    /\ target = [h \in Handlers |-> None]
    /\ payload = [h \in Handlers |-> None]
    /\ clock = 0
    /\ incidentAt = [i \in Incidents |-> [v \in Versions |-> 0]]
    /\ nameAt = [p \in Projects |-> [v \in Versions |-> 0]]

\* A request begins ...
Request(h) ==
    \E o \in Orgs, i \in Incidents :
        ViewHit(h, o, i) \/ ViewUndecodable(h, o, i) \/ ViewMiss(h, o, i)
        \/ UpdateLoad(h, o, i)

\* ... and its thread runs on.
Proceed(h) ==
    \/ ViewDiscard(h) \/ ViewLoad(h) \/ ViewNotFound(h) \/ ViewStore(h)
    \/ Respond(h)
    \/ UpdateCommit(h) \/ UpdateRejected(h) \/ UpdateInvalidate(h)

Deliver(h) == DeliverSet(h) \/ DeliverDelete(h) \/ LoseCommand(h)

Next ==
    \/ \E h \in Handlers : Request(h) \/ Proceed(h) \/ Crash(h) \/ Deliver(h)
    \/ \E p \in Projects : UpdateProject(p)
    \/ \E o \in Orgs, p \in Projects, i \in Incidents : CreateIncident(o, p, i)
    \/ \E k \in Keys : Evict(k)
    \/ Tick

Spec == Init /\ [][Next]_vars

\* A thread that runs is scheduled, time passes, and an abandoned command is
\* read or lost.  No request need ever be made.
Fairness ==
    /\ \A h \in Handlers : WF_vars(Proceed(h)) /\ WF_vars(Deliver(h))
    /\ WF_vars(Tick)

----------------------------------------------------------------------------
(* Properties                                                              *)

TypeOK ==
    /\ incident \in [Incidents -> IncidentRow \cup {None}]
    /\ name \in [Projects -> Versions]
    /\ cache \in [Keys -> Entry \cup {None}]
    /\ delayed \in [Handlers -> Command \cup {None}]
    /\ pc \in [Handlers -> Steps]
    /\ org \in [Handlers -> Orgs \cup {None}]
    /\ target \in [Handlers -> Incidents \cup {None}]
    /\ payload \in [Handlers -> Payload \cup {None}]
    /\ \A h \in Handlers :
          /\ pc[h] # "idle" => org[h] \in Orgs /\ target[h] \in Incidents
          /\ pc[h] \in {"store", "respond"} <=> payload[h] # None
          /\ pc[h] \in {"commit", "invalidate"} => incident[target[h]] # None
    /\ \A h \in Handlers : delayed[h] # None =>
          (delayed[h].op = "setex" <=> delayed[h].payload # None)
    /\ clock \in Times
    /\ incidentAt \in [Incidents -> [Versions -> Times]]
    /\ nameAt \in [Projects -> [Versions -> Times]]

\* An entry a lookup by organization o for incident i would decode.
Cached(o, i) ==
    /\ cache[IncidentKey(o, i)] # None
    /\ cache[IncidentKey(o, i)].payload # Undecodable

CachedPayload(o, i) == cache[IncidentKey(o, i)].payload

Owns(o, i) == incident[i] # None /\ incident[i].org = o

\* What a handler may answer, and what a lookup may hit, is the incident asked
\* for, and it exists in the caller's organization: neither another tenant's
\* record nor a missing one is ever served from the cache.
TenantIsolation ==
    /\ \A h \in Handlers : payload[h] # None =>
          payload[h].id = target[h] /\ Owns(org[h], target[h])
    /\ \A o \in Orgs, i \in Incidents : Cached(o, i) =>
          CachedPayload(o, i).id = i /\ Owns(o, i)

\* When a cached payload stopped being what PostgreSQL holds.
SupersededAt(p) ==
    {incidentAt[p.id][v] : v \in {w \in Versions :
        w = p.version + 1 /\ w <= incident[p.id].version}}
    \cup
    {nameAt[incident[p.id].project][v] : v \in {w \in Versions :
        w = p.name + 1 /\ w <= name[incident[p.id].project]}}

\* "Even if an invalidation is missed, a stale entry ages out": whatever went
\* wrong, a payload that a lookup can still hit was superseded less than TTL
\* ticks ago, plus the time its reader took from loading it to storing it.
StalenessBound ==
    \A o \in Orgs, i \in Incidents : Cached(o, i) =>
        LET e == cache[IncidentKey(o, i)] IN
        \A t \in SupersededAt(e.payload) :
            clock - t < TTL + (e.stored - e.payload.loaded)

\* Why the key is deleted after the commit and not before: an entry that was
\* current when it was stored and no longer is will still be deleted, for the
\* writer that superseded it has its DEL ahead of it.  The two ways out are
\* those "escaped" records: a reader that stores what it loaded before the
\* commit, and a DEL that an outage, a timeout or a crash lost.
InvalidationPending ==
    \A o \in Orgs, i \in Incidents :
        /\ Cached(o, i)
        /\ ~cache[IncidentKey(o, i)].escaped
        /\ CachedPayload(o, i).version # incident[i].version
        => \E h \in Handlers :
              pc[h] = "invalidate" /\ org[h] = o /\ target[h] = i

\* Every payload a lookup can hit is what PostgreSQL holds.
CacheCurrent ==
    \A o \in Orgs, i \in Incidents : Cached(o, i) =>
        /\ CachedPayload(o, i).version = incident[i].version
        /\ CachedPayload(o, i).name = name[incident[i].project]

\* The updates of a run are finitely many, so in the end the cache only holds
\* current payloads, for good: stale fills, lost invalidations and renames
\* all age out while reads go on.
EventuallyCurrent == <>[]CacheCurrent

\* The comment on the invalidation: deleting the key after the commit keeps a
\* racing reader from repopulating the cache with the pre-update row.  So once
\* no update is under way, a cached payload should have the row's version.
NoPreUpdateRow ==
    (\A h \in Handlers : pc[h] \notin {"commit", "invalidate"}) =>
        \A o \in Orgs, i \in Incidents :
            Cached(o, i) => CachedPayload(o, i).version = incident[i].version

\* The write path of the module: "update PostgreSQL, then delete the affected
\* keys".  The payload carries the project's name, so with no request under
\* way a cached payload should show the current name.
AffectedKeysDeleted ==
    (\A h \in Handlers : pc[h] = "idle") =>
        \A o \in Orgs, i \in Incidents :
            Cached(o, i) => CachedPayload(o, i).name = name[incident[i].project]

=============================================================================
