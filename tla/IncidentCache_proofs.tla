----------------------- MODULE IncidentCache_proofs -----------------------
(***************************************************************************)
(* What IncidentCache guarantees for any number of handlers, tenants,      *)
(* projects and incidents, any TTL and any set of faults.                  *)
(***************************************************************************)
EXTENDS IncidentCache, TLAPS

USE TTLAssumption, ProjectOrgAssumption, FaultsAssumption, BoundsAssumption,
    NoneAssumption

----------------------------------------------------------------------------
(* Types                                                                   *)

\* What the loader builds from a row that exists is a payload of that row.
LEMMA SerializeType ==
    ASSUME TypeOK, NEW i \in Incidents, incident[i] # None
    PROVE  SerializeIncident(i) \in Payload
BY DEF TypeOK, SerializeIncident, Payload, IncidentRow

\* SETEX leaves a well-formed entry.
LEMMA StoredEntryType ==
    ASSUME TypeOK, NEW p \in Payload
    PROVE  StoredEntry(p) \in Entry
BY DEF TypeOK, StoredEntry, Entry

\* Whether it runs, fails or is abandoned, a SETEX keeps Redis well-formed.
LEMMA CacheSetType ==
    ASSUME TypeOK, NEW h \in Handlers, NEW k \in Keys, NEW p \in Payload,
           CacheSet(h, k, p)
    PROVE  /\ cache' \in [Keys -> Entry \cup {None}]
           /\ delayed' \in [Handlers -> Command \cup {None}]
           /\ \A g \in Handlers : delayed'[g] # None =>
                 (delayed'[g].op = "setex" <=> delayed'[g].payload # None)
<1>1. StoredEntry(p) \in Entry
  BY StoredEntryType
<1>2. CASE ApplySet(k, p) /\ UNCHANGED delayed
  BY <1>1, <1>2 DEF TypeOK, ApplySet
<1>3. CASE UNCHANGED cache /\ Unavailable
  BY <1>3 DEF TypeOK, Unavailable
<1>4. CASE /\ UNCHANGED cache
           /\ TimesOut(h, [op |-> "setex", key |-> k, payload |-> p])
  <2>1. [op |-> "setex", key |-> k, payload |-> p] \in Command
    BY DEF Command
  <2> QED
    BY <1>4, <2>1 DEF TypeOK, TimesOut
<1> QED
  BY <1>2, <1>3, <1>4 DEF CacheSet

\* A lost DEL shows in the history of the entry alone.
LEMMA LoseDeleteEffect ==
    ASSUME TypeOK, NEW k \in Keys, LoseDelete(k)
    PROVE  /\ cache' \in [Keys -> Entry \cup {None}]
           /\ \A l \in Keys : cache'[l] # None =>
                 /\ cache[l] # None
                 /\ cache'[l].payload = cache[l].payload
                 /\ cache'[l].ttl = cache[l].ttl
                 /\ cache'[l].stored = cache[l].stored
                 /\ cache'[l].escaped = (cache[l].escaped \/ l = k)
<1> DEFINE marked == [cache[k] EXCEPT !.escaped = TRUE]
<1>1. CASE cache[k] = None
  <2>1. cache' = cache
    BY <1>1 DEF LoseDelete, TypeOK
  <2> QED
    BY <1>1, <2>1 DEF TypeOK, Entry
<1>2. CASE cache[k] # None
  <2>1. cache[k] \in Entry
    BY <1>2 DEF TypeOK
  <2>2. /\ marked \in Entry
        /\ marked.payload = cache[k].payload
        /\ marked.ttl = cache[k].ttl
        /\ marked.stored = cache[k].stored
        /\ marked.escaped = TRUE
    BY <2>1 DEF Entry
  <2>3. cache' = [cache EXCEPT ![k] = marked]
    BY <1>2 DEF LoseDelete
  <2> HIDE DEF marked
  <2>4. \A l \in Keys : cache'[l] = IF l = k THEN marked ELSE cache[l]
    BY <2>3 DEF TypeOK
  <2>5. cache' \in [Keys -> Entry \cup {None}]
    BY <2>2, <2>3 DEF TypeOK
  <2>6. \A l \in Keys : cache[l] # None => cache[l].escaped \in BOOLEAN
    BY DEF TypeOK, Entry
  <2> QED
    BY <1>2, <2>2, <2>4, <2>5, <2>6
<1> QED
  BY <1>1, <1>2

\* Whether it runs, fails or is abandoned, a DEL keeps Redis well-formed.
LEMMA CacheInvalidateType ==
    ASSUME TypeOK, NEW h \in Handlers, NEW k \in Keys, CacheInvalidate(h, k)
    PROVE  /\ cache' \in [Keys -> Entry \cup {None}]
           /\ delayed' \in [Handlers -> Command \cup {None}]
           /\ \A g \in Handlers : delayed'[g] # None =>
                 (delayed'[g].op = "setex" <=> delayed'[g].payload # None)
<1>1. CASE ApplyDelete(k) /\ UNCHANGED delayed
  BY <1>1 DEF TypeOK, ApplyDelete
<1>2. CASE LoseDelete(k) /\ Unavailable
  BY <1>2, LoseDeleteEffect DEF TypeOK, Unavailable
<1>3. CASE /\ LoseDelete(k)
           /\ TimesOut(h, [op |-> "del", key |-> k, payload |-> None])
  <2>1. [op |-> "del", key |-> k, payload |-> None] \in Command
    BY DEF Command
  <2> QED
    BY <1>3, <2>1, LoseDeleteEffect DEF TypeOK, TimesOut
<1> QED
  BY <1>1, <1>2, <1>3 DEF CacheInvalidate

\* Time shortens a TTL and never leaves it at zero.
LEMMA AgedType ==
    ASSUME NEW e \in Entry \cup {None}
    PROVE  Aged(e) \in Entry \cup {None}
<1>1. CASE e # None /\ e.ttl # 1
  <2> SUFFICES [e EXCEPT !.ttl = @ - 1] \in Entry
    BY <1>1 DEF Aged
  <2> QED
    BY <1>1 DEF Entry
<1> QED
  BY <1>1 DEF Aged

\* The caller's key is a key.
LEMMA KeyType ==
    ASSUME TypeOK, NEW h \in Handlers, pc[h] # "idle"
    PROVE  IncidentKey(org[h], target[h]) \in Keys
BY DEF TypeOK, IncidentKey, Keys

LEMMA InitType == Init => TypeOK
<1> SUFFICES ASSUME Init PROVE TypeOK
  OBVIOUS
<1>1. Leftover \in Entry
  BY DEF Leftover, Entry, Times
<1>2. cache \in [Keys -> Entry \cup {None}]
  BY <1>1 DEF Init
<1> QED
  BY <1>2 DEF Init, TypeOK, Steps, Times, Versions

LEMMA NextType == TypeOK /\ [Next]_vars => TypeOK'
<1> SUFFICES ASSUME TypeOK, [Next]_vars PROVE TypeOK'
  OBVIOUS
<1> USE DEF tables, redis, threads, Goto, Finish, Steps
<1>1. ASSUME NEW h \in Handlers, NEW o \in Orgs, NEW i \in Incidents,
             ViewHit(h, o, i)
      PROVE  TypeOK'
  <2>1. cache[IncidentKey(o, i)].payload \in Payload
    BY <1>1 DEF TypeOK, ViewHit, IncidentKey, Keys, Entry
  <2> QED
    BY <1>1, <2>1 DEF TypeOK, ViewHit, Start
<1>2. ASSUME NEW h \in Handlers, NEW o \in Orgs, NEW i \in Incidents,
             ViewUndecodable(h, o, i) \/ ViewMiss(h, o, i) \/ UpdateLoad(h, o, i)
      PROVE  TypeOK'
  <2>1. CASE ViewUndecodable(h, o, i)
    BY <2>1 DEF TypeOK, ViewUndecodable, Start
  <2>2. CASE ViewMiss(h, o, i)
    BY <2>2 DEF TypeOK, ViewMiss, Start
  <2>3. CASE UpdateLoad(h, o, i)
    BY <2>3 DEF TypeOK, UpdateLoad, Start, SelectIncident
  <2> QED
    BY <1>2, <2>1, <2>2, <2>3
<1>3. ASSUME NEW h \in Handlers, ViewDiscard(h)
      PROVE  TypeOK'
  BY <1>3, CacheInvalidateType, KeyType DEF TypeOK, ViewDiscard
<1>4. ASSUME NEW h \in Handlers, ViewLoad(h)
      PROVE  TypeOK'
  <2>1. SerializeIncident(target[h]) \in Payload
    BY <1>4, SerializeType DEF TypeOK, ViewLoad, SelectIncident
  <2> QED
    BY <1>4, <2>1 DEF TypeOK, ViewLoad
<1>5. ASSUME NEW h \in Handlers, ViewNotFound(h) \/ Respond(h)
                                  \/ UpdateRejected(h) \/ Crash(h)
      PROVE  TypeOK'
  <2>1. Finish(h) /\ UNCHANGED <<tables, delayed, clock>>
    BY <1>5 DEF ViewNotFound, Respond, UpdateRejected, Crash
  <2>2. cache' \in [Keys -> Entry \cup {None}]
    <3>1. CASE UNCHANGED cache
      BY <3>1 DEF TypeOK
    <3>2. CASE pc[h] = "invalidate" /\ Crash(h)
      <4>1. IncidentKey(org[h], target[h]) \in Keys
        BY <3>2, KeyType
      <4> QED
        BY <3>2, <4>1, LoseDeleteEffect DEF Crash
    <3> QED
      BY <1>5, <3>1, <3>2 DEF ViewNotFound, Respond, UpdateRejected, Crash
  <2> QED
    BY <2>1, <2>2 DEF TypeOK
<1>6. ASSUME NEW h \in Handlers, ViewStore(h)
      PROVE  TypeOK'
  <2>1. payload[h] \in Payload
    BY <1>6 DEF TypeOK, ViewStore
  <2> QED
    BY <1>6, <2>1, CacheSetType, KeyType DEF TypeOK, ViewStore
<1>7. ASSUME NEW h \in Handlers, UpdateCommit(h)
      PROVE  TypeOK'
  <2>1. target[h] \in Incidents /\ incident[target[h]] \in IncidentRow
    BY <1>7 DEF TypeOK, UpdateCommit
  <2> DEFINE row == incident[target[h]]
  <2>3. row.version < MaxVersion =>
           /\ [row EXCEPT !.version = @ + 1] \in IncidentRow
           /\ row.version + 1 \in Versions
    BY <2>1 DEF IncidentRow, Versions
  <2>2. CASE UNCHANGED <<incident, incidentAt>>
    BY <1>7, <2>1, <2>2 DEF TypeOK, UpdateCommit
  <2>4. CASE ~UNCHANGED <<incident, incidentAt>>
    <3>1. /\ row.version < MaxVersion
          /\ incident' = [incident EXCEPT ![target[h]] =
                             [row EXCEPT !.version = row.version + 1]]
          /\ incidentAt' = [incidentAt EXCEPT ![target[h]] =
                   [incidentAt[target[h]] EXCEPT ![row.version + 1] = clock]]
      BY <1>7, <2>4 DEF UpdateCommit
    <3> DEFINE newRow == [row EXCEPT !.version = row.version + 1]
    <3>2. newRow \in IncidentRow /\ newRow # None
      BY <2>3, <3>1
    <3> HIDE DEF newRow
    <3>3. incident' = [incident EXCEPT ![target[h]] = newRow]
      BY <3>1 DEF newRow
    <3>4. /\ incident' \in [Incidents -> IncidentRow \cup {None}]
          /\ \A i \in Incidents : incident[i] # None => incident'[i] # None
      BY <2>1, <3>2, <3>3 DEF TypeOK
    <3>5. incidentAt' \in [Incidents -> [Versions -> Times]]
      BY <2>1, <2>3, <3>1 DEF TypeOK
    <3> QED
      BY <1>7, <2>1, <3>4, <3>5 DEF TypeOK, UpdateCommit
  <2> QED
    BY <2>2, <2>4
<1>8. ASSUME NEW h \in Handlers, UpdateInvalidate(h)
      PROVE  TypeOK'
  BY <1>8, CacheInvalidateType, KeyType DEF TypeOK, UpdateInvalidate
<1>9. ASSUME NEW p \in Projects, UpdateProject(p)
      PROVE  TypeOK'
  BY <1>9 DEF TypeOK, UpdateProject, Versions
<1>10. ASSUME NEW o \in Orgs, NEW p \in Projects, NEW i \in Incidents,
              CreateIncident(o, p, i)
       PROVE  TypeOK'
  BY <1>10 DEF TypeOK, CreateIncident, IncidentRow, Versions
<1>11. ASSUME NEW k \in Keys, Evict(k)
       PROVE  TypeOK'
  BY <1>11 DEF TypeOK, Evict, ApplyDelete
<1>12. ASSUME NEW h \in Handlers, DeliverSet(h)
       PROVE  TypeOK'
  <2>1. delayed[h].key \in Keys /\ delayed[h].payload \in Payload
    BY <1>12 DEF TypeOK, DeliverSet, Command
  <2>2. StoredEntry(delayed[h].payload) \in Entry
    BY <2>1, StoredEntryType
  <2> QED
    BY <1>12, <2>1, <2>2 DEF TypeOK, DeliverSet, ApplySet
<1>13. ASSUME NEW h \in Handlers, DeliverDelete(h) \/ LoseCommand(h)
       PROVE  TypeOK'
  BY <1>13 DEF TypeOK, DeliverDelete, LoseCommand, ApplyDelete
<1>14. ASSUME Tick
       PROVE  TypeOK'
  BY <1>14, AgedType DEF TypeOK, Tick, Times
<1>15. ASSUME UNCHANGED vars
       PROVE  TypeOK'
  BY <1>15 DEF TypeOK, vars
<1> QED
  BY <1>1, <1>2, <1>3, <1>4, <1>5, <1>6, <1>7, <1>8, <1>9, <1>10, <1>11,
     <1>12, <1>13, <1>14, <1>15
     DEF Next, Request, Proceed, Deliver

\* Every value the module keeps has its type in every reachable state.
THEOREM TypeCorrect == Spec => []TypeOK
BY InitType, NextType, PTL DEF Spec

----------------------------------------------------------------------------
(* The inductive invariant                                                 *)

\* What is true of a payload from the moment a reader of organization o
\* loads it for incident i, whatever is done to the tables afterwards.
Fits(p, o, i) ==
    /\ p \in Payload
    /\ p.id = i
    /\ Owns(o, i)
    /\ p.version <= incident[i].version
    /\ p.name <= name[incident[i].project]
    /\ p.loaded <= clock
    /\ \A t \in SupersededAt(p) : p.loaded <= t

HandlersFit ==
    \A h \in Handlers :
        /\ payload[h] # None => Fits(payload[h], org[h], target[h])
        /\ pc[h] \in {"commit", "invalidate"} => Owns(org[h], target[h])

DelayedFit ==
    \A h \in Handlers : \A o \in Orgs, i \in Incidents :
        delayed[h] # None /\ delayed[h].op = "setex" /\ delayed[h].key = <<o, i>>
            => Fits(delayed[h].payload, o, i)

CacheFit ==
    \A o \in Orgs, i \in Incidents : Cached(o, i) =>
        /\ Fits(CachedPayload(o, i), o, i)
        /\ CachedPayload(o, i).loaded <= cache[<<o, i>>].stored
        /\ clock <= cache[<<o, i>>].stored + (TTL - cache[<<o, i>>].ttl)

Inv == TypeOK /\ HandlersFit /\ DelayedFit /\ CacheFit

\* Which steps write a table or move the clock.
LEMMA TableWriters ==
    ASSUME [Next]_vars
    PROVE  \/ UNCHANGED <<tables, clock>>
           \/ \E h \in Handlers : UpdateCommit(h)
           \/ \E p \in Projects : UpdateProject(p)
           \/ \E o \in Orgs, p \in Projects, i \in Incidents :
                 CreateIncident(o, p, i)
           \/ Tick
BY DEF Next, Request, Proceed, Deliver, vars, tables, redis, threads,
       ViewHit, ViewUndecodable, ViewMiss, UpdateLoad, ViewDiscard, ViewLoad,
       ViewNotFound, ViewStore, Respond, UpdateRejected, UpdateInvalidate,
       Crash, Evict, DeliverSet, DeliverDelete, LoseCommand

\* A row stays in its organization and project; a commit only adds a version.
RowStep(i) ==
    /\ incident'[i] \in IncidentRow
    /\ incident'[i].org = incident[i].org
    /\ incident'[i].project = incident[i].project
    /\ \/ /\ incident'[i].version = incident[i].version
          /\ incidentAt'[i] = incidentAt[i]
       \/ /\ incident'[i].version = incident[i].version + 1
          /\ incident[i].version + 1 \in Versions
          /\ incidentAt'[i] =
                [incidentAt[i] EXCEPT ![incident[i].version + 1] = clock]

LEMMA RowSteps ==
    ASSUME TypeOK, [Next]_vars, NEW i \in Incidents, incident[i] # None
    PROVE  RowStep(i)
<1>0. incident[i] \in IncidentRow
  BY DEF TypeOK
<1>1. CASE incident'[i] = incident[i] /\ incidentAt'[i] = incidentAt[i]
  BY <1>0, <1>1 DEF RowStep
<1>2. CASE \E h \in Handlers : UpdateCommit(h)
  <2>1. PICK h \in Handlers : UpdateCommit(h)
    BY <1>2
  <2>2. CASE UNCHANGED <<incident, incidentAt>> \/ i # target[h]
    <3>1. incident'[i] = incident[i] /\ incidentAt'[i] = incidentAt[i]
      BY <2>1, <2>2 DEF UpdateCommit, TypeOK
    <3> QED
      BY <1>1, <3>1
  <2>3. CASE ~UNCHANGED <<incident, incidentAt>> /\ i = target[h]
    <3> DEFINE newRow == [incident[i] EXCEPT !.version = incident[i].version + 1]
    <3>1. /\ incident[i].version < MaxVersion
          /\ incident' = [incident EXCEPT ![i] = newRow]
          /\ incidentAt' = [incidentAt EXCEPT ![i] =
                  [incidentAt[i] EXCEPT ![incident[i].version + 1] = clock]]
      BY <2>1, <2>3 DEF UpdateCommit
    <3>2. /\ newRow \in IncidentRow
          /\ newRow.org = incident[i].org
          /\ newRow.project = incident[i].project
          /\ newRow.version = incident[i].version + 1
          /\ incident[i].version + 1 \in Versions
      BY <1>0, <3>1 DEF IncidentRow, Versions
    <3> HIDE DEF newRow
    <3>3. incident'[i] = newRow
      BY <3>1 DEF TypeOK
    <3>4. incidentAt'[i] =
             [incidentAt[i] EXCEPT ![incident[i].version + 1] = clock]
      BY <3>1 DEF TypeOK
    <3> QED
      BY <3>2, <3>3, <3>4 DEF RowStep
  <2> QED
    BY <2>2, <2>3
<1>3. CASE ~\E h \in Handlers : UpdateCommit(h)
  <2>1. incident'[i] = incident[i] /\ incidentAt'[i] = incidentAt[i]
    BY <1>3, TableWriters
       DEF TypeOK, tables, UpdateProject, CreateIncident, Tick
  <2> QED
    BY <1>1, <2>1
<1> QED
  BY <1>2, <1>3

\* The clock never goes back.
LEMMA ClockStep == ASSUME TypeOK, [Next]_vars PROVE clock <= clock'
<1>1. clock \in Int
  BY DEF TypeOK, Times
<1>2. clock' = clock \/ clock' = clock + 1
  BY TableWriters
     DEF tables, UpdateCommit, UpdateProject, CreateIncident, Tick
<1> QED
  BY <1>1, <1>2

\* What a step does to a project's name.
NameStep(p) ==
    \/ name'[p] = name[p] /\ nameAt'[p] = nameAt[p]
    \/ /\ name'[p] = name[p] + 1
       /\ name[p] + 1 \in Versions
       /\ nameAt'[p] = [nameAt[p] EXCEPT ![name[p] + 1] = clock]

LEMMA NameSteps ==
    ASSUME TypeOK, [Next]_vars, NEW p \in Projects
    PROVE  NameStep(p)
<1>1. ASSUME NEW q \in Projects, UpdateProject(q)
      PROVE  NameStep(p)
  <2>1. name[q] \in Versions /\ name[q] < MaxVersion
    BY <1>1 DEF TypeOK, UpdateProject
  <2>2. name[q] + 1 \in Versions
    BY <2>1 DEF Versions
  <2> QED
    BY <1>1, <2>2 DEF TypeOK, UpdateProject, NameStep
<1>2. CASE ~\E q \in Projects : UpdateProject(q)
  <2>1. name' = name /\ nameAt' = nameAt
    BY <1>2, TableWriters
       DEF tables, UpdateCommit, CreateIncident, Tick
  <2> QED
    BY <2>1 DEF NameStep
<1> QED
  BY <1>1, <1>2

\* No row is deleted and none changes hands.
LEMMA OwnsStable ==
    ASSUME TypeOK, [Next]_vars, NEW o \in Orgs, NEW i \in Incidents, Owns(o, i)
    PROVE  Owns(o, i)'
BY RowSteps, NextType DEF Owns, RowStep

\* A loaded payload keeps fitting: whatever supersedes it does so no earlier
\* than now.
LEMMA FitsStable ==
    ASSUME TypeOK, [Next]_vars, NEW o \in Orgs, NEW i \in Incidents,
           NEW p \in Payload, Fits(p, o, i)
    PROVE  Fits(p, o, i)'
<1> DEFINE row == incident[i]
           proj == incident[i].project
<1>1. /\ row \in IncidentRow /\ row # None /\ proj \in Projects
      /\ p.version \in Int /\ p.name \in Int /\ p.loaded \in Int /\ p.id = i
  BY DEF Fits, Owns, TypeOK, IncidentRow, Payload, Versions, Times
<1>2. RowStep(i) /\ NameStep(proj) /\ clock <= clock' /\ Owns(o, i)'
  BY <1>1, RowSteps, NameSteps, ClockStep, OwnsStable DEF Fits
<1>3. /\ clock \in Int /\ clock' \in Int /\ name[proj] \in Versions
      /\ incidentAt[i] \in [Versions -> Times]
      /\ nameAt[proj] \in [Versions -> Times]
      /\ row.version \in Versions
  BY <1>1, NextType DEF TypeOK, Times, IncidentRow
<1>4. p.version <= incident'[i].version /\ p.name <= name'[incident'[i].project]
  <2>1. p.version <= row.version /\ p.name <= name[proj]
    BY DEF Fits
  <2>2. row.version \in Int /\ name[proj] \in Int
    BY <1>3 DEF Versions
  <2>3. p.version <= incident'[i].version
    BY <1>1, <1>2, <2>1, <2>2 DEF RowStep
  <2>4. p.name <= name'[proj]
    BY <1>1, <1>2, <2>1, <2>2 DEF NameStep
  <2> QED
    BY <1>2, <2>3, <2>4 DEF RowStep
<1>5. ASSUME NEW v \in Versions, v = p.version + 1, v <= incident'[i].version
      PROVE  p.loaded <= incidentAt'[i][v]
  <2>1. CASE incidentAt'[i] = incidentAt[i] /\ incident'[i].version = row.version
    BY <1>1, <1>5, <2>1 DEF Fits, SupersededAt
  <2>2. CASE /\ incident'[i].version = row.version + 1
             /\ incidentAt'[i] = [incidentAt[i] EXCEPT ![row.version + 1] = clock]
    <3>1. CASE v = row.version + 1
      BY <1>3, <1>5, <2>2, <3>1 DEF Fits
    <3>2. CASE v # row.version + 1
      <4>1. v <= row.version
        BY <1>3, <1>5, <2>2, <3>2 DEF Versions
      <4>2. incidentAt[i][v] \in SupersededAt(p)
        BY <1>1, <1>5, <4>1 DEF SupersededAt
      <4> QED
        BY <1>3, <2>2, <3>2, <4>2 DEF Fits
    <3> QED
      BY <3>1, <3>2
  <2> QED
    BY <1>2, <2>1, <2>2 DEF RowStep
<1>6. ASSUME NEW v \in Versions, v = p.name + 1, v <= name'[proj]
      PROVE  p.loaded <= nameAt'[proj][v]
  <2>1. CASE nameAt'[proj] = nameAt[proj] /\ name'[proj] = name[proj]
    BY <1>1, <1>6, <2>1 DEF Fits, SupersededAt
  <2>2. CASE /\ name'[proj] = name[proj] + 1
             /\ nameAt'[proj] = [nameAt[proj] EXCEPT ![name[proj] + 1] = clock]
    <3>1. CASE v = name[proj] + 1
      BY <1>3, <1>6, <2>2, <3>1 DEF Fits
    <3>2. CASE v # name[proj] + 1
      <4>1. v <= name[proj]
        BY <1>3, <1>6, <2>2, <3>2 DEF Versions
      <4>2. nameAt[proj][v] \in SupersededAt(p)
        BY <1>1, <1>6, <4>1 DEF SupersededAt
      <4> QED
        BY <1>3, <2>2, <3>2, <4>2 DEF Fits
    <3> QED
      BY <3>1, <3>2
  <2> QED
    BY <1>2, <2>1, <2>2 DEF NameStep
<1>7. \A t \in SupersededAt(p)' : p.loaded <= t
  BY <1>1, <1>2, <1>5, <1>6 DEF SupersededAt, RowStep
<1> QED
  BY <1>1, <1>2, <1>3, <1>4, <1>7 DEF Fits

\* A payload fits the row it is built from.
LEMMA LoadedFits ==
    ASSUME TypeOK, NEW o \in Orgs, NEW i \in Incidents,
           SelectIncident(o, i) # None
    PROVE  Fits(SerializeIncident(i), o, i)
<1>1. incident[i] \in IncidentRow /\ incident[i].org = o /\ incident[i] # None
  BY DEF TypeOK, SelectIncident
<1>2. incident[i].project \in Projects /\ incident[i].version \in Int
  BY <1>1 DEF IncidentRow, Versions
<1>3. name[incident[i].project] \in Int
  BY <1>2 DEF TypeOK, Versions
<1>4. clock \in Int
  BY DEF TypeOK, Times
<1> DEFINE p == SerializeIncident(i)
<1>5. /\ p \in Payload /\ p.id = i /\ p.version = incident[i].version
      /\ p.name = name[incident[i].project] /\ p.loaded = clock
  BY <1>1, SerializeType DEF SerializeIncident
<1> HIDE DEF p
<1>6. SupersededAt(p) = {}
  BY <1>2, <1>3, <1>5 DEF SupersededAt, Versions
<1> QED
  BY <1>1, <1>2, <1>3, <1>4, <1>5, <1>6 DEF Fits, Owns, p

\* An entry may only gain the mark of a lost DEL.
SameEntry(k) ==
    /\ cache[k] # None
    /\ cache'[k].payload = cache[k].payload
    /\ cache'[k].ttl = cache[k].ttl
    /\ cache'[k].stored = cache[k].stored
    /\ cache[k].escaped => cache'[k].escaped

\* What a lookup can hit after a step was there before, or is what some
\* handler stored in this step under the key it was loaded for.
LEMMA CacheSources ==
    ASSUME Inv, [Next]_vars, NEW o \in Orgs, NEW i \in Incidents,
           cache'[<<o, i>>] # None
    PROVE  \/ SameEntry(<<o, i>>) /\ clock' = clock
           \/ Tick
           \/ /\ UNCHANGED <<tables, clock>>
              /\ \E p \in Payload :
                    Fits(p, o, i) /\ cache'[<<o, i>>] = StoredEntry(p)
<1> USE DEF tables, redis, threads, Inv
<1>0. <<o, i>> \in Keys
  BY DEF Keys
<1>a. ASSUME cache'[<<o, i>>] = cache[<<o, i>>]
      PROVE  SameEntry(<<o, i>>)
  BY <1>a DEF SameEntry
<1>b. ASSUME NEW k \in Keys, LoseDelete(k)
      PROVE  SameEntry(<<o, i>>)
  BY <1>0, <1>b, LoseDeleteEffect DEF SameEntry
<1>c. ASSUME NEW k, ApplyDelete(k)
      PROVE  SameEntry(<<o, i>>)
  BY <1>0, <1>a, <1>c DEF ApplyDelete, TypeOK
<1>1. ASSUME NEW h \in Handlers, ViewStore(h)
      PROVE  \/ SameEntry(<<o, i>>) /\ clock' = clock
             \/ /\ UNCHANGED <<tables, clock>>
                /\ \E p \in Payload :
                      Fits(p, o, i) /\ cache'[<<o, i>>] = StoredEntry(p)
  <2>1. /\ org[h] \in Orgs /\ target[h] \in Incidents /\ payload[h] \in Payload
        /\ Fits(payload[h], org[h], target[h])
    BY <1>1 DEF TypeOK, ViewStore, HandlersFit
  <2>2. CASE ApplySet(<<org[h], target[h]>>, payload[h])
    <3>1. CASE <<o, i>> = <<org[h], target[h]>>
      <4>1. o = org[h] /\ i = target[h]
        BY <3>1
      <4>2. cache'[<<o, i>>] = StoredEntry(payload[h])
        BY <1>0, <2>2, <4>1 DEF ApplySet, TypeOK
      <4> QED
        BY <1>1, <2>1, <4>1, <4>2 DEF ViewStore
    <3>2. CASE <<o, i>> # <<org[h], target[h]>>
      BY <1>0, <1>1, <1>a, <2>2, <3>2 DEF ApplySet, TypeOK, ViewStore
    <3> QED
      BY <3>1, <3>2
  <2>3. CASE UNCHANGED cache
    BY <1>1, <1>a, <2>3 DEF ViewStore
  <2> QED
    BY <1>1, <2>2, <2>3 DEF ViewStore, CacheSet, IncidentKey
<1>2. ASSUME NEW h \in Handlers, DeliverSet(h)
      PROVE  \/ SameEntry(<<o, i>>) /\ clock' = clock
             \/ /\ UNCHANGED <<tables, clock>>
                /\ \E p \in Payload :
                      Fits(p, o, i) /\ cache'[<<o, i>>] = StoredEntry(p)
  <2>1. /\ delayed[h].payload \in Payload /\ delayed[h].key \in Keys
    BY <1>2 DEF TypeOK, DeliverSet, Command
  <2>2. CASE delayed[h].key = <<o, i>>
    <3>1. Fits(delayed[h].payload, o, i)
      BY <1>2, <2>2 DEF DelayedFit, DeliverSet
    <3>2. cache'[<<o, i>>] = StoredEntry(delayed[h].payload)
      BY <1>0, <1>2, <2>2 DEF DeliverSet, ApplySet, TypeOK
    <3> QED
      BY <1>2, <2>1, <3>1, <3>2 DEF DeliverSet
  <2>3. CASE delayed[h].key # <<o, i>>
    BY <1>0, <1>2, <1>a, <2>3 DEF DeliverSet, ApplySet, TypeOK
  <2> QED
    BY <2>2, <2>3
<1>3. ASSUME NEW h \in Handlers, ViewDiscard(h) \/ UpdateInvalidate(h)
      PROVE  SameEntry(<<o, i>>) /\ clock' = clock
  <2>1. CacheInvalidate(h, IncidentKey(org[h], target[h])) /\ clock' = clock
    BY <1>3 DEF ViewDiscard, UpdateInvalidate
  <2>2. IncidentKey(org[h], target[h]) \in Keys
    BY <1>3, KeyType DEF ViewDiscard, UpdateInvalidate
  <2> QED
    BY <1>b, <1>c, <2>1, <2>2 DEF CacheInvalidate
<1>4. ASSUME NEW h \in Handlers, Crash(h)
      PROVE  SameEntry(<<o, i>>) /\ clock' = clock
  <2>1. IncidentKey(org[h], target[h]) \in Keys
    BY <1>4, KeyType DEF Crash
  <2> QED
    BY <1>a, <1>b, <1>4, <2>1 DEF Crash
<1>5. ASSUME NEW h \in Handlers, DeliverDelete(h)
      PROVE  SameEntry(<<o, i>>) /\ clock' = clock
  BY <1>c, <1>5 DEF DeliverDelete
<1>6. ASSUME NEW k \in Keys, Evict(k)
      PROVE  SameEntry(<<o, i>>) /\ clock' = clock
  BY <1>c, <1>6 DEF Evict
<1>7. CASE UNCHANGED <<cache, clock>>
  BY <1>a, <1>7
<1>8. ASSUME NEW h \in Handlers, Request(h) \/ LoseCommand(h)
      PROVE  UNCHANGED <<cache, clock>>
  BY <1>8 DEF Request, ViewHit, ViewUndecodable, ViewMiss, UpdateLoad, LoseCommand
<1>9. ASSUME NEW h \in Handlers,
             \/ ViewLoad(h) \/ ViewNotFound(h) \/ Respond(h)
             \/ UpdateCommit(h) \/ UpdateRejected(h)
      PROVE  UNCHANGED <<cache, clock>>
  BY <1>9 DEF ViewLoad, ViewNotFound, Respond, UpdateCommit, UpdateRejected
<1> QED
  BY <1>1, <1>2, <1>3, <1>4, <1>5, <1>6, <1>7, <1>8, <1>9
     DEF Next, Proceed, Deliver, vars, UpdateProject, CreateIncident

\* What a lookup can hit after a step still fits, and is not too old.
LEMMA NextEntryFits ==
    ASSUME Inv, [Next]_vars, NEW o \in Orgs, NEW i \in Incidents,
           NEW p \in Payload, cache'[<<o, i>>] # None,
           p = cache'[<<o, i>>].payload
    PROVE  /\ Fits(p, o, i)'
           /\ p.loaded <= cache'[<<o, i>>].stored
           /\ clock' <= cache'[<<o, i>>].stored + (TTL - cache'[<<o, i>>].ttl)
<1> DEFINE e == cache[<<o, i>>]
           f == cache'[<<o, i>>]
<1>0. TypeOK /\ TypeOK' /\ <<o, i>> \in Keys /\ f # None
  BY NextType DEF Inv, Keys
<1>1. f \in Entry
  BY <1>0 DEF TypeOK
<1>2. clock \in Int
  BY <1>0 DEF TypeOK, Times
<1>3. ASSUME e # None, e.payload = p
      PROVE  /\ Fits(p, o, i)'
             /\ p.loaded <= e.stored
             /\ clock <= e.stored + (TTL - e.ttl)
             /\ e.stored \in Int /\ e.ttl \in Int
  <2>1. Cached(o, i) /\ CachedPayload(o, i) = p
    <3>1. Undecodable # p
      BY Zenon
    <3> QED
      BY <1>3, <3>1 DEF Cached, CachedPayload, IncidentKey
  <2>2. e \in Entry
    BY <1>0, <1>3 DEF TypeOK
  <2>3. /\ Fits(CachedPayload(o, i), o, i)
        /\ p.loaded <= e.stored
        /\ clock <= e.stored + (TTL - e.ttl)
    BY <2>1 DEF Inv, CacheFit
  <2>4. Fits(p, o, i)
    BY <2>1, <2>3
  <2>5. Fits(p, o, i)'
    BY <1>0, <2>4, FitsStable
  <2>6. e.stored \in Int /\ e.ttl \in Int
    BY <2>2 DEF Entry, Times
  <2> QED
    BY <2>3, <2>5, <2>6
<1>4. CASE SameEntry(<<o, i>>) /\ clock' = clock
  BY <1>0, <1>3, <1>4 DEF SameEntry
<1>5. CASE Tick
  <2>1. f = Aged(e)
    BY <1>0, <1>5 DEF Tick
  <2>2. e # None /\ f = [e EXCEPT !.ttl = e.ttl - 1]
    BY <1>0, <2>1 DEF Aged
  <2>3. e \in Entry
    BY <1>0, <2>2 DEF TypeOK
  <2>4. f.payload = e.payload /\ f.stored = e.stored /\ f.ttl = e.ttl - 1
    BY <2>2, <2>3 DEF Entry
  <2>5. clock' <= clock + 1 /\ clock' \in Int
    BY <1>2, <1>5 DEF Tick
  <2> QED
    BY <1>2, <1>3, <2>2, <2>4, <2>5
<1>6. ASSUME UNCHANGED <<tables, clock>>,
             NEW q \in Payload, Fits(q, o, i), f = StoredEntry(q)
      PROVE  /\ Fits(p, o, i)'
             /\ p.loaded <= f.stored
             /\ clock' <= f.stored + (TTL - f.ttl)
  <2>1. p = q /\ f.stored = clock /\ f.ttl = TTL
    BY <1>6 DEF StoredEntry
  <2>2. Fits(p, o, i)
    BY <1>6, <2>1
  <2>3. Fits(p, o, i)'
    BY <1>0, <2>2, FitsStable
  <2> QED
    BY <1>2, <1>6, <2>1, <2>2, <2>3 DEF Fits
<1> QED
  BY <1>0, <1>4, <1>5, <1>6, CacheSources

LEMMA NextCacheFit == Inv /\ [Next]_vars => CacheFit'
<1> SUFFICES ASSUME Inv, [Next]_vars, NEW o \in Orgs, NEW i \in Incidents,
                    cache'[<<o, i>>] # None,
                    cache'[<<o, i>>].payload # Undecodable
             PROVE  /\ Fits(cache[<<o, i>>].payload, o, i)'
                    /\ cache'[<<o, i>>].payload.loaded <= cache'[<<o, i>>].stored
                    /\ clock' <= cache'[<<o, i>>].stored
                                    + (TTL - cache'[<<o, i>>].ttl)
  BY DEF CacheFit, Cached, CachedPayload, IncidentKey
<1>1. cache'[<<o, i>>].payload \in Payload
  BY NextType DEF Inv, TypeOK, Entry, Keys
<1>2. PICK p \in Payload : p = cache'[<<o, i>>].payload
  BY <1>1
<1>3. /\ Fits(p, o, i)'
      /\ p.loaded <= cache'[<<o, i>>].stored
      /\ clock' <= cache'[<<o, i>>].stored + (TTL - cache'[<<o, i>>].ttl)
  BY <1>2, NextEntryFits
<1>4. Fits(cache[<<o, i>>].payload, o, i)'
  BY <1>1, <1>2, <1>3 DEF Fits, SupersededAt
<1> QED
  BY <1>2, <1>3, <1>4

\* A SETEX still unread was there before, or its handler abandons it now.
LEMMA DelayedSources ==
    ASSUME TypeOK, [Next]_vars, NEW h \in Handlers,
           delayed'[h] # None, delayed'[h].op = "setex"
    PROVE  \/ delayed'[h] = delayed[h]
           \/ /\ pc[h] = "store"
              /\ delayed'[h].key = <<org[h], target[h]>>
              /\ delayed'[h].payload = payload[h]
<1> USE DEF tables, redis, threads
<1>1. ASSUME NEW g \in Handlers, NEW k, CacheInvalidate(g, k)
      PROVE  delayed'[h] = delayed[h]
  <2>1. [op |-> "del", key |-> k, payload |-> None].op # "setex"
    OBVIOUS
  <2> QED
    BY <1>1, <2>1 DEF TypeOK, CacheInvalidate, Unavailable, TimesOut
<1>2. ASSUME NEW g \in Handlers, ViewStore(g)
      PROVE  \/ delayed'[h] = delayed[h]
             \/ /\ pc[h] = "store"
                /\ delayed'[h].key = <<org[h], target[h]>>
                /\ delayed'[h].payload = payload[h]
  BY <1>2 DEF TypeOK, ViewStore, CacheSet, Unavailable, TimesOut, IncidentKey
<1>3. ASSUME NEW g \in Handlers, Deliver(g)
      PROVE  delayed'[h] = delayed[h]
  BY <1>3 DEF TypeOK, Deliver, DeliverSet, DeliverDelete, LoseCommand
<1>4. ASSUME NEW g \in Handlers,
             ViewDiscard(g) \/ UpdateInvalidate(g) \/ Crash(g)
      PROVE  delayed'[h] = delayed[h]
  BY <1>1, <1>4 DEF ViewDiscard, UpdateInvalidate, Crash
<1>5. ASSUME UNCHANGED delayed
      PROVE  delayed'[h] = delayed[h]
  BY <1>5
<1>6. ASSUME NEW g \in Handlers, Request(g)
      PROVE  delayed'[h] = delayed[h]
  BY <1>6 DEF Request, ViewHit, ViewUndecodable, ViewMiss, UpdateLoad
<1> QED
  BY <1>2, <1>3, <1>4, <1>5, <1>6
     DEF Next, Proceed, vars, ViewLoad, ViewNotFound, Respond, UpdateCommit,
         UpdateRejected, UpdateProject, CreateIncident, Evict, Tick

LEMMA NextDelayedFit == Inv /\ [Next]_vars => DelayedFit'
<1> SUFFICES ASSUME Inv, [Next]_vars, NEW h \in Handlers,
                    NEW o \in Orgs, NEW i \in Incidents,
                    delayed'[h] # None, delayed'[h].op = "setex",
                    delayed'[h].key = <<o, i>>
             PROVE  Fits(delayed[h].payload, o, i)'
  BY DEF DelayedFit
<1>1. TypeOK /\ TypeOK'
  BY NextType DEF Inv
<1>2. PICK p \in Payload : p = delayed'[h].payload
  BY <1>1 DEF TypeOK, Command
<1>3. Fits(p, o, i)
  <2>1. CASE delayed'[h] = delayed[h]
    BY <1>2, <2>1 DEF Inv, DelayedFit
  <2>2. CASE /\ pc[h] = "store"
             /\ delayed'[h].key = <<org[h], target[h]>>
             /\ delayed'[h].payload = payload[h]
    <3>1. o = org[h] /\ i = target[h] /\ p = payload[h] /\ p # None
      BY <1>2, <2>2
    <3> QED
      BY <3>1 DEF Inv, HandlersFit
  <2> QED
    BY <1>1, <2>1, <2>2, DelayedSources
<1>4. Fits(p, o, i)'
  BY <1>1, <1>3, FitsStable
<1> QED
  BY <1>2, <1>4 DEF Fits, SupersededAt

\* What a handler works on was there before, is a hit, or is just loaded; and
\* only a request for a row of its own organization reaches the commit.
LEMMA HandlerSources ==
    ASSUME Inv, [Next]_vars, NEW h \in Handlers, pc'[h] # "idle"
    PROVE  /\ payload'[h] # None =>
                \/ /\ payload'[h] = payload[h] /\ payload[h] # None
                   /\ org'[h] = org[h] /\ target'[h] = target[h]
                \/ /\ Cached(org'[h], target'[h])
                   /\ payload'[h] = CachedPayload(org'[h], target'[h])
                \/ /\ SelectIncident(org'[h], target'[h]) # None
                   /\ payload'[h] = SerializeIncident(target'[h])
           /\ pc'[h] \in {"commit", "invalidate"} =>
                \/ /\ pc[h] \in {"commit", "invalidate"}
                   /\ org'[h] = org[h] /\ target'[h] = target[h]
                \/ SelectIncident(org'[h], target'[h]) # None
<1> USE DEF tables, redis, threads, Start, Goto, Finish
<1>1. TypeOK
  BY DEF Inv
<1>2. ASSUME NEW g \in Handlers, NEW o \in Orgs, NEW i \in Incidents,
             ViewHit(g, o, i)
      PROVE  \/ /\ payload'[h] = payload[h]
                /\ org'[h] = org[h] /\ target'[h] = target[h] /\ pc'[h] = pc[h]
             \/ /\ Cached(org'[h], target'[h])
                /\ payload'[h] = CachedPayload(org'[h], target'[h])
                /\ pc'[h] = "respond"
  BY <1>1, <1>2 DEF TypeOK, ViewHit, Cached, CachedPayload
<1>3. ASSUME NEW g \in Handlers, NEW o \in Orgs, NEW i \in Incidents,
             ViewUndecodable(g, o, i) \/ ViewMiss(g, o, i)
      PROVE  \/ /\ payload'[h] = payload[h]
                /\ org'[h] = org[h] /\ target'[h] = target[h] /\ pc'[h] = pc[h]
             \/ payload'[h] = None /\ pc'[h] \notin {"commit", "invalidate"}
  BY <1>1, <1>3 DEF TypeOK, ViewUndecodable, ViewMiss
<1>4. ASSUME NEW g \in Handlers, NEW o \in Orgs, NEW i \in Incidents,
             UpdateLoad(g, o, i)
      PROVE  \/ /\ payload'[h] = payload[h]
                /\ org'[h] = org[h] /\ target'[h] = target[h] /\ pc'[h] = pc[h]
             \/ payload'[h] = None /\ SelectIncident(org'[h], target'[h]) # None
  BY <1>1, <1>4 DEF TypeOK, UpdateLoad
<1>5. ASSUME NEW g \in Handlers, ViewLoad(g)
      PROVE  /\ org'[h] = org[h] /\ target'[h] = target[h]
             /\ \/ payload'[h] = payload[h] /\ pc'[h] = pc[h]
                \/ /\ SelectIncident(org'[h], target'[h]) # None
                   /\ payload'[h] = SerializeIncident(target'[h])
                   /\ pc'[h] = "store"
  BY <1>1, <1>5 DEF TypeOK, ViewLoad
<1>6. ASSUME NEW g \in Handlers,
             ViewDiscard(g) \/ ViewStore(g) \/ UpdateCommit(g)
      PROVE  /\ payload'[h] = payload[h]
             /\ org'[h] = org[h] /\ target'[h] = target[h]
             /\ pc'[h] \in {"commit", "invalidate"} =>
                    pc[h] \in {"commit", "invalidate"}
  BY <1>1, <1>6 DEF TypeOK, ViewDiscard, ViewStore, UpdateCommit
<1>7. ASSUME NEW g \in Handlers,
             \/ ViewNotFound(g) \/ Respond(g) \/ UpdateRejected(g)
             \/ UpdateInvalidate(g) \/ Crash(g)
      PROVE  /\ payload'[h] = payload[h] /\ pc'[h] = pc[h]
             /\ org'[h] = org[h] /\ target'[h] = target[h]
  BY <1>1, <1>7
     DEF TypeOK, ViewNotFound, Respond, UpdateRejected, UpdateInvalidate, Crash
<1>8. CASE UNCHANGED threads
  BY <1>8
<1>9. CASE \/ \E g \in Handlers : Deliver(g)
           \/ \E p \in Projects : UpdateProject(p)
           \/ \E o \in Orgs, p \in Projects, i \in Incidents :
                 CreateIncident(o, p, i)
           \/ \E k \in Keys : Evict(k)
           \/ Tick \/ UNCHANGED vars
  BY <1>8, <1>9 DEF Deliver, DeliverSet, DeliverDelete, LoseCommand,
                    UpdateProject, CreateIncident, Evict, Tick, vars
<1> QED
  BY <1>2, <1>3, <1>4, <1>5, <1>6, <1>7, <1>9 DEF Next, Request, Proceed

LEMMA NextHandlersFit == Inv /\ [Next]_vars => HandlersFit'
<1> SUFFICES ASSUME Inv, [Next]_vars, NEW h \in Handlers
             PROVE  /\ payload'[h] # None =>
                           Fits(payload[h], org[h], target[h])'
                    /\ pc'[h] \in {"commit", "invalidate"} =>
                           Owns(org[h], target[h])'
  BY DEF HandlersFit
<1>1. TypeOK /\ TypeOK'
  BY NextType DEF Inv
<1>2. CASE pc'[h] = "idle"
  BY <1>1, <1>2 DEF TypeOK
<1>3. CASE pc'[h] # "idle"
  <2>1. PICK o \in Orgs, i \in Incidents : o = org'[h] /\ i = target'[h]
    BY <1>1, <1>3 DEF TypeOK
  <2>2. ASSUME payload'[h] # None
        PROVE  Fits(payload[h], org[h], target[h])'
    <3>1. PICK p \in Payload : p = payload'[h]
      BY <1>1, <2>2 DEF TypeOK
    <3>2. Fits(p, o, i)
      <4>1. CASE /\ p = payload[h] /\ payload[h] # None
                 /\ o = org[h] /\ i = target[h]
        BY <4>1 DEF Inv, HandlersFit
      <4>2. CASE Cached(o, i) /\ p = CachedPayload(o, i)
        BY <4>2 DEF Inv, CacheFit
      <4>3. CASE SelectIncident(o, i) # None /\ p = SerializeIncident(i)
        BY <1>1, <4>3, LoadedFits
      <4> QED
        BY <1>3, <2>1, <2>2, <3>1, <4>1, <4>2, <4>3, HandlerSources
    <3>3. Fits(p, o, i)'
      BY <1>1, <3>2, FitsStable
    <3> QED
      BY <2>1, <3>1, <3>3 DEF Fits, Owns, SupersededAt
  <2>3. ASSUME pc'[h] \in {"commit", "invalidate"}
        PROVE  Owns(org[h], target[h])'
    <3>1. Owns(o, i)
      <4>1. CASE SelectIncident(o, i) # None
        BY <4>1 DEF SelectIncident, Owns
      <4>2. CASE /\ pc[h] \in {"commit", "invalidate"}
                 /\ o = org[h] /\ i = target[h]
        BY <4>2 DEF Inv, HandlersFit
      <4> QED
        BY <1>3, <2>1, <2>3, <4>1, <4>2, HandlerSources
    <3>2. Owns(o, i)'
      BY <1>1, <3>1, OwnsStable
    <3> QED
      BY <2>1, <3>2 DEF Owns
  <2> QED
    BY <2>2, <2>3
<1> QED
  BY <1>2, <1>3

LEMMA InitInv == Init => Inv
<1> SUFFICES ASSUME Init PROVE Inv
  OBVIOUS
<1>1. HandlersFit /\ DelayedFit
  BY DEF Init, HandlersFit, DelayedFit
<1>2. \A o \in Orgs, i \in Incidents : ~Cached(o, i)
  BY DEF Init, Leftover, Cached, IncidentKey, Keys
<1> QED
  BY <1>1, <1>2, InitType DEF Inv, CacheFit

LEMMA NextInv == Inv /\ [Next]_vars => Inv'
BY NextType, NextHandlersFit, NextDelayedFit, NextCacheFit DEF Inv

THEOREM Invariance == Spec => []Inv
BY InitInv, NextInv, PTL DEF Spec

----------------------------------------------------------------------------
(* The safety properties                                                   *)

\* Nobody is ever served another tenant's incident, or a missing one.
THEOREM TenantIsolationHolds == Spec => []TenantIsolation
<1>1. Inv => TenantIsolation
  BY DEF Inv, HandlersFit, CacheFit, TenantIsolation, Fits
<1> QED
  BY <1>1, Invariance, PTL

\* Whatever goes wrong, what a lookup can hit was superseded less than TTL
\* ticks ago, plus what its reader took between loading and storing it.
THEOREM StalenessBoundHolds == Spec => []StalenessBound
<1>1. Inv => StalenessBound
  <2> SUFFICES ASSUME Inv, NEW o \in Orgs, NEW i \in Incidents, Cached(o, i),
                      NEW t \in SupersededAt(CachedPayload(o, i))
               PROVE  clock - t < TTL + (cache[<<o, i>>].stored
                                           - CachedPayload(o, i).loaded)
    BY DEF StalenessBound, CachedPayload, IncidentKey
  <2> DEFINE e == cache[<<o, i>>]
             p == CachedPayload(o, i)
  <2>1. e \in Entry /\ p \in Payload /\ Fits(p, o, i)
    BY DEF Inv, TypeOK, CacheFit, Cached, CachedPayload, IncidentKey, Keys, Fits
  <2>2. e.ttl \in 1..TTL /\ e.stored \in Int /\ p.loaded \in Int
    BY <2>1 DEF Entry, Payload, Times
  <2>3. clock \in Int /\ clock <= e.stored + (TTL - e.ttl)
    BY DEF Inv, TypeOK, CacheFit, Times
  <2>4. p.loaded <= t
    BY <2>1 DEF Fits
  <2>5. t \in Int
    <3>1. incident[p.id] \in IncidentRow
      BY <2>1 DEF Inv, TypeOK, Fits, Owns
    <3>2. /\ incidentAt[p.id] \in [Versions -> Times]
          /\ nameAt[incident[p.id].project] \in [Versions -> Times]
      BY <2>1, <3>1 DEF Inv, TypeOK, Fits, IncidentRow, Payload
    <3> QED
      BY <3>2 DEF SupersededAt, Times
  <2> HIDE DEF e, p
  <2> QED
    BY <2>2, <2>3, <2>4, <2>5 DEF e, p
<1> QED
  BY <1>1, Invariance, PTL

\* A step leaves a pending invalidation pending until it has done its work.
LEMMA NextInvalidationPending ==
    Inv /\ InvalidationPending /\ [Next]_vars => InvalidationPending'
<1> SUFFICES ASSUME Inv, InvalidationPending, [Next]_vars,
                    NEW o \in Orgs, NEW i \in Incidents,
                    cache'[<<o, i>>] # None,
                    cache'[<<o, i>>].payload # Undecodable,
                    ~cache'[<<o, i>>].escaped,
                    cache'[<<o, i>>].payload.version # incident'[i].version
             PROVE  \E h \in Handlers :
                       pc'[h] = "invalidate" /\ org'[h] = o /\ target'[h] = i
  BY DEF InvalidationPending, Cached, CachedPayload, IncidentKey
<1> DEFINE e == cache[<<o, i>>]
           f == cache'[<<o, i>>]
<1> USE DEF tables, redis, threads
<1>0. TypeOK /\ <<o, i>> \in Keys
  BY DEF Inv, Keys
<1>1. ASSUME NEW p \in Payload, Fits(p, o, i), f = StoredEntry(p),
             UNCHANGED <<tables, clock>>
      PROVE  FALSE
  <2>1. /\ StoredEntry(p).payload = p
        /\ StoredEntry(p).escaped = (p.version # incident[p.id].version)
    BY Zenon DEF StoredEntry
  <2>2. p.id = i /\ incident' = incident
    BY <1>1 DEF Fits
  <2>3. f.payload = p /\ f.escaped = (p.version # incident[i].version)
    BY <1>1, <2>1, <2>2
  <2>4. p.version = incident[i].version
    BY <2>3
  <2> QED
    BY <2>2, <2>3, <2>4
<1>2. CASE e # None /\ e.payload = f.payload /\ (e.escaped => f.escaped)
  <2>1. Cached(o, i) /\ CachedPayload(o, i) = f.payload
    BY <1>2 DEF Cached, CachedPayload, IncidentKey
  <2>2. Owns(o, i)
    BY <2>1 DEF Inv, CacheFit, Fits
  <2>3. CASE incident'[i].version # incident[i].version
    <3>1. incident' # incident
      BY <2>3
    <3>2. PICK h \in Handlers : UpdateCommit(h)
      BY <2>2, <2>3, <3>1, TableWriters
         DEF UpdateProject, CreateIncident, Tick, Owns, TypeOK, Inv
    <3>3. target[h] = i
      BY <1>0, <2>3, <3>1, <3>2 DEF UpdateCommit, TypeOK
    <3>4. org[h] = o
      BY <2>2, <3>2, <3>3 DEF Inv, HandlersFit, Owns, UpdateCommit
    <3> QED
      BY <1>0, <3>2, <3>3, <3>4 DEF UpdateCommit, Goto, TypeOK
  <2>4. CASE incident'[i].version = incident[i].version
    <3>1. PICK h \in Handlers :
             pc[h] = "invalidate" /\ org[h] = o /\ target[h] = i
      BY <1>2, <2>1, <2>4 DEF InvalidationPending, IncidentKey
    <3>2. ~UpdateInvalidate(h) /\ ~Crash(h)
      <4>1. ~ApplyDelete(<<o, i>>)
        BY <1>0 DEF ApplyDelete, TypeOK
      <4>2. ~LoseDelete(<<o, i>>)
        BY <1>0, LoseDeleteEffect
      <4> QED
        BY <3>1, <4>1, <4>2
           DEF UpdateInvalidate, CacheInvalidate, Crash, IncidentKey
    <3>3. pc'[h] = pc[h] /\ org'[h] = org[h] /\ target'[h] = target[h]
      <4> USE <1>0 DEF TypeOK, Start, Goto, Finish
      <4>1. ASSUME NEW g \in Handlers, Request(g)
            PROVE  pc'[h] = pc[h] /\ org'[h] = org[h] /\ target'[h] = target[h]
        BY <3>1, <4>1 DEF Request, ViewHit, ViewUndecodable, ViewMiss, UpdateLoad
      <4>2. ASSUME NEW g \in Handlers,
                   \/ ViewDiscard(g) \/ ViewLoad(g) \/ ViewNotFound(g)
                   \/ ViewStore(g) \/ Respond(g)
            PROVE  pc'[h] = pc[h] /\ org'[h] = org[h] /\ target'[h] = target[h]
        BY <3>1, <4>2
           DEF ViewDiscard, ViewLoad, ViewNotFound, ViewStore, Respond
      <4>3. ASSUME NEW g \in Handlers,
                   UpdateCommit(g) \/ UpdateRejected(g) \/ UpdateInvalidate(g)
            PROVE  pc'[h] = pc[h] /\ org'[h] = org[h] /\ target'[h] = target[h]
        BY <3>1, <3>2, <4>3 DEF UpdateCommit, UpdateRejected, UpdateInvalidate
      <4>4. ASSUME NEW g \in Handlers, Crash(g)
            PROVE  pc'[h] = pc[h] /\ org'[h] = org[h] /\ target'[h] = target[h]
        BY <3>2, <4>4 DEF Crash
      <4> QED
        BY <4>1, <4>2, <4>3, <4>4
           DEF Next, Proceed, Deliver, vars, DeliverSet, DeliverDelete,
               LoseCommand, UpdateProject, CreateIncident, Evict, Tick
    <3> QED
      BY <3>1, <3>3
  <2> QED
    BY <2>3, <2>4
<1>3. ASSUME Tick
      PROVE  e # None /\ e.payload = f.payload /\ (e.escaped => f.escaped)
  <2>1. f = Aged(e)
    BY <1>0, <1>3 DEF Tick
  <2>2. e # None /\ f = [e EXCEPT !.ttl = e.ttl - 1]
    BY <2>1 DEF Aged
  <2>3. e \in Entry
    BY <1>0, <2>2 DEF TypeOK
  <2> QED
    BY <2>2, <2>3 DEF Entry
<1> QED
  BY <1>1, <1>2, <1>3, CacheSources DEF SameEntry

\* Deleting the key after the commit works, whatever the interleaving: what
\* was current when stored is deleted once it no longer is, unless the DEL
\* itself is lost.
THEOREM InvalidationPendingHolds == Spec => []InvalidationPending
<1>1. Init => InvalidationPending
  BY DEF Init, InvalidationPending, Leftover, Cached, IncidentKey, Keys
<1> QED
  BY <1>1, Invariance, NextInvalidationPending, PTL DEF Spec

=============================================================================
