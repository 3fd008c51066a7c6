------------------------ MODULE IncidentPage_proofs ------------------------
(***************************************************************************)
(* What the page of an incident shows, for any number of handlers, tenants *)
(* and incidents, any TTL and any set of faults: its requests are requests *)
(* of IncidentCache, so that the invariants of that module hold here too.  *)
(***************************************************************************)
EXTENDS IncidentPage, IncidentCache_proofs

USE TTLAssumption, ProjectOrgAssumption, FaultsAssumption, BoundsAssumption, NoneAssumption,
    PageAssumption

----------------------------------------------------------------------------
(* The page is one of the clients of IncidentCache                         *)

LEMMA PageSteps == [PageNext]_pageVars => [Next]_vars
<1> SUFFICES ASSUME [PageNext]_pageVars PROVE [Next]_vars
  OBVIOUS
<1>1. ASSUME NEW h \in Handlers, ServeGet(h) \/ ServePut(h) PROVE Request(h)
  BY <1>1 DEF ServeGet, ServePut, Request
<1>2. CASE \E h \in Handlers : ServeGet(h) \/ ServePut(h)
  BY <1>1, <1>2 DEF Next
<1>3. CASE \E h \in Handlers : Middle(h) \/ Commit(h) \/ Done(h)
  BY <1>3 DEF Next, Proceed, Middle, Commit, Done
<1>4. CASE Others
  BY <1>4 DEF Next, Others
<1>5. CASE ChangeStatus \/ Render \/ PutFails \/ GetFails
  BY <1>5 DEF ChangeStatus, Render, PutFails, GetFails
<1>6. CASE UNCHANGED pageVars
  BY <1>6 DEF pageVars
<1> QED
  BY <1>2, <1>3, <1>4, <1>5, <1>6 DEF PageNext

\* The page adds a client to IncidentCache, and nothing else: whatever is true
\* of the requests, the tables and the cache there is true here.
THEOREM PageIsAClient == PageSpec => Spec
<1>1. PageInit => Init
  BY DEF PageInit
<1> QED
  BY <1>1, PageSteps, PTL DEF PageSpec, Spec

----------------------------------------------------------------------------
(* The inductive invariant                                                 *)

Served(op) == Calling(op, "served")

\* The handler that serves the page runs the request the page has made.
CallFit ==
    call # None /\ call.step = "served" =>
        /\ org[call.by] = Me /\ target[call.by] = Here
        /\ call.op = "get" => pc[call.by] \in {"discard", "load", "store", "respond"}
        /\ call.op = "put" => call.by \in puts /\ call.version \in Versions

PutsFit == \A h \in puts : org[h] = Me /\ target[h] = Here

\* What the page has made is in the table, whatever came after it.
MineFit ==
    /\ mine # 0 => incident[Here] # None
    /\ incident[Here] # None => mine <= incident[Here].version

\* An entry from before an update of this page has its DEL ahead of it, or has
\* lost it.
OwedFit ==
    /\ Cached(Me, Here)
    /\ ~cache[IncidentKey(Me, Here)].escaped
    /\ CachedPayload(Me, Here).version < mine
    => \E h \in puts : pc[h] = "invalidate"

\* The versions of the incident were committed one after the other.
TimesFit ==
    incident[Here] # None => \A v \in Versions : v <= incident[Here].version =>
        /\ incidentAt[Here][v] <= clock
        /\ \A w \in Versions : w <= v => incidentAt[Here][w] <= incidentAt[Here][v]

\* Without an excuse no PUT of the page runs beside its request, and the answer
\* under way knows the last update.
AnswerFit == ~excused =>
    /\ Served("get") => puts = {}
    /\ Served("get") /\ payload[call.by] # None => payload[call.by].version >= mine
    /\ Served("put") => puts = {call.by} /\ call.version >= mine
    /\ call # None /\ call.step = "ok" => puts = {} /\ call.version >= mine
    /\ control = "enabled" => puts = {} /\ shown >= mine

PageInv ==
    /\ Inv /\ PageTypeOK /\ ControlReturns
    /\ CallFit /\ PutsFit /\ MineFit /\ OwedFit /\ TimesFit /\ AnswerFit

----------------------------------------------------------------------------
(* What the steps do to the threads                                        *)

SameThread(g) ==
    pc'[g] = pc[g] /\ org'[g] = org[g] /\ target'[g] = target[g] /\ payload'[g] = payload[g]

LEMMA GetStarts ==
    ASSUME TypeOK, NEW h \in Handlers, ServeGet(h)
    PROVE  /\ pc[h] = "idle" /\ org'[h] = Me /\ target'[h] = Here
           /\ pc'[h] \in {"discard", "load", "respond"}
           /\ payload'[h] # None =>
                 Cached(Me, Here) /\ payload'[h] = CachedPayload(Me, Here)
           /\ \A g \in Handlers \ {h} : SameThread(g)
           /\ UNCHANGED <<tables, clock>>
  BY DEF ServeGet, ViewHit, ViewMiss, ViewUndecodable, Start, Goto, TypeOK, SameThread,
         Cached, CachedPayload

LEMMA PutStarts ==
    ASSUME TypeOK, NEW h \in Handlers, ServePut(h)
    PROVE  /\ pc[h] = "idle" /\ org'[h] = Me /\ target'[h] = Here /\ pc'[h] = "commit"
           /\ incident[Here] # None
           /\ \A g \in Handlers \ {h} : SameThread(g)
           /\ UNCHANGED <<tables, clock>>
  BY DEF ServePut, UpdateLoad, SelectIncident, Start, Goto, TypeOK, SameThread

LEMMA MiddleSteps ==
    ASSUME TypeOK, NEW h \in Handlers, Middle(h)
    PROVE  /\ pc[h] \in {"discard", "load", "store"}
           /\ pc'[h] \in {"load", "store", "respond"}
           /\ org'[h] = org[h] /\ target'[h] = target[h]
           /\ payload'[h] # None =>
                 \/ payload'[h] = payload[h]
                 \/ /\ incident[target[h]] # None
                    /\ payload'[h].version = incident[target[h]].version
           /\ \A g \in Handlers \ {h} : SameThread(g)
           /\ UNCHANGED <<tables, clock>>
<1>1. CASE ViewDiscard(h)
  BY <1>1 DEF ViewDiscard, Goto, TypeOK, SameThread
<1>2. CASE ViewLoad(h)
  <2>1. SerializeIncident(target[h]).version = incident[target[h]].version
    BY DEF SerializeIncident
  <2> QED
    BY <1>2, <2>1 DEF ViewLoad, SelectIncident, Goto, TypeOK, SameThread
<1>3. CASE ViewStore(h)
  BY <1>3 DEF ViewStore, Goto, TypeOK, SameThread
<1> QED
  BY <1>1, <1>2, <1>3 DEF Middle

LEMMA CommitSteps ==
    ASSUME TypeOK, NEW h \in Handlers, Commit(h)
    PROVE  /\ pc[h] = "commit" /\ pc'[h] = "invalidate"
           /\ org'[h] = org[h] /\ target'[h] = target[h]
           /\ \A g \in Handlers \ {h} : SameThread(g)
           /\ incident' # incident =>
                 /\ incident'[target[h]].version = incident[target[h]].version + 1
                 /\ incident'[target[h]].version \in Versions
                 /\ incident[target[h]].version \in Versions
<1>1. pc[h] = "commit" /\ target[h] \in Incidents /\ incident[target[h]] \in IncidentRow
  BY DEF Commit, UpdateCommit, TypeOK
<1>2. incident[target[h]].version \in Versions
  BY <1>1 DEF IncidentRow
<1>3. incident' # incident =>
        /\ incident'[target[h]].version = incident[target[h]].version + 1
        /\ incident'[target[h]].version \in Versions
  <2> SUFFICES ASSUME incident' # incident
               PROVE  /\ incident'[target[h]].version = incident[target[h]].version + 1
                      /\ incident'[target[h]].version \in Versions
    OBVIOUS
  <2> DEFINE row == incident[target[h]]
             newRow == [row EXCEPT !.version = row.version + 1]
  <2>1. row.version < MaxVersion /\ incident' = [incident EXCEPT ![target[h]] = newRow]
    BY DEF Commit, UpdateCommit
  <2>2. newRow.version = row.version + 1
    BY <1>1 DEF IncidentRow
  <2>3. row.version + 1 \in Versions
    BY <1>2, <2>1 DEF Versions
  <2> HIDE DEF newRow
  <2>4. incident'[target[h]] = newRow
    BY <1>1, <2>1 DEF TypeOK
  <2> QED
    BY <2>2, <2>3, <2>4
<1> QED
  BY <1>1, <1>2, <1>3 DEF Commit, UpdateCommit, Goto, TypeOK, SameThread

LEMMA DoneSteps ==
    ASSUME TypeOK, NEW h \in Handlers, Done(h)
    PROVE  /\ pc[h] # "idle"
           /\ \A g \in Handlers \ {h} : SameThread(g)
           /\ UNCHANGED <<tables, clock>>
  BY DEF Done, Respond, UpdateInvalidate, ViewNotFound, UpdateRejected, Crash, Finish, Goto,
         TypeOK, SameThread

\* Other requests begin at idle handlers, and the environment touches none.
LEMMA OtherSteps ==
    ASSUME TypeOK, Others, NEW g \in Handlers, pc[g] # "idle"
    PROVE  SameThread(g)
<1>1. ASSUME NEW h \in Handlers, Request(h) PROVE SameThread(g)
  BY <1>1 DEF Request, ViewHit, ViewMiss, ViewUndecodable, UpdateLoad, Start, Goto, TypeOK,
              SameThread
<1>2. CASE UNCHANGED threads
  BY <1>2 DEF threads, SameThread
<1> QED
  BY <1>1, <1>2 DEF Others, Deliver, DeliverSet, DeliverDelete, LoseCommand, UpdateProject,
                    CreateIncident, Evict, Tick

----------------------------------------------------------------------------
(* The page's part of the invariant, one step at a time                    *)

PageFit ==
    PageTypeOK /\ ControlReturns /\ CallFit /\ PutsFit /\ MineFit /\ AnswerFit

\* An entry from before the last update of the page is younger than the TTL and
\* what its reader took, counted from that update.
LEMMA StaleEntryRecent ==
    ASSUME PageInv, Cached(Me, Here), CachedPayload(Me, Here).version < mine
    PROVE  LET e == cache[IncidentKey(Me, Here)] IN
           clock - incidentAt[Here][mine] < TTL + (e.stored - e.payload.loaded)
<1> DEFINE e == cache[<<Me, Here>>]
           p == CachedPayload(Me, Here)
           at == incidentAt[Here]
<1>1. /\ e \in Entry /\ p \in Payload /\ Fits(p, Me, Here) /\ p = e.payload
      /\ clock <= e.stored + (TTL - e.ttl)
  BY DEF PageInv, Inv, TypeOK, CacheFit, Cached, CachedPayload, IncidentKey, Keys, Fits
<1>2. /\ e.ttl \in 1..TTL /\ e.stored \in Int /\ p.loaded \in Int /\ clock \in Int
      /\ p.version \in Versions /\ mine \in Versions /\ at \in [Versions -> Int]
  BY <1>1 DEF PageInv, Inv, TypeOK, PageTypeOK, Entry, Payload, Times
<1>3. incident[Here] # None /\ p.id = Here
  BY <1>1 DEF Fits, Owns
<1>4. incident[Here].version \in Versions /\ mine <= incident[Here].version
  BY <1>3 DEF PageInv, Inv, TypeOK, IncidentRow, MineFit
<1>5. /\ p.version + 1 \in Versions /\ p.version + 1 <= mine
      /\ p.version + 1 <= incident[Here].version
  <2>1. p.version \in 0..MaxVersion /\ mine \in 0..MaxVersion /\ p.version < mine
    BY <1>2 DEF Versions
  <2>2. incident[Here].version \in 0..MaxVersion /\ mine <= incident[Here].version
    BY <1>4 DEF Versions
  <2> HIDE DEF p
  <2>3. /\ p.version + 1 \in 0..MaxVersion /\ p.version + 1 <= mine
        /\ p.version + 1 <= incident[Here].version
    BY <2>1, <2>2
  <2> QED
    BY <2>3 DEF Versions
<1>6. p.loaded <= at[p.version + 1]
  <2>1. at[p.version + 1] \in SupersededAt(p)
    BY <1>3, <1>5 DEF SupersededAt
  <2> QED
    BY <1>1, <2>1 DEF Fits
<1>7. at[p.version + 1] <= at[mine]
  BY <1>2, <1>3, <1>4, <1>5 DEF PageInv, TimesFit
<1>8. /\ at[p.version + 1] \in Int /\ at[mine] \in Int
  BY <1>2, <1>5
<1> HIDE DEF at, p
<1>9. clock - at[mine] < TTL + (e.stored - p.loaded)
  BY <1>1, <1>2, <1>6, <1>7, <1>8
<1> QED
  BY <1>1, <1>9 DEF at, IncidentKey

LEMMA ServeGetFit ==
    ASSUME PageInv, NEW h \in Handlers, ServeGet(h)
    PROVE  PageFit'
<1>1. TypeOK /\ PageTypeOK /\ PutsFit /\ MineFit /\ OwedFit
  BY DEF PageInv, Inv
<1>2. /\ pc[h] = "idle" /\ org'[h] = Me /\ target'[h] = Here
      /\ pc'[h] \in {"discard", "load", "respond"}
      /\ payload'[h] # None =>
            Cached(Me, Here) /\ payload'[h] = CachedPayload(Me, Here)
      /\ \A g \in Handlers \ {h} : SameThread(g)
      /\ incident' = incident
  BY <1>1, GetStarts DEF tables
<1>3. /\ call # None /\ call \in PageRequest /\ call.op = "get"
      /\ call' = [call EXCEPT !.by = h, !.step = "served"]
      /\ UNCHANGED <<control, shown, puts, mine>>
  BY <1>1 DEF ServeGet, Calling, PageTypeOK
<1>4. /\ call' \in PageRequest /\ call'.op = "get" /\ call'.by = h /\ call'.step = "served"
      /\ call' # None
  <2> DEFINE c == [call EXCEPT !.by = h, !.step = "served"]
  <2>1. c \in PageRequest /\ c.op = "get" /\ c.by = h /\ c.step = "served"
    BY <1>3 DEF PageRequest
  <2>2. call' = c
    BY <1>3
  <2> HIDE DEF c
  <2> QED
    BY <2>1, <2>2
<1>5. h \notin puts /\ control # "enabled"
  BY <1>1, <1>2, <1>3 DEF PageTypeOK
<1>6. excused' \in BOOLEAN /\ (~excused' => puts = {})
  BY Zenon DEF ServeGet
<1>7. ~excused' /\ payload'[h] # None => ~HidesUpdate(cache[IncidentKey(Me, Here)])
  <2>1. CASE /\ ViewHit(h, Me, Here)
             /\ excused' = (puts # {} \/ HidesUpdate(cache[IncidentKey(Me, Here)]))
    BY <2>1, Zenon
  <2>2. CASE ViewMiss(h, Me, Here) \/ ViewUndecodable(h, Me, Here)
    BY <1>1, <1>2, <2>2 DEF ViewMiss, ViewUndecodable, TypeOK
  <2> QED
    BY <2>1, <2>2 DEF ServeGet
<1>8. PageTypeOK'
  <2>1. ASSUME NEW g \in puts PROVE g \in Handlers /\ pc'[g] \in {"commit", "invalidate"}
    BY <1>1, <1>2, <1>5, <2>1 DEF PageTypeOK, SameThread
  <2> QED
    BY <1>1, <1>3, <1>4, <1>5, <1>6, <2>1 DEF PageTypeOK
<1>9. ControlReturns' /\ CallFit'
  BY <1>2, <1>4 DEF ControlReturns, CallFit
<1>10. PutsFit' /\ MineFit'
  BY <1>1, <1>2, <1>3, <1>5 DEF PutsFit, MineFit, SameThread, PageTypeOK
<1>11. ASSUME ~excused', payload'[h] # None PROVE payload'[h].version >= mine
  <2>1. Cached(Me, Here) /\ puts = {} /\ ~HidesUpdate(cache[IncidentKey(Me, Here)])
    BY <1>2, <1>6, <1>7, <1>11
  <2>2. ~(CachedPayload(Me, Here).version < mine)
    <3>1. CASE cache[IncidentKey(Me, Here)].escaped
      BY <2>1, <3>1, StaleEntryRecent DEF HidesUpdate
    <3>2. CASE ~cache[IncidentKey(Me, Here)].escaped
      BY <1>1, <2>1, <3>2 DEF OwedFit
    <3> QED
      BY <3>1, <3>2
  <2>3. CachedPayload(Me, Here).version \in Versions
    BY <1>1, <2>1 DEF Cached, CachedPayload, TypeOK, Entry, Payload, IncidentKey, Keys
  <2> QED
    BY <1>1, <1>2, <1>11, <2>2, <2>3 DEF PageTypeOK, Versions
<1>12. AnswerFit'
  BY <1>3, <1>4, <1>5, <1>6, <1>11 DEF AnswerFit, Served, Calling
<1> QED
  BY <1>8, <1>9, <1>10, <1>12 DEF PageFit

LEMMA ServePutFit ==
    ASSUME PageInv, NEW h \in Handlers, ServePut(h)
    PROVE  PageFit'
<1>1. TypeOK /\ PageTypeOK /\ PutsFit /\ MineFit
  BY DEF PageInv, Inv
<1>2. /\ pc[h] = "idle" /\ org'[h] = Me /\ target'[h] = Here /\ pc'[h] = "commit"
      /\ incident[Here] # None
      /\ \A g \in Handlers \ {h} : SameThread(g)
      /\ incident' = incident
  BY <1>1, PutStarts DEF tables
<1>3. incident[Here].version \in Versions
  BY <1>1, <1>2 DEF TypeOK, IncidentRow
<1>4. /\ call # None /\ call \in PageRequest /\ call.op = "put"
      /\ call' = [call EXCEPT !.by = h, !.step = "served", !.version = incident[Here].version]
      /\ puts' = puts \cup {h}
      /\ UNCHANGED <<control, shown, mine>>
  BY <1>1 DEF ServePut, Calling, PageTypeOK
<1>5. /\ call' \in PageRequest /\ call'.op = "put" /\ call'.by = h /\ call'.step = "served"
      /\ call' # None /\ call'.version = incident[Here].version
  <2> DEFINE c == [call EXCEPT !.by = h, !.step = "served", !.version = incident[Here].version]
  <2>1. /\ c \in PageRequest /\ c.op = "put" /\ c.by = h /\ c.step = "served"
        /\ c.version = incident[Here].version
    BY <1>3, <1>4 DEF PageRequest
  <2>2. call' = c
    BY <1>4
  <2> HIDE DEF c
  <2> QED
    BY <2>1, <2>2
<1>6. h \notin puts /\ control # "enabled"
  BY <1>1, <1>2, <1>4 DEF PageTypeOK
<1>7. excused' \in BOOLEAN /\ (~excused' => puts = {})
  BY Zenon DEF ServePut
<1>8. PageTypeOK'
  <2>1. ASSUME NEW g \in puts' PROVE g \in Handlers /\ pc'[g] \in {"commit", "invalidate"}
    BY <1>1, <1>2, <1>4, <2>1 DEF PageTypeOK, SameThread
  <2> QED
    BY <1>1, <1>3, <1>4, <1>5, <1>6, <1>7, <2>1 DEF PageTypeOK
<1>9. ControlReturns' /\ CallFit'
  BY <1>2, <1>3, <1>4, <1>5 DEF ControlReturns, CallFit
<1>10. PutsFit' /\ MineFit'
  BY <1>1, <1>2, <1>4 DEF PutsFit, MineFit, SameThread, PageTypeOK
<1>11. AnswerFit'
  BY <1>1, <1>2, <1>3, <1>4, <1>5, <1>6, <1>7
     DEF AnswerFit, Served, Calling, MineFit, PageTypeOK, Versions
<1> QED
  BY <1>8, <1>9, <1>10, <1>11 DEF PageFit

LEMMA MiddleFit ==
    ASSUME PageInv, NEW h \in Handlers, Middle(h)
    PROVE  PageFit'
<1>1. TypeOK /\ PageTypeOK /\ ControlReturns /\ CallFit /\ PutsFit /\ MineFit /\ AnswerFit
  BY DEF PageInv, Inv
<1>2. /\ pc[h] \in {"discard", "load", "store"} /\ pc'[h] \in {"load", "store", "respond"}
      /\ org'[h] = org[h] /\ target'[h] = target[h]
      /\ payload'[h] # None =>
            \/ payload'[h] = payload[h]
            \/ /\ incident[target[h]] # None
               /\ payload'[h].version = incident[target[h]].version
      /\ \A g \in Handlers \ {h} : SameThread(g)
      /\ incident' = incident
  BY <1>1, MiddleSteps DEF tables
<1>3. UNCHANGED <<control, shown, call, puts, mine, excused>>
  BY DEF Middle, page, pageHistory
<1>4. h \notin puts
  BY <1>1, <1>2 DEF PageTypeOK
<1>5. ASSUME NEW g \in puts PROVE g \in Handlers /\ g # h /\ SameThread(g)
  BY <1>1, <1>2, <1>4, <1>5 DEF PageTypeOK
<1>6. PageTypeOK' /\ ControlReturns' /\ PutsFit' /\ MineFit'
  BY <1>1, <1>2, <1>3, <1>5 DEF PageTypeOK, ControlReturns, PutsFit, MineFit, SameThread
<1>7. CallFit'
  BY <1>1, <1>2, <1>3, <1>5 DEF PageTypeOK, CallFit, SameThread
<1>8. ASSUME ~excused, Served("get"), payload'[call.by] # None
      PROVE  payload'[call.by].version >= mine
  <2>1. call.by \in Handlers /\ target[call.by] = Here
    BY <1>1, <1>8 DEF Served, Calling, CallFit, PageTypeOK
  <2>2. CASE call.by = h
    BY <1>1, <1>2, <1>8, <2>1, <2>2
       DEF AnswerFit, MineFit, PageTypeOK, TypeOK, IncidentRow, Versions
  <2>3. CASE call.by # h
    BY <1>1, <1>2, <1>8, <2>1, <2>3 DEF AnswerFit, SameThread
  <2> QED
    BY <2>2, <2>3
<1>9. AnswerFit'
  BY <1>1, <1>3, <1>8 DEF AnswerFit, Served, Calling
<1> QED
  BY <1>6, <1>7, <1>9 DEF PageFit

LEMMA CommitFit ==
    ASSUME PageInv, NEW h \in Handlers, Commit(h)
    PROVE  PageFit'
<1>1. TypeOK /\ PageTypeOK /\ ControlReturns /\ CallFit /\ PutsFit /\ MineFit /\ AnswerFit
  BY DEF PageInv, Inv
<1>2. /\ pc[h] = "commit" /\ pc'[h] = "invalidate"
      /\ org'[h] = org[h] /\ target'[h] = target[h]
      /\ \A g \in Handlers \ {h} : SameThread(g)
      /\ incident' # incident =>
            /\ incident'[target[h]].version = incident[target[h]].version + 1
            /\ incident'[target[h]].version \in Versions
            /\ incident[target[h]].version \in Versions
  BY <1>1, CommitSteps
<1>3. /\ mine' = IF h \in puts /\ incident' # incident THEN incident'[Here].version ELSE mine
      /\ call' = IF IsMine(h) /\ incident' # incident
                   THEN [call EXCEPT !.version = incident'[Here].version] ELSE call
      /\ UNCHANGED <<control, shown, puts, excused>>
  BY DEF Commit
<1>4. h \in puts => target[h] = Here
  BY <1>1 DEF PutsFit
<1>5. IsMine(h) => /\ call # None /\ call \in PageRequest /\ call.step = "served"
                   /\ call.op = "put" /\ call.by = h /\ h \in puts
  BY <1>1, <1>2 DEF IsMine, PageTypeOK, CallFit, PageRequest
<1>6. /\ call' = None <=> call = None
      /\ call' # None => /\ call' \in PageRequest
                         /\ call'.op = call.op /\ call'.by = call.by /\ call'.step = call.step
                         /\ call'.version = IF IsMine(h) /\ incident' # incident
                                              THEN incident'[Here].version ELSE call.version
  <2>1. CASE IsMine(h) /\ incident' # incident
    <3> DEFINE c == [call EXCEPT !.version = incident'[Here].version]
    <3>1. incident'[Here].version \in Versions
      BY <1>2, <1>4, <1>5, <2>1
    <3>2. /\ c \in PageRequest /\ c.op = call.op /\ c.by = call.by /\ c.step = call.step
          /\ c.version = incident'[Here].version
      BY <1>5, <2>1, <3>1 DEF PageRequest
    <3>3. call' = c
      BY <1>3, <2>1
    <3> HIDE DEF c
    <3> QED
      BY <1>5, <2>1, <3>2, <3>3
  <2>2. CASE ~(IsMine(h) /\ incident' # incident)
    BY <1>1, <1>3, <2>2 DEF PageTypeOK
  <2> QED
    BY <2>1, <2>2
<1>7. ASSUME NEW g \in puts
      PROVE  /\ g \in Handlers /\ org'[g] = Me /\ target'[g] = Here
             /\ pc'[g] \in {"commit", "invalidate"}
  BY <1>1, <1>2, <1>7 DEF PageTypeOK, PutsFit, SameThread
<1>8. mine' \in Versions
  BY <1>1, <1>2, <1>3, <1>4 DEF PageTypeOK
<1>9. PageTypeOK'
  BY <1>1, <1>2, <1>3, <1>4, <1>5, <1>6, <1>7, <1>8 DEF PageTypeOK
<1>10. ControlReturns' /\ PutsFit'
  BY <1>1, <1>3, <1>6, <1>7 DEF ControlReturns, PutsFit
<1>11. MineFit'
  <2>1. incident[Here] # None => RowStep(Here)
    BY <1>1, RowSteps DEF Next, Proceed, Commit
  <2>2. CASE h \in puts /\ incident' # incident
    <3>1. mine' = incident'[Here].version /\ target[h] = Here
      BY <1>3, <1>4, <2>2
    <3>2. incident[Here] # None
      BY <1>1, <1>2, <3>1 DEF TypeOK
    <3>3. incident'[Here] # None
      BY <2>1, <3>2 DEF RowStep
    <3> QED
      BY <1>8, <3>1, <3>3 DEF MineFit, Versions
  <2>3. CASE ~(h \in puts /\ incident' # incident)
    <3>1. mine' = mine
      BY <1>3, <2>3
    <3>2. CASE incident[Here] # None
      <4>1. incident'[Here] # None /\ incident[Here].version \in Versions
        BY <1>1, <2>1, <3>2 DEF RowStep, TypeOK, IncidentRow
      <4> QED
        BY <1>1, <2>1, <3>1, <3>2, <4>1 DEF MineFit, RowStep, PageTypeOK, Versions
    <3>3. CASE incident[Here] = None
      <4>1. incident'[Here] = None
        BY <1>1, <1>2, <3>3 DEF Commit, UpdateCommit, TypeOK
      <4> QED
        BY <1>1, <3>1, <3>3, <4>1 DEF MineFit
    <3> QED
      BY <3>2, <3>3
  <2> QED
    BY <2>2, <2>3
<1>12. CallFit'
  <2> SUFFICES ASSUME call' # None, call'.step = "served"
               PROVE  /\ org'[call.by] = Me /\ target'[call.by] = Here
                      /\ call.op = "get" =>
                            pc'[call.by] \in {"discard", "load", "store", "respond"}
                      /\ call.op = "put" => call.by \in puts /\ call'.version \in Versions
    BY <1>3, <1>6 DEF CallFit
  <2>1. call # None /\ call.step = "served" /\ call.by \in Handlers
    BY <1>1, <1>6 DEF PageTypeOK
  <2> QED
    BY <1>1, <1>2, <1>4, <1>5, <1>6, <2>1 DEF CallFit, SameThread
<1>13. AnswerFit'
  <2> SUFFICES ASSUME ~excused'
               PROVE  /\ Served("get")' => puts' = {}
                      /\ Served("get")' /\ payload'[call'.by] # None =>
                            payload'[call'.by].version >= mine'
                      /\ Served("put")' => puts' = {call'.by} /\ call'.version >= mine'
                      /\ call' # None /\ call'.step = "ok" => puts' = {} /\ call'.version >= mine'
                      /\ control' = "enabled" => puts' = {} /\ shown' >= mine'
    BY DEF AnswerFit
  <2>1. ASSUME Served("get")'
        PROVE  puts' = {} /\ (payload'[call'.by] # None => payload'[call'.by].version >= mine')
    <3>1. Served("get") /\ call'.by = call.by /\ call.by \in Handlers
      BY <1>1, <1>6, <2>1 DEF Served, Calling, PageTypeOK
    <3>2. puts = {} /\ mine' = mine /\ call.by # h
      BY <1>1, <1>2, <1>3, <3>1 DEF AnswerFit, CallFit, Served, Calling
    <3> QED
      BY <1>1, <1>2, <1>3, <3>1, <3>2 DEF AnswerFit, SameThread
  <2>2. ASSUME Served("put")'
        PROVE  puts' = {call'.by} /\ call'.version >= mine'
    <3>1. Served("put") /\ call'.by = call.by
      BY <1>6, <2>2 DEF Served, Calling
    <3>2. puts = {call.by} /\ call.version >= mine
      BY <1>1, <1>3, <3>1 DEF AnswerFit
    <3>3. IsMine(h) <=> h \in puts
      BY <3>1, <3>2 DEF IsMine, Served, Calling
    <3>4. CASE h \in puts /\ incident' # incident
      <4>1. call'.version = incident'[Here].version /\ mine' = incident'[Here].version
        BY <1>3, <1>6, <2>2, <3>3, <3>4 DEF Served, Calling
      <4> QED
        BY <1>3, <1>8, <3>1, <3>2, <4>1 DEF Versions
    <3>5. CASE ~(h \in puts /\ incident' # incident)
      BY <1>3, <1>6, <2>2, <3>1, <3>2, <3>3, <3>5 DEF Served, Calling
    <3> QED
      BY <3>4, <3>5
  <2>3. ASSUME call' # None, call'.step = "ok"
        PROVE  puts' = {} /\ call'.version >= mine'
    <3>1. call # None /\ call.step = "ok"
      BY <1>6, <2>3
    <3>2. puts = {} /\ call.version >= mine
      BY <1>1, <1>3, <3>1 DEF AnswerFit
    <3> QED
      BY <1>3, <1>5, <1>6, <2>3, <3>1, <3>2
  <2>4. ASSUME control' = "enabled"
        PROVE  puts' = {} /\ shown' >= mine'
    BY <1>1, <1>3, <2>4 DEF AnswerFit
  <2> QED
    BY <2>1, <2>2, <2>3, <2>4
<1> QED
  BY <1>9, <1>10, <1>11, <1>12, <1>13 DEF PageFit

LEMMA DoneFit ==
    ASSUME PageInv, NEW h \in Handlers, Done(h)
    PROVE  PageFit'
<1>1. TypeOK /\ PageTypeOK /\ ControlReturns /\ CallFit /\ PutsFit /\ MineFit /\ AnswerFit
  BY DEF PageInv, Inv
<1>2. /\ \A g \in Handlers \ {h} : SameThread(g)
      /\ incident' = incident
  BY <1>1, DoneSteps DEF tables
<1>3. puts' = puts \ {h} /\ UNCHANGED <<control, shown, mine, excused>>
  BY DEF Done
<1>4. ASSUME NEW g \in puts'
      PROVE  g \in puts /\ g # h /\ g \in Handlers /\ SameThread(g)
  BY <1>1, <1>2, <1>3, <1>4 DEF PageTypeOK
<1>5. PutsFit' /\ MineFit' /\ mine' \in Versions
  BY <1>1, <1>2, <1>3, <1>4 DEF PutsFit, MineFit, SameThread, PageTypeOK
<1>6. puts' \subseteq {g \in Handlers : pc'[g] \in {"commit", "invalidate"}}
  BY <1>1, <1>4 DEF PageTypeOK, SameThread
<1>7. CASE ~IsMine(h)
  <2>1. call' = call
    BY <1>7 DEF Done
  <2>2. PageTypeOK' /\ ControlReturns'
    BY <1>1, <1>3, <1>5, <1>6, <2>1 DEF PageTypeOK, ControlReturns
  <2>3. call # None /\ call.step = "served" =>
           call.by \in Handlers /\ call.by # h /\ SameThread(call.by)
    BY <1>1, <1>2, <1>7 DEF PageTypeOK, IsMine
  <2>4. CallFit'
    BY <1>1, <1>3, <2>1, <2>3 DEF CallFit, SameThread
  <2>5. AnswerFit'
    BY <1>1, <1>3, <2>1, <2>3 DEF AnswerFit, SameThread, Served, Calling
  <2> QED
    BY <1>5, <2>2, <2>4, <2>5 DEF PageFit
<1>8. CASE IsMine(h)
  <2>1. call # None /\ call \in PageRequest /\ call.step = "served" /\ call.by = h
    BY <1>1, <1>8 DEF IsMine, PageTypeOK
  <2>2. control # "enabled"
    BY <1>1, <2>1 DEF PageTypeOK
  <2>3. ASSUME NEW step \in {"ok", "failed"}, NEW v \in Versions \cup {None}, Answered(step, v)
        PROVE  /\ call' # None /\ call' \in PageRequest
               /\ call'.step = step /\ call'.version = v /\ call'.by = None
    <3> DEFINE c == [call EXCEPT !.by = None, !.step = step, !.version = v]
    <3>1. c \in PageRequest /\ c.step = step /\ c.version = v /\ c.by = None
      BY <2>1 DEF PageRequest
    <3>2. call' = c
      BY <2>3 DEF Answered
    <3> HIDE DEF c
    <3> QED
      BY <3>1, <3>2
  <2>4. ASSUME NEW v \in Versions, Answered("ok", v), ~excused => puts' = {} /\ v >= mine
        PROVE  PageFit'
    <3>1. /\ call' # None /\ call' \in PageRequest
          /\ call'.step = "ok" /\ call'.version = v /\ call'.by = None
      BY <2>3, <2>4
    <3>2. PageTypeOK'
      BY <1>1, <1>3, <1>5, <1>6, <2>2, <2>4, <3>1 DEF PageTypeOK
    <3>3. ControlReturns' /\ CallFit'
      BY <3>1 DEF ControlReturns, CallFit
    <3>4. AnswerFit'
      BY <1>3, <2>2, <2>4, <3>1 DEF AnswerFit, Served, Calling
    <3> QED
      BY <1>5, <3>2, <3>3, <3>4 DEF PageFit
  <2>5. CASE Respond(h) /\ Answered("ok", payload[h].version)
    <3>1. pc[h] = "respond" /\ payload[h] # None /\ payload[h] \in Payload
      BY <1>1, <2>5 DEF Respond, TypeOK
    <3>2. payload[h].version \in Versions
      BY <3>1 DEF Payload
    <3>3. call.op = "get"
      BY <1>1, <2>1, <3>1 DEF CallFit, PageTypeOK, PageRequest
    <3>4. ~excused => puts' = {} /\ payload[h].version >= mine
      BY <1>1, <1>3, <2>1, <3>1, <3>3 DEF AnswerFit, Served, Calling
    <3> QED
      BY <2>4, <2>5, <3>2, <3>4
  <2>6. CASE UpdateInvalidate(h) /\ Answered("ok", call.version)
    <3>1. pc[h] = "invalidate"
      BY <2>6 DEF UpdateInvalidate
    <3>2. call.op = "put" /\ call.version \in Versions
      BY <1>1, <2>1, <3>1 DEF CallFit, PageRequest
    <3>3. ~excused => puts' = {} /\ call.version >= mine
      BY <1>1, <1>3, <2>1, <3>2 DEF AnswerFit, Served, Calling
    <3> QED
      BY <2>4, <2>6, <3>2, <3>3
  <2>7. CASE Answered("failed", None)
    <3>1. /\ call' # None /\ call' \in PageRequest
          /\ call'.step = "failed" /\ call'.by = None
      BY <2>3, <2>7
    <3>2. PageTypeOK'
      BY <1>1, <1>3, <1>5, <1>6, <2>2, <3>1 DEF PageTypeOK
    <3>3. ControlReturns' /\ CallFit'
      BY <3>1 DEF ControlReturns, CallFit
    <3>4. AnswerFit'
      BY <1>3, <2>2, <3>1 DEF AnswerFit, Served, Calling
    <3> QED
      BY <1>5, <3>2, <3>3, <3>4 DEF PageFit
  <2> QED
    BY <1>8, <2>5, <2>6, <2>7 DEF Done
<1> QED
  BY <1>7, <1>8

LEMMA SendingFit ==
    ASSUME NEW op \in {"get", "put"}
    PROVE  /\ Sending(op) \in PageRequest /\ Sending(op) # None
           /\ Sending(op).step = "sent" /\ Sending(op).by = None
<1>1. Sending(op) \in PageRequest /\ Sending(op).step = "sent" /\ Sending(op).by = None
  BY DEF Sending, PageRequest
<1> QED
  BY <1>1

\* The page sends a request, after which nothing is known of its answer.
LEMMA SendFit ==
    ASSUME PageInv, NEW op \in {"get", "put"}, call' = Sending(op), control' = "disabled",
           excused' = FALSE, UNCHANGED <<vars, shown, puts, mine>>
    PROVE  PageFit'
<1>1. TypeOK /\ PageTypeOK /\ PutsFit /\ MineFit
  BY DEF PageInv, Inv
<1>2. UNCHANGED <<incident, pc, org, target, payload>>
  BY DEF vars, tables, threads
<1>3. call' \in PageRequest /\ call' # None /\ call'.step = "sent" /\ call'.by = None
  BY SendingFit
<1>4. PageTypeOK'
  BY <1>1, <1>2, <1>3 DEF PageTypeOK
<1>5. ControlReturns' /\ CallFit' /\ AnswerFit'
  BY <1>3 DEF ControlReturns, CallFit, AnswerFit, Served, Calling
<1>6. PutsFit' /\ MineFit'
  BY <1>1, <1>2 DEF PutsFit, MineFit
<1> QED
  BY <1>4, <1>5, <1>6 DEF PageFit

LEMMA ChangeStatusFit ==
    ASSUME PageInv, ChangeStatus
    PROVE  PageFit'
  BY SendFit DEF ChangeStatus

LEMMA PutFailsFit ==
    ASSUME PageInv, PutFails
    PROVE  PageFit'
<1>1. control = "disabled"
  BY DEF PutFails, Fails, PageInv, PageTypeOK
<1> QED
  BY <1>1, SendFit DEF PutFails, Reload

LEMMA GetFailsFit ==
    ASSUME PageInv, GetFails
    PROVE  PageFit'
<1>1. TypeOK /\ PageTypeOK /\ PutsFit /\ MineFit /\ control # "enabled"
  BY DEF PageInv, Inv, GetFails, Fails, PageTypeOK
<1>2. UNCHANGED <<incident, pc, org, target, payload>>
  BY DEF GetFails, vars, tables, threads
<1>3. PageTypeOK'
  BY <1>1, <1>2 DEF GetFails, PageTypeOK
<1>4. ControlReturns' /\ CallFit' /\ AnswerFit'
  BY <1>1 DEF GetFails, ControlReturns, CallFit, AnswerFit, Served, Calling
<1>5. PutsFit' /\ MineFit'
  BY <1>1, <1>2 DEF GetFails, PutsFit, MineFit
<1> QED
  BY <1>3, <1>4, <1>5 DEF PageFit

LEMMA RenderFit ==
    ASSUME PageInv, Render
    PROVE  PageFit'
<1>1. TypeOK /\ PageTypeOK /\ PutsFit /\ MineFit /\ AnswerFit
  BY DEF PageInv, Inv
<1>2. UNCHANGED <<incident, pc, org, target, payload>>
  BY DEF Render, vars, tables, threads
<1>3. shown' \in Versions /\ control' = "enabled" /\ call' = None
  BY <1>1 DEF Render, PageTypeOK
<1>4. PageTypeOK'
  BY <1>1, <1>2, <1>3 DEF Render, pageHistory, PageTypeOK
<1>5. ControlReturns' /\ CallFit' /\ AnswerFit'
  BY <1>1, <1>3 DEF Render, pageHistory, ControlReturns, CallFit, AnswerFit, Served, Calling
<1>6. PutsFit' /\ MineFit'
  BY <1>1, <1>2 DEF Render, pageHistory, PutsFit, MineFit
<1> QED
  BY <1>4, <1>5, <1>6 DEF PageFit

LEMMA OthersFit ==
    ASSUME PageInv, Others
    PROVE  PageFit'
<1>1. TypeOK /\ PageTypeOK /\ ControlReturns /\ CallFit /\ PutsFit /\ MineFit /\ AnswerFit
  BY DEF PageInv, Inv
<1>2. UNCHANGED <<control, shown, call, puts, mine, excused>>
  BY DEF Others, page, pageHistory
<1>3. ASSUME NEW g \in puts PROVE g \in Handlers /\ SameThread(g)
  BY <1>1, <1>3, OtherSteps DEF PageTypeOK
<1>4. call # None /\ call.step = "served" => call.by \in Handlers /\ SameThread(call.by)
  BY <1>1, OtherSteps DEF PageTypeOK, CallFit, PageRequest
<1>5. PageTypeOK' /\ ControlReturns' /\ PutsFit'
  BY <1>1, <1>2, <1>3 DEF PageTypeOK, ControlReturns, PutsFit, SameThread
<1>6. CallFit' /\ AnswerFit'
  BY <1>1, <1>2, <1>4 DEF CallFit, AnswerFit, Served, Calling, SameThread
<1>7. MineFit'
  <2>1. CASE incident[Here] = None
    <3>1. mine' = 0
      BY <1>1, <1>2, <2>1 DEF MineFit
    <3>2. [PageNext]_pageVars
      BY DEF PageNext
    <3>3. TypeOK'
      BY <1>1, <3>2, PageSteps, NextType
    <3>4. incident'[Here] # None => incident'[Here].version \in Versions
      BY <3>3 DEF TypeOK, IncidentRow
    <3> QED
      BY <3>1, <3>4 DEF MineFit, Versions
  <2>2. CASE incident[Here] # None
    <3>1. RowStep(Here) /\ incident[Here].version \in Versions
      BY <1>1, <2>2, RowSteps DEF Next, Others, TypeOK, IncidentRow
    <3>2. incident'[Here] # None
      BY <3>1 DEF RowStep
    <3> QED
      BY <1>1, <1>2, <2>2, <3>1, <3>2 DEF MineFit, RowStep, PageTypeOK, Versions
  <2> QED
    BY <2>1, <2>2
<1> QED
  BY <1>5, <1>6, <1>7 DEF PageFit

LEMMA NextPageFit ==
    ASSUME PageInv, [PageNext]_pageVars
    PROVE  PageFit'
<1>1. CASE UNCHANGED pageVars
  BY <1>1 DEF PageInv, PageFit, pageVars, vars, page, pageHistory, tables, threads, PageTypeOK,
     ControlReturns, CallFit, PutsFit, MineFit, AnswerFit, Served, Calling
<1>2. CASE PageNext
  BY <1>2, ServeGetFit, ServePutFit, MiddleFit, CommitFit, DoneFit, ChangeStatusFit, RenderFit,
     PutFailsFit, GetFailsFit, OthersFit DEF PageNext
<1> QED
  BY <1>1, <1>2

----------------------------------------------------------------------------
(* What a stale entry is owed                                              *)

LEMMA NextOwedFit ==
    ASSUME PageInv, [PageNext]_pageVars, MineFit', PageTypeOK', TypeOK'
    PROVE  OwedFit'
<1> DEFINE k == <<Me, Here>>
           e == cache[k]
           f == cache'[k]
<1> SUFFICES ASSUME f # None, f.payload # Undecodable, ~f.escaped, f.payload.version < mine'
             PROVE  \E h \in puts' : pc'[h] = "invalidate"
  BY DEF OwedFit, Cached, CachedPayload, IncidentKey
<1>0. Inv /\ TypeOK /\ PageTypeOK /\ PutsFit /\ OwedFit /\ [Next]_vars /\ k \in Keys
  BY PageSteps DEF PageInv, Inv, Keys
<1>1. ASSUME NEW p \in Payload, Fits(p, Me, Here), f = StoredEntry(p), UNCHANGED tables
      PROVE  FALSE
  <2>1. /\ StoredEntry(p).payload = p
        /\ StoredEntry(p).escaped = (p.version # incident[p.id].version)
    BY Zenon DEF StoredEntry
  <2>2. p.id = Here /\ incident' = incident /\ Owns(Me, Here)
    BY <1>1 DEF Fits, tables
  <2>3. f.payload = p /\ f.escaped = (p.version # incident[Here].version)
    BY <1>1, <2>1, <2>2
  <2>4. p.version = incident[Here].version
    BY <2>3
  <2>5. incident[Here].version \in Versions
    BY <1>0, <2>2 DEF TypeOK, IncidentRow, Owns
  <2>6. mine' <= incident[Here].version
    BY <2>2 DEF MineFit, Owns
  <2> QED
    BY <2>3, <2>4, <2>5, <2>6 DEF PageTypeOK, Versions
<1>2. CASE e # None /\ e.payload = f.payload /\ (e.escaped => f.escaped)
  <2>1. CASE mine' # mine
    <3>1. PICK h \in puts : Commit(h)
      BY <2>1 DEF PageNext, pageVars, pageHistory, ServeGet, ServePut, Middle, Commit, Done,
                  ChangeStatus, Render, PutFails, GetFails, Others
    <3>2. h \in Handlers /\ pc'[h] = "invalidate" /\ puts' = puts
      BY <1>0, <3>1, CommitSteps DEF PageTypeOK, Commit
    <3> QED
      BY <3>1, <3>2
  <2>2. CASE mine' = mine
    <3>1. ~e.escaped
      BY <1>2, Zenon
    <3>2. PICK h \in puts : pc[h] = "invalidate"
      BY <1>0, <1>2, <2>2, <3>1 DEF OwedFit, Cached, CachedPayload, IncidentKey
    <3>3. h \in Handlers /\ org[h] = Me /\ target[h] = Here
      BY <1>0, <3>2 DEF PageTypeOK, PutsFit
    <3>4. ~Done(h)
      <4>1. ~ApplyDelete(k)
        BY <1>0 DEF ApplyDelete, TypeOK
      <4>2. ~LoseDelete(k)
        BY <1>0, LoseDeleteEffect
      <4>3. ~UpdateInvalidate(h) /\ ~Crash(h)
        BY <3>2, <3>3, <4>1, <4>2 DEF UpdateInvalidate, CacheInvalidate, Crash, IncidentKey
      <4> QED
        BY <3>2, <4>3 DEF Done, Respond, ViewNotFound, UpdateRejected
    <3>5. pc'[h] = "invalidate" /\ h \in puts'
      <4>1. ASSUME NEW g \in Handlers, ServeGet(g)
            PROVE  pc'[h] = "invalidate" /\ h \in puts'
        BY <1>0, <3>2, <3>3, <4>1, GetStarts DEF SameThread, ServeGet
      <4>2. ASSUME NEW g \in Handlers, ServePut(g)
            PROVE  pc'[h] = "invalidate" /\ h \in puts'
        BY <1>0, <3>2, <3>3, <4>2, PutStarts DEF SameThread, ServePut
      <4>3. ASSUME NEW g \in Handlers, Middle(g)
            PROVE  pc'[h] = "invalidate" /\ h \in puts'
        BY <1>0, <3>2, <3>3, <4>3, MiddleSteps DEF SameThread, Middle, pageHistory
      <4>4. ASSUME NEW g \in Handlers, Commit(g)
            PROVE  pc'[h] = "invalidate" /\ h \in puts'
        BY <1>0, <3>2, <3>3, <4>4, CommitSteps DEF SameThread, Commit
      <4>5. ASSUME NEW g \in Handlers, Done(g)
            PROVE  pc'[h] = "invalidate" /\ h \in puts'
        BY <1>0, <3>2, <3>3, <3>4, <4>5, DoneSteps DEF SameThread, Done
      <4>6. CASE Others
        BY <1>0, <3>2, <3>3, <4>6, OtherSteps DEF SameThread, Others, pageHistory
      <4>7. CASE ChangeStatus \/ Render \/ PutFails \/ GetFails \/ UNCHANGED pageVars
        BY <3>2, <4>7 DEF ChangeStatus, Render, PutFails, GetFails, pageVars, vars, threads,
                          pageHistory
      <4> QED
        BY <4>1, <4>2, <4>3, <4>4, <4>5, <4>6, <4>7 DEF PageNext
    <3> QED
      BY <3>5
  <2> QED
    BY <2>1, <2>2
<1>3. ASSUME Tick
      PROVE  e # None /\ e.payload = f.payload /\ (e.escaped => f.escaped)
  <2>1. f = Aged(e)
    BY <1>0, <1>3 DEF Tick
  <2>2. e # None /\ f = [e EXCEPT !.ttl = e.ttl - 1]
    BY <2>1 DEF Aged
  <2>3. e \in Entry
    BY <1>0, <2>2 DEF TypeOK
  <2> QED
    BY <2>2, <2>3 DEF Entry
<1> QED
  BY <1>0, <1>1, <1>2, <1>3, CacheSources DEF SameEntry

----------------------------------------------------------------------------
(* When the versions were committed                                        *)

LEMMA NextTimesFit ==
    ASSUME PageInv, [PageNext]_pageVars, TypeOK'
    PROVE  TimesFit'
<1> SUFFICES ASSUME incident'[Here] # None, NEW v \in Versions, v <= incident'[Here].version
             PROVE  /\ incidentAt'[Here][v] <= clock'
                    /\ \A w \in Versions :
                          w <= v => incidentAt'[Here][w] <= incidentAt'[Here][v]
  BY DEF TimesFit
<1>1. TypeOK /\ TimesFit /\ [Next]_vars
  BY PageSteps DEF PageInv, Inv
<1>2. clock <= clock' /\ clock \in Int /\ clock' \in Int
  BY <1>1, ClockStep DEF TypeOK, Times
<1>3. incidentAt[Here] \in [Versions -> Int] /\ incidentAt'[Here] \in [Versions -> Int]
  BY <1>1 DEF TypeOK, Times
<1>4. CASE incident[Here] = None
  <2>1. PICK o \in Orgs, p \in Projects : CreateIncident(o, p, Here)
    <3>1. incident' # incident
      BY <1>4
    <3>2. CASE \E h \in Handlers : UpdateCommit(h)
      <4>1. PICK h \in Handlers : UpdateCommit(h)
        BY <3>2
      <4>2. target[h] # Here
        BY <1>1, <1>4, <4>1 DEF UpdateCommit, TypeOK
      <4>3. incident'[Here] = incident[Here]
        BY <1>1, <4>1, <4>2 DEF UpdateCommit, TypeOK
      <4> QED
        BY <1>4, <4>3
    <3>3. CASE \E o \in Orgs, p \in Projects, i \in Incidents : CreateIncident(o, p, i)
      <4>1. PICK o \in Orgs, p \in Projects, i \in Incidents : CreateIncident(o, p, i)
        BY <3>3
      <4>2. i = Here
        BY <1>1, <1>4, <4>1 DEF CreateIncident, TypeOK
      <4> QED
        BY <4>1, <4>2
    <3> QED
      BY <1>1, <3>1, <3>2, <3>3, TableWriters DEF UpdateProject, Tick, tables
  <2>2. incident'[Here].version = 0 /\ incidentAt'[Here][0] = clock /\ clock' = clock
    BY <1>1, <2>1 DEF CreateIncident, TypeOK, Versions
  <2> QED
    BY <1>2, <2>2 DEF Versions
<1>5. CASE incident[Here] # None
  <2>1. RowStep(Here) /\ incident[Here].version \in Versions
    BY <1>1, <1>5, RowSteps DEF TypeOK, IncidentRow
  <2>2. CASE /\ incident'[Here].version = incident[Here].version
             /\ incidentAt'[Here] = incidentAt[Here]
    BY <1>1, <1>2, <1>3, <1>5, <2>2 DEF TimesFit
  <2>3. CASE /\ incident'[Here].version = incident[Here].version + 1
             /\ incidentAt'[Here] =
                   [incidentAt[Here] EXCEPT ![incident[Here].version + 1] = clock]
    <3>1. ASSUME NEW w \in Versions, w <= incident[Here].version
          PROVE  incidentAt'[Here][w] = incidentAt[Here][w] /\ incidentAt[Here][w] <= clock
      BY <1>1, <1>3, <1>5, <2>1, <2>3, <3>1 DEF TimesFit, Versions
    <3>2. CASE v <= incident[Here].version
      <4>1. \A w \in Versions : w <= v => w <= incident[Here].version
        BY <2>1, <3>2 DEF Versions
      <4> QED
        BY <1>1, <1>2, <1>3, <1>5, <3>1, <3>2, <4>1 DEF TimesFit
    <3>3. CASE v = incident[Here].version + 1
      <4>1. incidentAt'[Here][v] = clock
        BY <1>3, <2>3, <3>3
      <4>2. ASSUME NEW w \in Versions, w <= v, w # v
            PROVE  incidentAt'[Here][w] <= clock
        BY <2>1, <3>1, <3>3, <4>2 DEF Versions
      <4> QED
        BY <1>2, <4>1, <4>2
    <3> QED
      BY <2>1, <2>3, <3>2, <3>3 DEF Versions
  <2> QED
    BY <2>1, <2>2, <2>3 DEF RowStep
<1> QED
  BY <1>4, <1>5

----------------------------------------------------------------------------
(* The theorems                                                            *)

LEMMA InitPageInv == PageInit => PageInv
<1> SUFFICES ASSUME PageInit PROVE PageInv
  OBVIOUS
<1>1. Inv
  BY InitInv DEF PageInit
<1>2. ~Cached(Me, Here)
  BY DEF PageInit, Init, Leftover, Cached, IncidentKey, Keys
<1>3. call \in PageRequest /\ call # None /\ call.step = "sent" /\ call.by = None
  BY SendingFit DEF PageInit
<1>4. PageTypeOK
  <2>1. excused \in BOOLEAN
    BY Zenon DEF PageInit
  <2>2. mine \in Versions /\ puts = {} /\ shown = None /\ control = "disabled"
    BY DEF PageInit, Versions
  <2> QED
    BY <1>3, <2>1, <2>2 DEF PageTypeOK
<1>5. /\ ControlReturns /\ CallFit /\ PutsFit /\ MineFit /\ AnswerFit /\ OwedFit
      /\ TimesFit
  BY <1>2, <1>3 DEF PageInit, Init, ControlReturns, CallFit, PutsFit, MineFit, AnswerFit, OwedFit,
                    TimesFit, Served, Calling
<1> QED
  BY <1>1, <1>4, <1>5 DEF PageInv

LEMMA NextPageInv == PageInv /\ [PageNext]_pageVars => PageInv'
<1> SUFFICES ASSUME PageInv, [PageNext]_pageVars PROVE PageInv'
  OBVIOUS
<1>1. Inv'
  BY PageSteps, NextInv DEF PageInv
<1>2. PageFit'
  BY NextPageFit
<1>3. OwedFit' /\ TimesFit'
  BY <1>1, <1>2, NextOwedFit, NextTimesFit DEF PageFit, Inv
<1> QED
  BY <1>1, <1>2, <1>3 DEF PageInv, PageFit

LEMMA PageInvHolds == PageSpec => []PageInv
  BY InitPageInv, NextPageInv, PTL DEF PageSpec

\* The page has at most one request in flight, answered by the handler that
\* runs it, and none while its control is enabled.
THEOREM PageTypeCorrect == PageSpec => []PageTypeOK
<1>1. PageInv => PageTypeOK
  BY DEF PageInv
<1> QED
  BY <1>1, PageInvHolds, PTL

\* A page with an enabled control never shows its incident from before an
\* update of its own, whatever other clients, the cache and lost answers do,
\* except while that PUT runs and, when a DEL was lost or a reader stored after
\* it what it had loaded before, for the TTL and the time that reader took.
THEOREM OwnUpdateShownHolds == PageSpec => []OwnUpdateShown
<1>1. PageInv => OwnUpdateShown
  BY DEF PageInv, AnswerFit, OwnUpdateShown
<1> QED
  BY <1>1, PageInvHolds, PTL

\* The control is left disabled, with no request in flight, only under the
\* title "Incident unavailable".
THEOREM ControlReturnsHolds == PageSpec => []ControlReturns
<1>1. PageInv => ControlReturns
  BY DEF PageInv
<1> QED
  BY <1>1, PageInvHolds, PTL

=============================================================================
