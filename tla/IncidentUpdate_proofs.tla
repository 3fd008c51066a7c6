----------------------- MODULE IncidentUpdate_proofs -----------------------
(***************************************************************************)
(* What concurrent updates of one incident preserve, for any number of     *)
(* handlers, any vocabulary of statuses and any clock.                     *)
(***************************************************************************)
EXTENDS IncidentUpdate, TLAPS

USE TerminalAssumption, NullAssumption, ClockAssumption

----------------------------------------------------------------------------
(* The inductive invariant: an object about to be committed is what the    *)
(* update makes of the row its session loaded.                             *)

ObjectsUpdated ==
    \A h \in Handlers : pc[h] = "commit" =>
        \E now \in Times : object[h] = Updated(base[h], sent[h], now)

Inv == TypeOK /\ ObjectsUpdated

\* The fields of the updated object, one by one.
LEMMA UpdatedFields ==
    ASSUME NEW r \in Row, NEW changes \in Changes, NEW now \in Times
    PROVE  /\ Updated(r, changes, now) \in Object
           /\ Updated(r, changes, now).status =
                 IF changes.status # Unset THEN changes.status ELSE r.status
           /\ Updated(r, changes, now).severity =
                 IF changes.severity # Unset THEN changes.severity ELSE r.severity
           /\ Updated(r, changes, now).resolvedAt =
                 IF changes.status # Unset /\ changes.status # Null
                 THEN ResolvedAt(r, changes.status, now) ELSE r.resolvedAt
<1>1. /\ Assigned(r, changes) \in Object
      /\ Assigned(r, changes).status =
            IF changes.status # Unset THEN changes.status ELSE r.status
      /\ Assigned(r, changes).severity =
            IF changes.severity # Unset THEN changes.severity ELSE r.severity
      /\ Assigned(r, changes).resolvedAt = r.resolvedAt
  BY DEF Assigned, Sends, Row, Object, Changes
<1>2. ResolvedAt(r, changes.status, now) \in Times \cup {Null}
  BY DEF ResolvedAt, Row
<1> QED
  BY <1>1, <1>2 DEF Updated, Sends, Object

\* What a commit writes is a row.
LEMMA WrittenType ==
    ASSUME TypeOK, NEW h \in Handlers, pc[h] # "idle", Storable(object[h])
    PROVE  Written(h) \in Row
<1>1. base[h] \in Row /\ object[h] \in Object /\ row \in Row
  BY DEF TypeOK
<1>2. Merged(h, "status") \in Statuses
  BY <1>1 DEF Merged, Row, Object, Storable
<1>3. Merged(h, "severity") \in Severities
  BY <1>1 DEF Merged, Row, Object, Storable
<1>4. Merged(h, "resolvedAt") \in Times \cup {Null}
  BY <1>1 DEF Merged, Row, Object
<1> QED
  BY <1>2, <1>3, <1>4 DEF Written, Row

LEMMA InitInv == Init => Inv
<1> SUFFICES ASSUME Init PROVE Inv
  OBVIOUS
<1>1. row \in Row
  BY DEF Init, Created, Row
<1> QED
  BY <1>1 DEF Init, Inv, TypeOK, ObjectsUpdated, NoChanges, Changes, Times

LEMMA NextInv == Inv /\ [Next]_vars => Inv'
<1> SUFFICES ASSUME Inv, [Next]_vars PROVE Inv'
  OBVIOUS
<1> USE DEF Inv, TypeOK, ObjectsUpdated
<1>1. ASSUME NEW h \in Handlers, NEW changes \in Changes, Load(h, changes)
      PROVE  Inv'
  <2>1. row \in Object /\ row # Null
    BY DEF Row, Object
  <2> QED
    BY <1>1, <2>1 DEF Load
<1>2. ASSUME NEW h \in Handlers, Apply(h)
      PROVE  Inv'
  <2>1. base[h] \in Row /\ sent[h] \in Changes /\ clock \in Times
    BY <1>2 DEF Apply
  <2>2. /\ Updated(base[h], sent[h], clock) \in Object
        /\ Updated(base[h], sent[h], clock) # Null
    BY <2>1, UpdatedFields
  <2> QED
    BY <1>2, <2>1, <2>2 DEF Apply
<1>3. ASSUME NEW h \in Handlers, Commit(h)
      PROVE  Inv'
  BY <1>3, WrittenType DEF Commit
<1>4. ASSUME NEW h \in Handlers, Fail(h) \/ Invalidate(h)
      PROVE  Inv'
  <2>1. Finish(h) /\ UNCHANGED <<row, clock>>
    BY <1>4 DEF Fail, Invalidate
  <2>2. NoChanges \in Changes
    BY DEF NoChanges, Changes
  <2> QED
    BY <2>1, <2>2 DEF Finish
<1>5. ASSUME Tick
      PROVE  Inv'
  BY <1>5 DEF Tick, Times
<1>6. ASSUME UNCHANGED vars
      PROVE  Inv'
  BY <1>6 DEF vars
<1> QED
  BY <1>1, <1>2, <1>3, <1>4, <1>5, <1>6 DEF Next

\* Every value has its type in every reachable state, and every object about
\* to be committed is the update of what was loaded.
THEOREM Invariance == Spec => []Inv
BY InitInv, NextInv, PTL DEF Spec

\* A handler at work has a row it loaded and an object, each of its kind, and
\* what it writes is a row: no null ever gets into a column that refuses it.
THEOREM TypeCorrect == Spec => []TypeOK
<1>1. Inv => TypeOK
  BY DEF Inv
<1> QED
  BY <1>1, Invariance, PTL

----------------------------------------------------------------------------
(* The action properties                                                   *)

\* The step of a handler that commits is its Commit.
LEMMA CommitStep ==
    ASSUME Inv, [Next]_vars, NEW h \in Handlers, Commits(h)
    PROVE  /\ Commit(h)
           /\ base[h] \in Row /\ object[h] \in Object
           /\ sent[h] \in Changes /\ row \in Row
           /\ row'.status = Merged(h, "status")
           /\ row'.severity = Merged(h, "severity")
           /\ row'.resolvedAt = Merged(h, "resolvedAt")
           /\ \E now \in Times : object[h] = Updated(base[h], sent[h], now)
<1> USE DEF Inv, TypeOK, Commits
<1>1. Commit(h)
  <2>1. ASSUME NEW g \in Handlers, g # h,
               (\E changes \in Changes : Load(g, changes)) \/ Apply(g)
                  \/ Commit(g) \/ Fail(g) \/ Invalidate(g)
        PROVE  FALSE
    BY <2>1 DEF Load, Apply, Commit, Fail, Invalidate, Finish
  <2>2. ASSUME Tick \/ UNCHANGED vars
        PROVE  FALSE
    BY <2>2 DEF Tick, vars
  <2>3. ASSUME (\E changes \in Changes : Load(h, changes)) \/ Apply(h)
                  \/ Fail(h) \/ Invalidate(h)
        PROVE  FALSE
    BY <2>3 DEF Load, Apply, Fail, Invalidate, Finish
  <2> QED
    BY <2>1, <2>2, <2>3 DEF Next
<1>2. /\ row'.status = Merged(h, "status")
      /\ row'.severity = Merged(h, "severity")
      /\ row'.resolvedAt = Merged(h, "resolvedAt")
  BY <1>1 DEF Commit, Written
<1> QED
  BY <1>1, <1>2 DEF ObjectsUpdated

\* A commit changes no column its client did not send.
THEOREM KeepsOthersColumnsHolds == Spec => KeepsOthersColumns
<1>1. ASSUME Inv, [Next]_vars, NEW h \in Handlers, NEW c \in Columns,
             Commits(h), row'[c] # row[c]
      PROVE  Sends(sent[h], IF c = "resolvedAt" THEN "status" ELSE c)
  <2>1. PICK now \in Times : object[h] = Updated(base[h], sent[h], now)
    BY <1>1, CommitStep
  <2>2. base[h] \in Row /\ sent[h] \in Changes
    BY <1>1, CommitStep
  <2>3. row'[c] = Merged(h, c)
    BY <1>1, CommitStep DEF Columns
  <2>4. object[h][c] # base[h][c]
    BY <1>1, <2>3 DEF Merged
  <2> QED
    BY <2>1, <2>2, <2>4, UpdatedFields DEF Columns, Sends
<1>2. Inv /\ [Next]_vars =>
          [\A h \in Handlers, c \in Columns :
              Commits(h) /\ row'[c] # row[c] =>
                  Sends(sent[h], IF c = "resolvedAt" THEN "status" ELSE c)]_vars
  BY <1>1
<1> QED
  BY <1>2, Invariance, PTL DEF Spec, KeepsOthersColumns

\* What a commit that was not overtaken leaves of status and resolved_at.
LEMMA FreshCommit ==
    ASSUME Inv, [Next]_vars, NEW h \in Handlers, Commits(h), Fresh(h)
    PROVE  /\ row \in Row /\ row'.status \in Statuses
           /\ ~Sends(sent[h], "status") =>
                 row'.status = row.status /\ row'.resolvedAt = row.resolvedAt
           /\ Sends(sent[h], "status") =>
                 /\ row'.status = sent[h].status
                 /\ \E now \in Times :
                       row'.resolvedAt = ResolvedAt(row, row'.status, now)
<1>1. PICK now \in Times : object[h] = Updated(base[h], sent[h], now)
  BY CommitStep
<1>2. /\ base[h] \in Row /\ sent[h] \in Changes /\ row \in Row
      /\ object[h] \in Object /\ Storable(object[h])
  BY CommitStep DEF Commit
<1>3. row'.status = object[h].status /\ row'.resolvedAt = object[h].resolvedAt
  BY CommitStep DEF Fresh, Merged
<1>4. /\ object[h].status =
            IF sent[h].status # Unset THEN sent[h].status ELSE base[h].status
      /\ object[h].resolvedAt =
            IF sent[h].status # Unset /\ sent[h].status # Null
            THEN ResolvedAt(base[h], sent[h].status, now) ELSE base[h].resolvedAt
  BY <1>1, <1>2, UpdatedFields
<1>5. ResolvedAt(base[h], sent[h].status, now)
         = ResolvedAt(row, sent[h].status, now)
  BY DEF Fresh, ResolvedAt
<1> QED
  BY <1>2, <1>3, <1>4, <1>5 DEF Fresh, Sends, Storable, Object

\* Only a commit that was overtaken makes resolved_at disagree with the status.
THEOREM OnlyRacesBreakHolds == Spec => OnlyRacesBreak
<1>1. ASSUME Inv, [Next]_vars, Consistent(row), ~Consistent(row')
      PROVE  \E h \in Handlers : Commits(h) /\ ~Fresh(h)
  <2>1. PICK h \in Handlers : Commit(h)
    BY <1>1 DEF Next, Load, Apply, Fail, Invalidate, Tick, vars
  <2>2. Commits(h)
    BY <1>1, <2>1 DEF Commit, Commits, Inv, TypeOK
  <2>3. ASSUME Fresh(h)
        PROVE  FALSE
    <3>1. CASE ~Sends(sent[h], "status")
      BY <1>1, <2>2, <2>3, <3>1, FreshCommit DEF Consistent
    <3>2. CASE Sends(sent[h], "status")
      BY <1>1, <2>2, <2>3, <3>2, FreshCommit
         DEF Consistent, ResolvedAt, Row, Times
    <3> QED
      BY <3>1, <3>2
  <2> QED
    BY <2>2, <2>3
<1> QED
  BY <1>1, Invariance, PTL DEF Spec, OnlyRacesBreak

\* A status update that is not overtaken leaves resolved_at consistent.
THEOREM StatusUpdateRepairsHolds == Spec => StatusUpdateRepairs
<1>1. ASSUME Inv, [Next]_vars, NEW h \in Handlers,
             Commits(h), Fresh(h), Sends(sent[h], "status")
      PROVE  Consistent(row')
  BY <1>1, FreshCommit DEF Consistent, ResolvedAt, Row, Times
<1>2. Inv /\ [Next]_vars =>
          [\A h \in Handlers :
              Commits(h) /\ Fresh(h) /\ Sends(sent[h], "status") =>
                  Consistent(row')]_vars
  BY <1>1
<1> QED
  BY <1>2, Invariance, PTL DEF Spec, StatusUpdateRepairs

\* A resolution time survives any update that is not overtaken and does not
\* reopen the incident.
THEOREM FirstResolutionKeptHolds == Spec => FirstResolutionKept
<1>1. ASSUME Inv, [Next]_vars, NEW h \in Handlers, Commits(h), Fresh(h),
             row.resolvedAt # Null, row'.status \in Terminal
      PROVE  row'.resolvedAt = row.resolvedAt
  BY <1>1, FreshCommit DEF ResolvedAt
<1>2. Inv /\ [Next]_vars =>
          [\A h \in Handlers :
              /\ Commits(h) /\ Fresh(h)
              /\ row.resolvedAt # Null /\ row'.status \in Terminal
              => row'.resolvedAt = row.resolvedAt]_vars
  BY <1>1
<1> QED
  BY <1>2, Invariance, PTL DEF Spec, FirstResolutionKept

=============================================================================
