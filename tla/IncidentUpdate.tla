--------------------------- MODULE IncidentUpdate ---------------------------
(***************************************************************************)
(* PUT /api/incidents/<id> at the granularity of columns.                  *)
(*                                                                         *)
(* update_incident loads the row, assigns what the client sent, derives    *)
(* resolved_at from the status, and commits.  Any number of handlers do so *)
(* at once under READ COMMITTED, with no row lock and no version column,   *)
(* and the session writes only the columns that differ from what it        *)
(* loaded.  "severity" stands for the columns with no side effect.  What   *)
(* the DEL after the commit does is the subject of IncidentCache.          *)
(***************************************************************************)
EXTENDS Naturals

CONSTANTS
    Handlers,      \* request-handling threads
    Statuses,      \* INCIDENT_STATUSES
    Terminal,      \* INCIDENT_TERMINAL_STATUSES
    Severities,    \* INCIDENT_SEVERITIES
    Null,          \* SQL NULL and JSON null
    Unset,         \* a field the client did not send
    MaxClock       \* bound on the clock

ASSUME TerminalAssumption == Terminal \subseteq Statuses
ASSUME ClockAssumption == MaxClock \in Nat

VARIABLES
    row,           \* the row of the incidents table
    pc,            \* per handler, its next statement
    sent,          \* per handler, changes: the fields the client sent
    base,          \* per handler, the column values its session loaded
    object,        \* per handler, the attributes of its Incident
    clock          \* datetime.now(timezone.utc)

vars == <<row, pc, sent, base, object, clock>>

----------------------------------------------------------------------------

Times == 0..MaxClock
Columns == {"status", "severity", "resolvedAt"}

Row == [status : Statuses, severity : Severities, resolvedAt : Times \cup {Null}]

\* An Incident in memory may hold a null that its column will refuse.
Object == [status : Statuses \cup {Null}, severity : Severities \cup {Null},
           resolvedAt : Times \cup {Null}]

ASSUME NullAssumption ==
    /\ Null \notin Statuses \cup Severities \cup Nat \cup Row \cup Object
    /\ Unset \notin Statuses \cup Severities \cup {Null}

\* model_dump(exclude_unset=True); resolved_at is not in the schema.
Changes == [status : Statuses \cup {Null, Unset},
            severity : Severities \cup {Null, Unset}]

NoChanges == [status |-> Unset, severity |-> Unset]

Sends(changes, field) == changes[field] # Unset

\* for field, value in changes.items(): setattr(incident, field, value)
Assigned(r, changes) ==
    [r EXCEPT !.status = IF Sends(changes, "status") THEN changes.status ELSE @,
              !.severity = IF Sends(changes, "severity") THEN changes.severity
                                                         ELSE @]

\* Mutants of ResolvedAt: reopening leaves the resolution time; a status that
\* is sent again has no side effect; every terminal status resets the time.
ResolvedAtKept(r, new, now) ==
    IF new \in Terminal /\ r.resolvedAt = Null THEN now ELSE r.resolvedAt

ResolvedAtOnTransition(r, new, now) ==
    IF new = r.status THEN r.resolvedAt
    ELSE IF new \notin Terminal THEN Null
    ELSE IF r.resolvedAt = Null THEN now ELSE r.resolvedAt

ResolvedAtRenewed(r, new, now) == IF new \in Terminal THEN now ELSE Null

\* _apply_status_side_effects
ResolvedAt(r, new, now) ==
    IF new \notin Terminal THEN Null
    ELSE IF r.resolvedAt = Null THEN now ELSE r.resolvedAt

\* The object after update_incident's loop and, when a status was sent, the
\* side effect.
Updated(r, changes, now) ==
    IF Sends(changes, "status") /\ changes.status # Null
    THEN [Assigned(r, changes) EXCEPT
             !.resolvedAt = ResolvedAt(r, changes.status, now)]
    ELSE Assigned(r, changes)

\* The UPDATE statement sets the columns whose value is not the loaded one.
Merged(h, c) == IF object[h][c] # base[h][c] THEN object[h][c] ELSE row[c]

Written(h) ==
    [status |-> Merged(h, "status"), severity |-> Merged(h, "severity"),
     resolvedAt |-> Merged(h, "resolvedAt")]

\* nullable=False
Storable(o) == o.status # Null /\ o.severity # Null

----------------------------------------------------------------------------

Load(h, changes) ==
    /\ pc[h] = "idle"
    /\ sent' = [sent EXCEPT ![h] = changes]
    /\ base' = [base EXCEPT ![h] = row]
    /\ object' = [object EXCEPT ![h] = row]
    /\ pc' = [pc EXCEPT ![h] = "apply"]
    /\ UNCHANGED <<row, clock>>

Apply(h) ==
    /\ pc[h] = "apply"
    /\ object' = [object EXCEPT ![h] = Updated(base[h], sent[h], clock)]
    /\ pc' = [pc EXCEPT ![h] = "commit"]
    /\ UNCHANGED <<row, sent, base, clock>>

\* Mutants of Commit: the statement sets every column; no column is NOT NULL.
CommitWholeRow(h) ==
    /\ pc[h] = "commit"
    /\ Storable(object[h])
    /\ row' = object[h]
    /\ pc' = [pc EXCEPT ![h] = "invalidate"]
    /\ UNCHANGED <<sent, base, object, clock>>

CommitNullable(h) ==
    /\ pc[h] = "commit"
    /\ row' = Written(h)
    /\ pc' = [pc EXCEPT ![h] = "invalidate"]
    /\ UNCHANGED <<sent, base, object, clock>>

\* session.commit(): the UPDATE waits for the row lock of any other writer and
\* then sets its own columns on whatever that writer left.
Commit(h) ==
    /\ pc[h] = "commit"
    /\ Storable(object[h])
    /\ row' = Written(h)
    /\ pc' = [pc EXCEPT ![h] = "invalidate"]
    /\ UNCHANGED <<sent, base, object, clock>>

\* The session is closed and its objects are gone.
Finish(h) ==
    /\ pc' = [pc EXCEPT ![h] = "idle"]
    /\ sent' = [sent EXCEPT ![h] = NoChanges]
    /\ base' = [base EXCEPT ![h] = Null]
    /\ object' = [object EXCEPT ![h] = Null]

\* An IntegrityError, or a connection lost before the commit: a 500, and the
\* session is closed with the transaction rolled back.
Fail(h) ==
    /\ pc[h] = "commit"
    /\ Finish(h)
    /\ UNCHANGED <<row, clock>>

\* The DEL, whatever becomes of it, and the answer.
Invalidate(h) ==
    /\ pc[h] = "invalidate"
    /\ Finish(h)
    /\ UNCHANGED <<row, clock>>

Tick ==
    /\ clock < MaxClock
    /\ clock' = clock + 1
    /\ UNCHANGED <<row, pc, sent, base, object>>

\* The row as create_incident leaves it.
Created ==
    [status : Statuses \ Terminal, severity : Severities, resolvedAt : {Null}]

Init ==
    /\ row \in Created
    /\ pc = [h \in Handlers |-> "idle"]
    /\ sent = [h \in Handlers |-> NoChanges]
    /\ base = [h \in Handlers |-> Null]
    /\ object = [h \in Handlers |-> Null]
    /\ clock = 0

Next ==
    \/ \E h \in Handlers :
          \/ \E changes \in Changes : Load(h, changes)
          \/ Apply(h) \/ Commit(h) \/ Fail(h) \/ Invalidate(h)
    \/ Tick

Spec == Init /\ [][Next]_vars

----------------------------------------------------------------------------
(* Properties                                                              *)

TypeOK ==
    /\ row \in Row
    /\ pc \in [Handlers -> {"idle", "apply", "commit", "invalidate"}]
    /\ sent \in [Handlers -> Changes]
    /\ base \in [Handlers -> Row \cup {Null}]
    /\ object \in [Handlers -> Object \cup {Null}]
    /\ \A h \in Handlers :
          pc[h] # "idle" => base[h] # Null /\ object[h] # Null
    /\ clock \in Times

Consistent(r) == r.status \in Terminal <=> r.resolvedAt # Null

\* No other update has touched the status since the handler loaded the row.
Fresh(h) == base[h].status = row.status /\ base[h].resolvedAt = row.resolvedAt

Commits(h) == pc[h] = "commit" /\ pc'[h] = "invalidate"

\* A handler that loaded the row before another update's commit does not undo
\* that update: a commit changes only the columns its client sent and, if the
\* client sent a status, resolved_at.
KeepsOthersColumns ==
    [][\A h \in Handlers, c \in Columns :
          Commits(h) /\ row'[c] # row[c] =>
              Sends(sent[h], IF c = "resolvedAt" THEN "status" ELSE c)]_vars

\* "Keep resolved_at consistent with the status": the two only ever fall out of
\* step at the commit of an update that raced another one on the status.
OnlyRacesBreak ==
    [][Consistent(row) /\ ~Consistent(row') =>
          \E h \in Handlers : Commits(h) /\ ~Fresh(h)]_vars

\* Whatever a race left in the row, the next update to send a status puts
\* resolved_at right, unless it is itself overtaken.
StatusUpdateRepairs ==
    [][\A h \in Handlers :
          Commits(h) /\ Fresh(h) /\ Sends(sent[h], "status") =>
              Consistent(row')]_vars

\* The time of the first resolution stands when a resolved incident is closed,
\* or resolved again: only an overtaken update replaces it.
FirstResolutionKept ==
    [][\A h \in Handlers :
          /\ Commits(h) /\ Fresh(h)
          /\ row.resolvedAt # Null /\ row'.status \in Terminal
          => row'.resolvedAt = row.resolvedAt]_vars

\* The docstring of _apply_status_side_effects, read as a promise about the
\* table: resolved_at is consistent with the status.
ResolvedAtConsistent == Consistent(row)

=============================================================================
