---------------------------- MODULE IncidentPage ----------------------------
(***************************************************************************)
(* The page of an incident in a browser, and the cache behind it.          *)
(*                                                                         *)
(* The page loads the incident once, and its status control sends a PUT.   *)
(* The control is disabled meanwhile; when the PUT fails the page loads    *)
(* the incident again, to show what the server holds, but it may have      *)
(* failed only for the browser, and the GET may be answered by the cache.  *)
(*                                                                         *)
(* The requests of the page are requests of IncidentCache, run by one of   *)
(* its handlers among those of other clients.                              *)
(***************************************************************************)
EXTENDS IncidentCache

CONSTANTS
    Me,            \* the organization of the user
    Here           \* the incident of the page

\* A request of the page: the handler that runs it and the version it answers.
PageRequest ==
    [op : {"get", "put"}, by : Handlers \cup {None},
     step : {"sent", "served", "ok", "failed"}, version : Versions \cup {None}]

ASSUME PageAssumption ==
    /\ Me \in Orgs /\ Here \in Incidents
    /\ None \notin Handlers \cup Versions \cup PageRequest

VARIABLES
    control,       \* is the status control enabled
    shown,         \* the version under the title, or None when the title is
                   \* "Loading" or "Incident unavailable"
    call,          \* the request of the page that is in flight
    puts,          \* history: handlers that run a PUT of this page, also one
                   \* whose answer nobody awaits any more
    mine,          \* history: the last version this page has made
    excused        \* history: when the answer was looked up, a PUT of this page was
                   \* still running, or the entry was out of reach of its DEL
                   \* and the last update of this page recent

page == <<control, shown, call>>
pageHistory == <<puts, mine, excused>>
pageVars == <<vars, page, pageHistory>>

----------------------------------------------------------------------------

\* On its way to the server.
Sending(op) == [op |-> op, by |-> None, step |-> "sent", version |-> None]

Calling(op, step) == call # None /\ call.op = op /\ call.step = step

IsMine(h) == call # None /\ call.by = h

Answered(step, v) == call' = [call EXCEPT !.by = None, !.step = step, !.version = v]

\* load()
Reload == call' = Sending("get")

----------------------------------------------------------------------------
(* The requests of the page on the server                                  *)

\* An entry has escaped its DEL when the DEL was lost, and also when a reader
\* stored, after a DEL that succeeded, the row it had loaded before the commit.
\* Either may hide the last update of the page, but not for longer than the
\* entry lives and its reader took to store it.
HidesUpdate(e) ==
    /\ e.escaped
    /\ clock - incidentAt[Here][mine] < TTL + (e.stored - e.payload.loaded)

ServeGet(h) ==
    /\ Calling("get", "sent")
    /\ \/ /\ ViewHit(h, Me, Here)
          /\ excused' = (puts # {} \/ HidesUpdate(cache[IncidentKey(Me, Here)]))
       \/ /\ ViewMiss(h, Me, Here) \/ ViewUndecodable(h, Me, Here)
          /\ excused' = (puts # {})
    /\ call' = [call EXCEPT !.by = h, !.step = "served"]
    /\ UNCHANGED <<control, shown, puts, mine>>

ServePut(h) ==
    /\ Calling("put", "sent")
    /\ UpdateLoad(h, Me, Here)
    /\ excused' = (puts # {})
    /\ puts' = puts \cup {h}
    /\ call' = [call EXCEPT !.by = h, !.step = "served", !.version = incident[Here].version]
    /\ UNCHANGED <<control, shown, mine>>

\* Statements that answer nothing yet.
Middle(h) ==
    /\ ViewDiscard(h) \/ ViewLoad(h) \/ ViewStore(h)
    /\ UNCHANGED <<page, pageHistory>>

\* The answer is the row as it was loaded, with the changes made to it: nothing
\* is read again after the commit.
Commit(h) ==
    /\ UpdateCommit(h)
    /\ mine' = IF h \in puts /\ incident' # incident THEN incident'[Here].version ELSE mine
    /\ call' = IF IsMine(h) /\ incident' # incident
                 THEN [call EXCEPT !.version = incident'[Here].version] ELSE call
    /\ UNCHANGED <<control, shown, puts, excused>>

\* The handler is done with the request, and its answer is on its way if the
\* page still awaits it.
Done(h) ==
    /\ \/ /\ Respond(h)
          /\ IF IsMine(h) THEN Answered("ok", payload[h].version) ELSE UNCHANGED call
       \/ /\ UpdateInvalidate(h)
          /\ IF IsMine(h) THEN Answered("ok", call.version) ELSE UNCHANGED call
       \/ /\ ViewNotFound(h) \/ UpdateRejected(h) \/ Crash(h)
          /\ IF IsMine(h) THEN Answered("failed", None) ELSE UNCHANGED call
    /\ puts' = puts \ {h}
    /\ UNCHANGED <<control, shown, mine, excused>>

----------------------------------------------------------------------------
(* The page                                                                *)

\* Mutant of ChangeStatus: the control is left enabled.
ChangeStatusEnabled ==
    /\ control = "enabled"
    /\ call' = Sending("put")
    /\ excused' = FALSE
    /\ UNCHANGED <<vars, control, shown, puts, mine>>

\* The user chooses another status.
ChangeStatus ==
    /\ control = "enabled"
    /\ control' = "disabled"
    /\ call' = Sending("put")
    /\ excused' = FALSE
    /\ UNCHANGED <<vars, shown, puts, mine>>

\* render(), on the answer to either request.
Render ==
    /\ call # None
    /\ call.step = "ok"
    /\ shown' = call.version
    /\ control' = "enabled"
    /\ call' = None
    /\ UNCHANGED <<vars, pageHistory>>

\* The request is lost before a handler takes it, its answer is lost, or the
\* answer is an error.  A PUT that a handler takes after the page has given it
\* up is one of the requests of others.
Fails(op) == call # None /\ call.op = op

\* Mutant of PutFails: the page only reports the error.
PutFailsOnly ==
    /\ Fails("put")
    /\ call' = None
    /\ UNCHANGED <<vars, control, shown, pageHistory>>

PutFails ==
    /\ Fails("put")
    /\ Reload
    /\ excused' = FALSE
    /\ UNCHANGED <<vars, control, shown, puts, mine>>

GetFails ==
    /\ Fails("get")
    /\ shown' = None
    /\ call' = None
    /\ excused' = FALSE
    /\ UNCHANGED <<vars, control, puts, mine>>

----------------------------------------------------------------------------

\* Everybody else: other requests, and what IncidentCache says of the rest.
Others ==
    /\ \/ \E h \in Handlers : Request(h) \/ Deliver(h)
       \/ \E p \in Projects : UpdateProject(p)
       \/ \E o \in Orgs, p \in Projects, i \in Incidents : CreateIncident(o, p, i)
       \/ \E k \in Keys : Evict(k)
       \/ Tick
    /\ UNCHANGED <<page, pageHistory>>

\* The page opens and loads the incident.
PageInit ==
    /\ Init
    /\ control = "disabled"
    /\ shown = None
    /\ call = Sending("get")
    /\ puts = {}
    /\ mine = 0
    /\ excused = FALSE

PageNext ==
    \/ \E h \in Handlers :
          ServeGet(h) \/ ServePut(h) \/ Middle(h) \/ Commit(h) \/ Done(h)
    \/ ChangeStatus \/ Render \/ PutFails \/ GetFails
    \/ Others

PageSpec == PageInit /\ [][PageNext]_pageVars /\ Fairness

----------------------------------------------------------------------------
(* Properties                                                              *)

\* The types, and: an enabled control means that the page awaits nothing, so
\* one request at a time is all it ever has in flight.
PageTypeOK ==
    /\ control \in {"enabled", "disabled"}
    /\ shown \in Versions \cup {None}
    /\ call \in PageRequest \cup {None}
    /\ call # None =>
          /\ call.step = "served" <=> call.by \in Handlers
          /\ call.step = "ok" => call.version \in Versions
    /\ puts \subseteq {h \in Handlers : pc[h] \in {"commit", "invalidate"}}
    /\ mine \in Versions
    /\ excused \in BOOLEAN
    /\ control = "enabled" => call = None /\ shown # None

\* "Put the control back in sync with what the server actually holds": a page
\* whose control is enabled does not show its incident from before an update
\* of its own, not even one that failed for the browser alone.  The comment
\* allows of no exception, and there are three: the PUT was still running when
\* the page looked; the entry it was shown had lost its DEL; or a reader had
\* stored it after the DEL, with what it loaded before the commit.  Whichever
\* of the last two it is, it passes: an update older than the TTL and the time
\* that reader took is shown, whatever has gone wrong.
OwnUpdateShown ==
    control = "enabled" /\ ~excused => shown >= mine

\* The control is disabled before the PUT and only an answer enables it, so it
\* is left disabled, with no request in flight, only under the title "Incident
\* unavailable".
ControlReturns ==
    call = None /\ control = "disabled" => shown = None

=============================================================================
