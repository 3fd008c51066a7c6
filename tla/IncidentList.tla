---------------------------- MODULE IncidentList ----------------------------
(***************************************************************************)
(* The incident list page and the dashboard, over tables that change.      *)
(*                                                                         *)
(* A page of incidents and its total are two SELECTs, the dashboard is     *)
(* five, and under READ COMMITTED each sees its own snapshot.  The browser *)
(* keeps an offset and a filter, draws the pager from the last answer it   *)
(* got, and does not lock its controls while a load is in flight, so that  *)
(* answers may arrive out of order, late or never.                         *)
(*                                                                         *)
(* One organization: the others' rows are excluded by every statement.     *)
(***************************************************************************)
EXTENDS Integers, FiniteSets

CONSTANTS
    Incidents,     \* incident ids, as numbers
    Starts,        \* values of started_at
    Statuses,      \* INCIDENT_STATUSES
    Terminal,      \* INCIDENT_TERMINAL_STATUSES
    Filters,       \* options of the status filter
    Limit,         \* PAGE_SIZE
    Recent,        \* RECENT_INCIDENTS_ON_DASHBOARD
    Loads,         \* loads that may be in flight at once
    None

ASSUME NumbersAssumption == Incidents \subseteq Nat /\ Starts \subseteq Nat
ASSUME FiniteAssumption == IsFiniteSet(Incidents)
ASSUME SizesAssumption == Limit \in Nat \ {0} /\ Recent \in Nat \ {0}
ASSUME StatusesAssumption == Terminal \subseteq Statuses /\ "OPEN" \in Statuses
\* The value of the filter's option "All".
AllOption == ""

ASSUME FiltersAssumption == {AllOption, "OPEN_ONLY"} \subseteq Filters

VARIABLES
    incident,      \* the table: [Incidents -> Row or None]
    view,          \* the page that is open: the list or the dashboard
    offset,        \* the list page's variable
    filter,        \* the value of its status filter
    load,          \* the loads in flight
    shown,         \* what the list shows
    pager,         \* the pagination the pager was last drawn from
    dashboard,     \* a dashboard request
    newest,        \* history: the load sent last, while it is in flight
    overtaken,     \* history: the page shown is not the answer to that load
    walk           \* history: what matched when the filter was chosen and what
                   \* has been shown since; None once the user clicked while
                   \* a load was in flight, a load failed, or an incident left
                   \* the matches or moved in their order

page == <<view, offset, filter, load, shown, pager>>
history == <<newest, overtaken, walk>>
vars == <<incident, page, dashboard, history>>

----------------------------------------------------------------------------

Row == [started : Starts, status : Statuses]

\* Statuses that count as "needs attention".
OpenStatuses == Statuses \ Terminal

StatusesForFilter(f) ==
    IF f = AllOption THEN Statuses
    ELSE IF f = "OPEN_ONLY" THEN OpenStatuses ELSE {f}

IsMatch(row, f) == row # None /\ row.status \in StatusesForFilter(f)
Matches(f) == {i \in Incidents : IsMatch(incident[i], f)}

\* Mutant of Before: without the id, rows of one time come in any order.
BeforeByTime(i, j) == incident[i].started > incident[j].started

\* ORDER BY started_at DESC, id DESC
Before(i, j) ==
    \/ incident[i].started > incident[j].started
    \/ incident[i].started = incident[j].started /\ i > j

\* OFFSET o LIMIT n of the matches.
ListForOrganization(f, o, n) ==
    {i \in Matches(f) :
        Cardinality({j \in Matches(f) : Before(j, i)}) \in o..(o + n - 1)}

CountForOrganization(f) == Cardinality(Matches(f))

----------------------------------------------------------------------------
(* GET /api/incidents                                                      *)

Counts == 0..Cardinality(Incidents)

\* Bound on the offset: impatient clicks move it past the end without limit.
MaxOffset == Limit * Cardinality(Incidents)
Offsets == {n * Limit : n \in Counts}

\* "step" is the statement to run next, and after the last of them the answer
\* is on its way.
Load == [step : 1..3, filter : Filters, offset : Offsets,
         items : SUBSET Incidents, total : Counts]

Sent(f, o) == [step |-> 1, filter |-> f, offset |-> o, items |-> {}, total |-> 0]

InFlight == {l \in Loads : load[l] # None}

\* Mutant of Statements: the total is counted before the page is read.
StatementsSwapped == <<"count", "list">>

Statements == <<"list", "count">>

\* list_incidents runs its next statement.
ListIncidents(l) ==
    LET r == load[l] IN
    /\ r # None
    /\ r.step \in 1..2
    /\ load' = [load EXCEPT ![l] =
         IF Statements[r.step] = "list"
           THEN [r EXCEPT !.step = r.step + 1,
                          !.items = ListForOrganization(r.filter, r.offset, Limit)]
           ELSE [r EXCEPT !.step = r.step + 1,
                          !.total = CountForOrganization(r.filter)]]
    /\ UNCHANGED <<incident, view, offset, filter, shown, pager, dashboard, history>>

----------------------------------------------------------------------------
(* The page                                                                *)

Loading == [kind |-> "loading"]
Failed == [kind |-> "failed"]
Page(r) == [kind |-> "page", filter |-> r.filter, offset |-> r.offset,
            items |-> r.items, total |-> r.total]

Answer == [kind : {"page"}, filter : Filters, offset : Offsets,
           items : SUBSET Incidents, total : Counts]
Pagination == [total : Counts, offset : Offsets]

ASSUME NoneAssumption ==
    None \notin Loads \cup Row \cup Load \cup {Loading} \cup Answer \cup Pagination

\* A walk goes on while the user waits for each answer.
Patient(w) == IF InFlight = {} THEN w ELSE None

\* load(): the parameters are those of the controls at this moment.
SendLoad(l, f, o) ==
    /\ load[l] = None
    /\ load' = [load EXCEPT ![l] = Sent(f, o)]
    /\ shown' = Loading
    /\ newest' = l

\* updatePager: the buttons are enabled by the pagination of the last answer,
\* not by the offset, and before the first answer both are.  Its "hidden" has
\* no part in it: app.css gives the pager a display of its own, so that it is
\* always there to be clicked.
PreviousEnabled ==
    view = "list" /\ (pager # None => pager.offset # 0)

NextEnabled ==
    view = "list" /\ (pager # None => pager.offset + Limit < pager.total)

\* Mutant of PreviousOffset: without the lower bound.
PreviousOffsetUnbounded == offset - Limit

PreviousOffset == IF offset > Limit THEN offset - Limit ELSE 0

PreviousPage(l) ==
    /\ PreviousEnabled
    /\ offset' = PreviousOffset
    /\ SendLoad(l, filter, offset')
    /\ walk' = Patient(walk)
    /\ UNCHANGED <<incident, view, filter, pager, dashboard, overtaken>>

NextOffset == offset + Limit

NextPage(l) ==
    /\ NextEnabled
    /\ NextOffset <= MaxOffset
    /\ offset' = NextOffset
    /\ SendLoad(l, filter, offset')
    /\ walk' = Patient(walk)
    /\ UNCHANGED <<incident, view, filter, pager, dashboard, overtaken>>

\* Mutant of ChangeFilter: the offset is kept.
ChangeFilterKeepingOffset(l, f) ==
    /\ view = "list"
    /\ f # filter
    /\ filter' = f
    /\ SendLoad(l, f, offset)
    /\ walk' = Patient([due |-> Matches(f), seen |-> {}])
    /\ UNCHANGED <<incident, view, offset, pager, dashboard, overtaken>>

\* Mutant of LoadFilter: the request is built before the control has changed.
LoadFilterOld(f) == filter

LoadFilter(f) == f

\* Choosing a filter starts over at the first page.
ChangeFilter(l, f) ==
    /\ view = "list"
    /\ f # filter
    /\ filter' = f
    /\ offset' = 0
    /\ SendLoad(l, LoadFilter(f), 0)
    /\ walk' = Patient([due |-> Matches(f), seen |-> {}])
    /\ UNCHANGED <<incident, view, pager, dashboard, overtaken>>

Settle(l) ==
    /\ load[l] # None
    /\ load' = [load EXCEPT ![l] = None]
    /\ newest' = IF newest = l THEN None ELSE newest

\* Whatever else is in flight, an answer is drawn when it arrives.
Render(l) ==
    /\ Settle(l)
    /\ load[l].step = 3
    /\ shown' = Page(load[l])
    /\ pager' = [total |-> load[l].total, offset |-> load[l].offset]
    /\ overtaken' = (newest # l)
    /\ walk' = IF walk = None THEN None
               ELSE [walk EXCEPT !.seen = @ \cup load[l].items]
    /\ UNCHANGED <<incident, view, offset, filter, dashboard>>

\* Mutant of LoadFails: the error is reported but the list is left as it is.
LoadFailsSilently(l) ==
    /\ Settle(l)
    /\ walk' = None
    /\ UNCHANGED <<incident, view, offset, filter, shown, pager, dashboard, overtaken>>

\* The request or its answer is lost, or the server refuses it.  The pager
\* stays as it is and the offset too, so a second click skips a page.
LoadFails(l) ==
    /\ Settle(l)
    /\ shown' = Failed
    /\ walk' = None
    /\ UNCHANGED <<incident, view, offset, filter, pager, dashboard, overtaken>>

----------------------------------------------------------------------------
(* GET /api/dashboard                                                      *)

NewSummary == [step |-> 1, open |-> 0, total |-> 0, recent |-> {}]

\* Mutant of Summary: all incidents are counted before the open ones.
SummarySwapped(d) ==
    CASE d.step = 1 -> [d EXCEPT !.total = CountForOrganization(AllOption)]
      [] d.step = 2 -> [d EXCEPT !.open = CountForOrganization("OPEN_ONLY")]
      [] d.step = 3 -> [d EXCEPT !.recent = ListForOrganization(AllOption, 0, Recent)]

Summary(d) ==
    CASE d.step = 1 -> [d EXCEPT !.open = CountForOrganization("OPEN_ONLY")]
      [] d.step = 2 -> [d EXCEPT !.total = CountForOrganization(AllOption)]
      [] d.step = 3 -> [d EXCEPT !.recent = ListForOrganization(AllOption, 0, Recent)]

\* dashboard_summary runs its next statement; the two statements about projects
\* that follow have no part in what is modelled.
DashboardSummary ==
    /\ dashboard # None
    /\ dashboard.step \in 1..3
    /\ dashboard' = [Summary(dashboard) EXCEPT !.step = dashboard.step + 1]
    /\ UNCHANGED <<incident, page, history>>

\* The page is loaded again.
DashboardDone ==
    /\ dashboard # None
    /\ dashboard.step = 4
    /\ dashboard' = NewSummary
    /\ UNCHANGED <<incident, page, history>>

----------------------------------------------------------------------------
(* Writers: incidents are never deleted                                    *)

\* Ids are drawn before the commit, so they need not appear in order.
CreateIncident(i, t) ==
    /\ incident[i] = None
    /\ incident' = [incident EXCEPT ![i] = [started |-> t, status |-> "OPEN"]]
    /\ UNCHANGED <<page, dashboard, history>>

UpdateIncident(i, row) ==
    /\ incident[i] # None
    /\ incident' = [incident EXCEPT ![i] = row]
    /\ walk' = IF /\ IsMatch(incident[i], filter)
                  /\ IsMatch(row, filter) => row.started # incident[i].started
                 THEN None ELSE walk
    /\ UNCHANGED <<page, dashboard, newest, overtaken>>

----------------------------------------------------------------------------

\* The list opens with the filter "Open" and sends its first load.
Init ==
    /\ incident = [i \in Incidents |-> None]
    /\ offset = 0
    /\ filter = "OPEN_ONLY"
    /\ view \in {"list", "dashboard"}
    /\ newest \in IF view = "list" THEN Loads ELSE {None}
    /\ load = [l \in Loads |-> IF l = newest THEN Sent(filter, 0) ELSE None]
    /\ shown = IF view = "list" THEN Loading ELSE None
    /\ pager = None
    /\ dashboard = IF view = "dashboard" THEN NewSummary ELSE None
    /\ overtaken = FALSE
    /\ walk = [due |-> {}, seen |-> {}]

Click(l) == PreviousPage(l) \/ NextPage(l) \/ \E f \in Filters : ChangeFilter(l, f)

Next ==
    \/ \E l \in Loads : Click(l) \/ ListIncidents(l) \/ Render(l) \/ LoadFails(l)
    \/ DashboardSummary
    \/ DashboardDone
    \/ \E i \in Incidents, t \in Starts : CreateIncident(i, t)
    \/ \E i \in Incidents, row \in Row : UpdateIncident(i, row)

Spec == Init /\ [][Next]_vars

----------------------------------------------------------------------------
(* Properties                                                              *)

PageShown == shown # None /\ shown.kind = "page"

TypeOK ==
    /\ incident \in [Incidents -> Row \cup {None}]
    /\ offset \in Offsets
    /\ filter \in Filters
    /\ load \in [Loads -> Load \cup {None}]
    /\ view \in {"list", "dashboard"}
    /\ shown \in {None, Loading, Failed} \cup Answer
    /\ pager \in Pagination \cup {None}
    /\ dashboard \in {None} \cup [step : 1..4, open : Counts, total : Counts,
                                  recent : SUBSET Incidents]
    /\ newest \in InFlight \cup {None}
    /\ overtaken \in BOOLEAN
    /\ walk \in {None} \cup [due : SUBSET Incidents, seen : SUBSET Incidents]

\* The counters of the dashboard are separate statements, and so is its list.
\* Still it never shows more open incidents than incidents, and it lists as
\* many recent ones as its total calls for: the wider statement always comes
\* later, and incidents are never deleted.
DashboardAgrees ==
    dashboard # None /\ dashboard.step = 4 =>
        /\ dashboard.open <= dashboard.total
        /\ dashboard.total <= Cardinality(dashboard.recent)
           \/ Cardinality(dashboard.recent) = Recent

\* The list of all incidents never has more rows, counted from its offset, than
\* the total it is shown with, which updatePager would hide by clamping "1-25"
\* to the total: the total is counted after the page is read.  (With a filter it
\* can: an incident that leaves the matches in between is on the page and not in
\* the total.)
PageWithinTotal ==
    PageShown /\ shown.filter = AllOption /\ shown.items # {} =>
        shown.offset + Cardinality(shown.items) <= shown.total

\* When nothing is in flight, the page shown is the one the controls ask for,
\* unless an older load was answered after the newest.
ShownFits ==
    PageShown /\ InFlight = {} /\ ~overtaken =>
        shown.filter = filter /\ shown.offset = offset

\* "Nothing matches this filter." beyond the first page: a user who gets an
\* answer to every load before the next click only comes there if incidents
\* left the matches, or were moved to another time, since the filter was chosen.
\* (Impatient clicks lead there too, and on the first page it can be said
\* beside a total that counts an incident created in between.)
PastEndCause ==
    PageShown /\ shown.items = {} /\ shown.offset > 0 => walk = None

\* A user who gets an answer to every load before the next click, and goes on
\* until Next is disabled, has seen every incident that matched when the filter
\* was chosen, whatever was created meanwhile: new incidents only push others to
\* later pages.  (It takes an update that resolves or moves an incident to make
\* one slip past, an impatient click, or a load that fails: the offset has moved
\* by then, and a second click skips the page.)
WalkComplete ==
    PageShown /\ walk # None /\ ~NextEnabled => walk.due \subseteq walk.seen

\* The list says "Loading" only while an answer is awaited.
LoadingAwaited == shown = Loading => InFlight # {}

=============================================================================
