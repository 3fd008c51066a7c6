------------------------------ MODULE Sessions ------------------------------
(***************************************************************************)
(* The session cookie, from the browser to the context a request acts      *)
(* with, and back.                                                         *)
(*                                                                         *)
(* The server keeps no sessions: the cookie holds a signed token with the  *)
(* user, the organization, the time of issue and an expiry, and every      *)
(* request reads the user and the membership anew.  Several tasks serve a  *)
(* browser, each with its own clock, and they may disagree about a token.  *)
(* The pages redirect between each other on the answer, and the scripts    *)
(* go to /login on every 401, so that a disagreement sends the browser     *)
(* back and forth.                                                         *)
(*                                                                         *)
(* One user with one browser, one of whose tabs is modelled step by step.  *)
(* Memberships and the account are changed by an operator: no endpoint     *)
(* does.  Organizations are not deleted.                                   *)
(***************************************************************************)
EXTENDS Integers, Sequences, SequencesExt

CONSTANTS
    Orgs,          \* organizations
    Roles,         \* values of OrganizationMember.role
    WriteRoles,    \* PROJECT_WRITE_ROLES
    Protected,     \* paths of pages behind page_login_required
    Aheads,        \* how far the clocks of the tasks run ahead of the slowest
    Ttl,           \* session_ttl_seconds
    None,
    MaxClock,      \* bound: the time the model runs
    MaxChanges     \* bound: changes by the operator and by other tabs

ASSUME RolesAssumption == "owner" \in WriteRoles /\ WriteRoles \subseteq Roles
ASSUME ClockAssumption ==
    Aheads \subseteq Nat /\ Ttl \in Nat \ {0} /\ MaxClock \in Nat /\ MaxChanges \in Nat
ASSUME TasksAssumption == \E a \in Aheads : \A b \in Aheads : b <= a

VARIABLES
    clock,         \* the clock of the slowest task
    account,       \* the user's row: "none", "active" or "disabled"
    member,        \* the user's memberships, by id
    cookie,        \* the session cookie of the browser: a token or None
    at,            \* the page the tab shows
    asked,         \* the "next" of the login page it shows
    req,           \* the tab's request in flight
    leaving,       \* history: what became of the last logout of this tab,
                   \* until somebody signs in in this browser
    since,         \* history: what was true since the request was sent
    changes        \* bound: counts changes

database == <<account, member>>
tab == <<at, asked, req>>
vars == <<clock, database, cookie, tab, leaving, since, changes>>

----------------------------------------------------------------------------
(* Tokens and contexts                                                     *)

MostAhead == CHOOSE a \in Aheads : \A b \in Aheads : b <= a

Token == [org : Orgs, iat : 0..(MaxClock + MostAhead)]
Member == [org : Orgs, role : Roles]

\* Mutant of CreateSessionToken: the times of issue and expiry are mixed up.
CreateSessionTokenLate(org, a) == [org |-> org, iat |-> clock + a + Ttl]

\* create_session_token, by a task that is "a" ahead.
CreateSessionToken(org, a) == [org |-> org, iat |-> clock + a]

\* Mutant of Decodes: the expiry is not looked at.
DecodesExpired(token, now) == token # None /\ token.iat <= now

\* Mutant of Decodes: a token of this very second is taken to be early.
DecodesLater(token, now) == token # None /\ token.iat < now /\ now < token.iat + Ttl

\* decode_session_token: a token from a clock that is ahead is refused too.
Decodes(token, now) == token # None /\ token.iat <= now /\ now < token.iat + Ttl

\* get_membership
Membership(org, rows) ==
    IF \E i \in DOMAIN rows : rows[i].org = org
      THEN rows[CHOOSE i \in DOMAIN rows : rows[i].org = org].role
      ELSE None

----------------------------------------------------------------------------
(* Requests                                                                *)

OpenPages == {"login", "register"}
Pages == {"index"} \cup OpenPages \cup Protected
Api == {"read", "write"}         \* GET /api/auth/me or a list; POST /api/projects
AuthPosts == {"sign_in", "sign_up", "sign_out"}

ASSUME PagesAssumption ==
    /\ "dashboard" \in Protected
    /\ Protected \cap ({"index", "blank", "error"} \cup OpenPages \cup Api \cup AuthPosts) = {}

Answers == [kind : {"page", "redirect", "ok", "401", "403", "409", "429"},
            to : Pages \cup {None}, next : Protected \cup {None},
            cookies : SUBSET (Token \cup {None})]
Request == [path : Pages \cup Api \cup AuthPosts, next : Protected \cup {None},
            token : Token \cup {None}, ahead : Aheads,
            step : {"user", "member", "act", "answer"}, attempt : {1, 2},
            role : Roles \cup {None}, answer : Answers \cup {None}]

ASSUME NoneAssumption ==
    None \notin Pages \cup Roles \cup Token \cup Answers \cup Request

\* An answer: what it is, the path and the "next" it redirects to, and the
\* cookies it sets: none, a token, or None to clear it.
Answer(kind, to, next, cookies) ==
    [kind |-> kind, to |-> to, next |-> next, cookies |-> cookies]
Plain(kind) == Answer(kind, None, None, {})
RedirectTo(path, next) == Answer("redirect", path, next, {})

Verdict(b) == IF b THEN "yes" ELSE "no"
Verdicts == {"yes", "no"}
Known == [valid : SUBSET Verdicts, active : SUBSET Verdicts, role : SUBSET (Roles \cup {None})]
Unknown == [valid |-> {}, active |-> {}, role |-> {}]

\* Why a request may be taken for an anonymous one.
Cause == "no" \in since.valid \/ "no" \in since.active \/ None \in since.role

\* What holds of the request's token at a time, for the task that serves it.
Facts(r, now, acc, rows) ==
    IF r.token = None THEN [Unknown EXCEPT !.valid = {"no"}]
    ELSE [valid |-> {Verdict(now + r.ahead \in r.token.iat..(r.token.iat + Ttl - 1))},
          active |-> {Verdict(acc = "active")},
          role |-> {Membership(r.token.org, rows)}]
Observe(facts) == [f \in DOMAIN since |-> since[f] \cup facts[f]]

\* The first thing the server does for a request.
FirstStep(path) == IF path \in AuthPosts THEN "act" ELSE "user"

\* The browser sends a request with the cookie it has, and the load balancer
\* picks a task.
Send(path, next, token) ==
    \E a \in Aheads :
        /\ req' = [path |-> path, next |-> next, token |-> token, ahead |-> a,
                   step |-> FirstStep(path), attempt |-> 1, role |-> None, answer |-> None]
        /\ since' = Facts(req', clock, account, member)

Serving(step) == req # None /\ req.step = step

----------------------------------------------------------------------------
(* The server                                                              *)

\* AuthError while the context is loaded.  The rate limiter asks first, for
\* every API request, and takes it for an anonymous one; login_required then
\* asks again.
Refused(r) ==
    IF r.path \in Api /\ r.attempt = 1
      THEN [r EXCEPT !.attempt = 2, !.step = "user"]
      ELSE [r EXCEPT !.step = "act"]

\* load_context: the token is decoded and the user read.
ReadUser ==
    /\ Serving("user")
    /\ req' = IF Decodes(req.token, clock + req.ahead) /\ account = "active"
                THEN [req EXCEPT !.step = "member"] ELSE Refused(req)
    /\ UNCHANGED <<clock, database, cookie, at, asked, leaving, since, changes>>

\* load_context_from_claims: the membership is a statement of its own.
ReadMembership ==
    /\ Serving("member")
    /\ LET role == Membership(req.token.org, member) IN
       req' = IF role # None THEN [req EXCEPT !.role = role, !.step = "act"]
                             ELSE Refused(req)
    /\ UNCHANGED <<clock, database, cookie, at, asked, leaving, since, changes>>

\* The answer is on its way.
Reply(answer) == req' = [req EXCEPT !.step = "answer", !.answer = answer]

SignedIn(r) == r.role # None

\* Mutant of OpenPage: the form is shown to everybody.
OpenPageAlways(r) == Plain("page")

\* Mutant of OpenPage: a token that decodes is good enough.
OpenPageDecoding(r) ==
    IF Decodes(r.token, clock + r.ahead) THEN RedirectTo("dashboard", None)
                                         ELSE Plain("page")

\* login_page, register_page
OpenPage(r) ==
    IF SignedIn(r) THEN RedirectTo("dashboard", None) ELSE Plain("page")

Index(r) == RedirectTo(IF SignedIn(r) THEN "dashboard" ELSE "login", None)

\* page_login_required
ProtectedPage(r) ==
    IF SignedIn(r) THEN Plain("page") ELSE RedirectTo("login", r.path)

PageAnswer(r) ==
    CASE r.path = "index" -> Index(r)
      [] r.path \in OpenPages -> OpenPage(r)
      [] r.path \in Protected -> ProtectedPage(r)

\* _require_write_role
MayWrite(r) == r.role \in WriteRoles

\* With the role read above, however long ago.
ApiAnswer(r) ==
    IF ~SignedIn(r) THEN Plain("401")
    ELSE IF r.path = "write" /\ ~MayWrite(r) THEN Plain("403")
    ELSE Plain("ok")

AnswerRequest ==
    /\ Serving("act")
    /\ \/ req.path \in Pages /\ Reply(PageAnswer(req))
       \/ req.path \in Api /\ Reply(ApiAnswer(req))
    /\ UNCHANGED <<clock, database, cookie, at, asked, leaving, since, changes>>

\* The limiter refuses; pages are not limited.
RateLimited ==
    /\ Serving("act")
    /\ req.path \in Api \cup AuthPosts
    /\ Reply(Plain("429"))
    /\ UNCHANGED <<clock, database, cookie, at, asked, leaving, since, changes>>

SessionResponse(org) ==
    Answer("ok", None, None, {CreateSessionToken(org, req.ahead)})

\* login, with the right password: the organization is that of the oldest
\* membership.
Login ==
    /\ Serving("act")
    /\ req.path = "sign_in"
    /\ account = "active"
    /\ member # <<>>
    /\ Reply(SessionResponse(member[1].org))
    /\ UNCHANGED <<clock, database, cookie, at, asked, leaving, since, changes>>

\* No such account or a wrong password, a disabled account, no membership.
LoginRefused ==
    /\ Serving("act")
    /\ req.path = "sign_in"
    /\ Reply(Plain("401"))
    /\ UNCHANGED <<clock, database, cookie, at, asked, leaving, since, changes>>

\* register: the user owns a new organization.
Register(org) ==
    /\ Serving("act")
    /\ req.path = "sign_up"
    /\ account = "none"
    /\ account' = "active"
    /\ member' = <<[org |-> org, role |-> "owner"]>>
    /\ Reply(SessionResponse(org))
    /\ since' = Observe(Facts(req, clock, account', member'))
    /\ UNCHANGED <<clock, cookie, at, asked, leaving, changes>>

RegisterConflict ==
    /\ Serving("act")
    /\ req.path = "sign_up"
    /\ account # "none"
    /\ Reply(Plain("409"))
    /\ UNCHANGED <<clock, database, cookie, at, asked, leaving, since, changes>>

\* Mutant of LogoutCookie: the answer does not clear the cookie that was set.
LogoutCookieKept == {}

LogoutCookie == {None}

\* logout: not authenticated, and nothing to revoke.
Logout ==
    /\ Serving("act")
    /\ req.path = "sign_out"
    /\ Reply(Answer("ok", None, None, LogoutCookie))
    /\ UNCHANGED <<clock, database, cookie, at, asked, leaving, since, changes>>

Serve ==
    \/ ReadUser \/ ReadMembership \/ AnswerRequest \/ RateLimited
    \/ Login \/ LoginRefused \/ Logout \/ RegisterConflict
    \/ \E org \in Orgs : Register(org)

----------------------------------------------------------------------------
(* The browser                                                             *)

CookieAfter(set) == IF set = {} THEN cookie ELSE CHOOSE c \in set : TRUE

\* At rest it is only remembered whether there was a cause to turn the last
\* request away.
Rest == req' = None /\ since' = IF Cause THEN [Unknown EXCEPT !.valid = {"no"}] ELSE Unknown

\* A redirect is followed with the cookies of the same answer.
FollowRedirect ==
    /\ Serving("answer")
    /\ req.answer.kind = "redirect"
    /\ Send(req.answer.to, req.answer.next, cookie)
    /\ UNCHANGED <<clock, database, cookie, at, asked, leaving, changes>>

\* A page of the application loads the session for its badge.
ShowPage ==
    /\ Serving("answer")
    /\ req.answer.kind = "page"
    /\ at' = req.path
    /\ asked' = req.next
    /\ IF req.path \in Protected THEN Send("read", None, cookie) ELSE Rest
    /\ UNCHANGED <<clock, database, cookie, leaving, changes>>

\* reportError: a 401 goes to the login page, anything else is only shown.
ReadReported ==
    /\ Serving("answer")
    /\ req.path = "read"
    /\ IF req.answer.kind = "401" THEN Send("login", None, cookie) ELSE Rest
    /\ UNCHANGED <<clock, database, cookie, at, asked, leaving, changes>>

\* The form for a project shows what went wrong, a 401 too, and the list is
\* loaded again when nothing did.
WriteReported ==
    /\ Serving("answer")
    /\ req.path = "write"
    /\ IF req.answer.kind = "ok" THEN Send("read", None, cookie) ELSE Rest
    /\ UNCHANGED <<clock, database, cookie, at, asked, leaving, changes>>

\* The form of login.html was answered.
FormAnswered ==
    /\ Serving("answer")
    /\ req.path \in {"sign_in", "sign_up"}
    /\ cookie' = CookieAfter(req.answer.cookies)
    /\ IF req.answer.kind = "ok"
         THEN Send(IF asked # None THEN asked ELSE "dashboard", None, cookie') ELSE Rest
    /\ UNCHANGED <<clock, database, at, asked, leaving, changes>>

\* Whatever the answer to the logout, the browser goes to the login page.
LogoutAnswered ==
    /\ Serving("answer")
    /\ req.path = "sign_out"
    /\ cookie' = CookieAfter(req.answer.cookies)
    /\ leaving' = IF req.answer.kind = "ok" THEN "done" ELSE "failed"
    /\ Send("login", None, cookie')
    /\ UNCHANGED <<clock, database, at, asked, changes>>

\* The request or its answer is lost.
Lost ==
    /\ req # None
    /\ CASE req.path \in Pages -> at' = "error" /\ Rest /\ UNCHANGED leaving
         [] req.path = "sign_out" ->
              Send("login", None, cookie) /\ leaving' = "failed" /\ UNCHANGED at
         [] OTHER -> Rest /\ UNCHANGED <<at, leaving>>
    /\ UNCHANGED <<clock, database, cookie, asked, changes>>

Deliver ==
    \/ FollowRedirect \/ ShowPage \/ ReadReported \/ WriteReported
    \/ FormAnswered \/ LogoutAnswered

----------------------------------------------------------------------------
(* The user at this tab                                                    *)

Idle == req = None

Open(path) ==
    /\ Idle
    /\ Send(path, None, cookie)
    /\ UNCHANGED <<clock, database, cookie, at, asked, leaving, changes>>

Submit ==
    /\ Idle
    /\ \/ at = "login" /\ Send("sign_in", None, cookie)
       \/ at = "register" /\ Send("sign_up", None, cookie)
    /\ leaving' = "no"
    /\ UNCHANGED <<clock, database, cookie, at, asked, changes>>

ClickLogout ==
    /\ Idle
    /\ at \in Protected
    /\ Send("sign_out", None, cookie)
    /\ leaving' = "sent"
    /\ UNCHANGED <<clock, database, cookie, at, asked, changes>>

CreateProject ==
    /\ Idle
    /\ at \in Protected
    /\ Send("write", None, cookie)
    /\ UNCHANGED <<clock, database, cookie, at, asked, leaving, changes>>

User == (\E path \in Pages : Open(path)) \/ Submit \/ ClickLogout \/ CreateProject

----------------------------------------------------------------------------
(* Everybody else                                                          *)

Keep(facts) == since' = IF req = None THEN since ELSE Observe(facts)

Tick ==
    /\ clock < MaxClock
    /\ clock' = clock + 1
    /\ Keep(Facts(req, clock', account, member))
    /\ UNCHANGED <<database, cookie, tab, leaving, changes>>

Change == changes < MaxChanges /\ changes' = changes + 1

\* The operator: the account is disabled or enabled, a membership removed,
\* added or given another role.
ChangeAccount ==
    /\ Change
    /\ account # "none"
    /\ account' = IF account = "active" THEN "disabled" ELSE "active"
    /\ Keep(Facts(req, clock, account', member))
    /\ UNCHANGED <<clock, member, cookie, tab, leaving>>

RemoveMember(i) ==
    /\ Change
    /\ i \in DOMAIN member
    /\ member' = RemoveAt(member, i)
    /\ Keep(Facts(req, clock, account, member'))
    /\ UNCHANGED <<clock, account, cookie, tab, leaving>>

AddMember(row) ==
    /\ Change
    /\ account # "none"
    /\ Membership(row.org, member) = None
    /\ member' = Append(member, row)
    /\ Keep(Facts(req, clock, account, member'))
    /\ UNCHANGED <<clock, account, cookie, tab, leaving>>

ChangeRole(i, role) ==
    /\ Change
    /\ i \in DOMAIN member
    /\ role # member[i].role
    /\ member' = [member EXCEPT ![i].role = role]
    /\ Keep(Facts(req, clock, account, member'))
    /\ UNCHANGED <<clock, account, cookie, tab, leaving>>

\* Another tab of the browser has signed in.
OtherTabSignsIn(a) ==
    /\ Change
    /\ account = "active"
    /\ member # <<>>
    /\ cookie' = CreateSessionToken(member[1].org, a)
    /\ leaving' = "no"
    /\ UNCHANGED <<clock, database, tab, since>>

\* Another tab has signed out, the user has cleared the cookies, or Max-Age is
\* over.
CookieDropped ==
    /\ Change
    /\ cookie # None
    /\ cookie' = None
    /\ UNCHANGED <<clock, database, tab, leaving, since>>

Others ==
    \/ Tick \/ ChangeAccount \/ CookieDropped
    \/ \E i \in DOMAIN member : RemoveMember(i) \/ \E role \in Roles : ChangeRole(i, role)
    \/ \E row \in Member : AddMember(row)
    \/ \E a \in Aheads : OtherTabSignsIn(a)

----------------------------------------------------------------------------

\* A browser without a cookie, and a user without an account.
Init ==
    /\ clock = 0
    /\ account = "none"
    /\ member = <<>>
    /\ cookie = None
    /\ at = "blank"
    /\ asked = None
    /\ req = None
    /\ leaving = "no"
    /\ since = Unknown
    /\ changes = 0

Next == Serve \/ Deliver \/ Lost \/ User \/ Others

\* The server works on a request until it is answered, and the answer arrives
\* unless it is lost.  Nothing is assumed of the user, the operator, other tabs,
\* or the clocks.
Spec == Init /\ [][Next]_vars /\ WF_vars(Serve) /\ WF_vars(Deliver)

----------------------------------------------------------------------------
(* Properties                                                              *)

TypeOK ==
    /\ clock \in 0..MaxClock
    /\ account \in {"none", "active", "disabled"}
    /\ member \in Seq(Member)
    /\ cookie \in Token \cup {None}
    /\ at \in {"blank", "error"} \cup OpenPages \cup Protected
    /\ asked \in Protected \cup {None}
    /\ leaving \in {"no", "sent", "done", "failed"}
    /\ since \in Known
    /\ changes \in 0..MaxChanges
    /\ req \in Request \cup {None}

\* An answer that took the request for a signed-in one.
Welcomed ==
    /\ Serving("answer")
    /\ \/ req.path \in Api /\ req.answer.kind \in {"ok", "403"}
       \/ req.path \in Protected /\ req.answer.kind = "page"

\* "The membership is re-read on every request rather than trusted from the
\* token": whoever is welcomed had a token in its time, an active account, and
\* in the organization of the token the very role that was used, each at some
\* moment after the request was sent, though not all at the same moment, and
\* not necessarily still at the commit.
ContextHeld ==
    Welcomed => "yes" \in since.valid /\ "yes" \in since.active /\ req.role \in since.role

\* Nobody is turned away without a cause: a token that is missing, early or
\* expired for the task that was asked, a disabled account, or no membership in
\* the organization of the token, at some moment since the request was sent.
TurnedAwayForCause ==
    /\ Serving("answer")
    /\ \/ req.path \in Api /\ req.answer.kind = "401"
       \/ req.path \in Pages /\ req.answer.kind = "redirect" /\ req.answer.to = "login"
    => Cause

\* A logout that was refused or lost still sends the browser to the login page.
\* It is then shown as signed out only if it has no cookie, or one that was
\* refused: a live session comes back as the dashboard.
SignedOutIsShown ==
    leaving \in {"done", "failed"} /\ at = "login" /\ Idle => cookie = None \/ Cause

\* After an answered logout no page of the application is shown until somebody
\* signs in in this browser, whatever is opened meanwhile.
LogoutHolds ==
    leaving = "done" => ~(at \in Protected /\ (Idle \/ req.path \in Api))

\* All tasks judge the cookie alike.
Agree == cookie # None =>
    \A a, b \in Aheads : Decodes(cookie, clock + a) = Decodes(cookie, clock + b)

\* The browser comes to rest: the redirects between the pages and the scripts
\* that go to /login bounce it back and forth for no longer than the clocks of
\* the tasks disagree about its cookie.
ComesToRest == <>[]Agree => []<>Idle

=============================================================================
