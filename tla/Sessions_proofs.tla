-------------------------- MODULE Sessions_proofs --------------------------
(***************************************************************************)
(* Who is let in and who is turned away, and what a logout leaves behind,  *)
(* for any organizations, roles, pages, number of tasks, clock differences *)
(* and token lifetime.                                                     *)
(***************************************************************************)
EXTENDS Sessions, SequenceTheorems, TLAPS

USE RolesAssumption, PagesAssumption, ClockAssumption, NoneAssumption

----------------------------------------------------------------------------
(* The inductive invariant                                                 *)

\* What has been true since the request was sent includes what is true now.
Tracked == req # None =>
    LET facts == Facts(req, clock, account, member) IN
    /\ facts.valid \subseteq since.valid
    /\ facts.active \subseteq since.active
    /\ facts.role \subseteq since.role

Vouched == "yes" \in since.valid /\ "yes" \in since.active

\* What the server has found out by the step it has come to: the role was read
\* after the token and the account were found good, and who has none when the
\* request is acted upon was refused for a cause.
StepFit == req # None =>
    /\ req.step \in {"user", "member"} => req.role = None /\ req.path \notin AuthPosts
    /\ req.step = "member" => req.token # None /\ Vouched
    /\ req.role # None => req.token # None /\ Vouched /\ req.role \in since.role
    /\ req.step \in {"act", "answer"} /\ req.role = None => req.path \in AuthPosts \/ Cause
    /\ req.step = "answer" => req.answer # None

\* What an answer says of the request it is for.
AnswerFit == Serving("answer") =>
    LET kind == req.answer.kind IN
    /\ req.path \in Api =>
          /\ kind = "401" => req.role = None
          /\ kind \in {"ok", "403"} => req.role # None
    /\ kind = "redirect" => req.path \in Pages /\ req.answer.to \in Pages
    /\ kind = "redirect" /\ req.answer.to = "login" => req.role = None
    /\ kind = "page" => req.path \in OpenPages \cup Protected
    /\ kind = "page" => (req.role = None <=> req.path \in OpenPages)
    /\ req.path = "sign_out" /\ kind = "ok" => req.answer.cookies = {None}

\* Scripts run on the pages that have them.
PathFit == req # None =>
    /\ req.path \in Api \cup {"sign_out"} => at \in Protected
    /\ req.path \in {"sign_in", "sign_up"} => leaving = "no"

\* What an answered logout leaves: nothing that could let a page be shown.
LeavingFit == leaving = "done" =>
    /\ cookie = None
    /\ req # None => req.token = None /\ req.path \in Pages
    /\ at \in Protected => ~Idle

Inv ==
    /\ TypeOK
    /\ Tracked /\ StepFit /\ AnswerFit
    /\ PathFit /\ LeavingFit /\ SignedOutIsShown

----------------------------------------------------------------------------
(* Tokens, memberships and facts                                           *)

\* A membership lookup finds a role of one of the rows, or None.
LEMMA MembershipType ==
    ASSUME NEW rows \in Seq(Member), NEW org
    PROVE  Membership(org, rows) \in Roles \cup {None}
<1>1. CASE \E i \in DOMAIN rows : rows[i].org = org
  <2>1. PICK i \in DOMAIN rows : i = CHOOSE j \in DOMAIN rows : rows[j].org = org
    BY <1>1
  <2>2. rows[i] \in Member
    BY ElementOfSeq, LenProperties
  <2> QED
    BY <1>1, <2>1, <2>2 DEF Membership, Member
<1>2. CASE ~\E i \in DOMAIN rows : rows[i].org = org
  BY <1>2 DEF Membership
<1> QED
  BY <1>1, <1>2

\* The facts about a request are of the type of its history.
LEMMA FactsType ==
    ASSUME NEW r \in Request, NEW now, NEW acc, NEW rows \in Seq(Member)
    PROVE  Facts(r, now, acc, rows) \in Known
<1>1. Membership(r.token.org, rows) \in Roles \cup {None}
  BY MembershipType
<1> QED
  BY <1>1 DEF Facts, Known, Unknown, Verdict, Verdicts

\* A token decodes exactly if the facts say that it is valid.
LEMMA DecodesFact ==
    ASSUME NEW r \in Request, NEW now \in Nat, NEW acc, NEW rows
    PROVE  /\ Decodes(r.token, now + r.ahead) =>
                 r.token # None /\ "yes" \in Facts(r, now, acc, rows).valid
           /\ ~Decodes(r.token, now + r.ahead) => "no" \in Facts(r, now, acc, rows).valid
<1>1. r.ahead \in Nat /\ (r.token # None => r.token.iat \in Int)
  BY DEF Request, Token
<1> QED
  BY <1>1 DEF Facts, Decodes, Unknown, Verdict

\* A new request: nothing is known of it but what is true now.
LEMMA SendFit ==
    ASSUME TypeOK, NEW path \in Pages \cup Api \cup AuthPosts,
           NEW next \in Protected \cup {None}, NEW token \in Token \cup {None},
           Send(path, next, token), UNCHANGED <<clock, account, member>>
    PROVE  /\ req' \in Request /\ since' \in Known
           /\ req'.path = path /\ req'.token = token /\ req'.role = None
           /\ Tracked' /\ StepFit' /\ AnswerFit'
<1>1. PICK a \in Aheads :
        /\ req' = [path |-> path, next |-> next, token |-> token, ahead |-> a,
                   step |-> FirstStep(path), attempt |-> 1, role |-> None, answer |-> None]
        /\ since' = Facts(req', clock, account, member)
  BY DEF Send
<1>2. req' \in Request
  BY <1>1 DEF Request, FirstStep
<1>3. since' \in Known
  BY <1>1, <1>2, FactsType DEF TypeOK
<1>4. Tracked'
  BY <1>1 DEF Tracked
<1>5. StepFit' /\ AnswerFit'
  BY <1>1 DEF StepFit, AnswerFit, Serving, FirstStep, AuthPosts
<1> QED
  BY <1>1, <1>2, <1>3, <1>4, <1>5

----------------------------------------------------------------------------
(* The server                                                              *)

\* A step of the server that leaves the history alone: what is left to show
\* for it is what it makes of the request.
LEMMA ServerFit ==
    ASSUME Inv, req # None, req' \in Request,
           req'.path = req.path, req'.token = req.token, req'.ahead = req.ahead,
           UNCHANGED <<clock, database, cookie, at, asked, leaving, since, changes>>,
           StepFit', AnswerFit'
    PROVE  Inv'
<1> USE DEF Inv, database
<1>1. TypeOK'
  BY DEF TypeOK
<1>2. Tracked'
  BY DEF Tracked, Facts
<1>3. PathFit' /\ LeavingFit' /\ SignedOutIsShown'
  BY DEF PathFit, LeavingFit, SignedOutIsShown, Idle
<1> QED
  BY <1>1, <1>2, <1>3

\* A refusal has its cause.
LEMMA RefusedFit ==
    ASSUME Inv, req # None, req.step \in {"user", "member"}, Cause,
           req' = Refused(req), UNCHANGED since
    PROVE  req' \in Request /\ StepFit' /\ AnswerFit'
<1>1. req \in Request
  BY DEF Inv, TypeOK
<1>2. req' \in Request
  BY <1>1 DEF Refused, Request
<1>3. StepFit'
  BY <1>1 DEF Inv, StepFit, Refused, Request, Api, AuthPosts, Cause
<1>4. AnswerFit'
  BY <1>1 DEF AnswerFit, Refused, Request, Serving
<1> QED
  BY <1>2, <1>3, <1>4

LEMMA ReadUserFit ==
    ASSUME Inv, ReadUser
    PROVE  Inv'
<1> USE DEF Inv
<1>1. req # None /\ req.step = "user" /\ req \in Request /\ clock \in Nat
  BY DEF ReadUser, Serving, TypeOK
<1>2. CASE Decodes(req.token, clock + req.ahead) /\ account = "active"
  <2>1. req' = [req EXCEPT !.step = "member"]
    BY <1>2 DEF ReadUser
  <2>2. req.token # None /\ "yes" \in since.valid
    BY <1>1, <1>2, DecodesFact DEF Tracked
  <2>3. "yes" \in since.active
    BY <1>1, <1>2, <2>2 DEF Tracked, Facts, Verdict
  <2>4. req' \in Request
    BY <1>1, <2>1 DEF Request
  <2>5. StepFit' /\ AnswerFit'
    BY <1>1, <2>1, <2>2, <2>3 DEF StepFit, AnswerFit, Serving, Vouched, Request, ReadUser
  <2> QED
    BY <1>1, <2>1, <2>4, <2>5, ServerFit DEF ReadUser, Request
<1>3. CASE ~(Decodes(req.token, clock + req.ahead) /\ account = "active")
  <2>1. req' = Refused(req)
    BY <1>3 DEF ReadUser
  <2>2. Cause
    <3>1. CASE ~Decodes(req.token, clock + req.ahead)
      BY <1>1, <3>1, DecodesFact DEF Tracked, Cause
    <3>2. CASE Decodes(req.token, clock + req.ahead) /\ account # "active"
      <4>1. req.token # None
        BY <1>1, <3>2, DecodesFact
      <4> QED
        BY <1>1, <3>2, <4>1 DEF Tracked, Facts, Verdict, Cause
    <3> QED
      BY <1>3, <3>1, <3>2
  <2>3. req' \in Request /\ StepFit' /\ AnswerFit'
    BY <1>1, <2>1, <2>2, RefusedFit DEF ReadUser
  <2> QED
    BY <1>1, <2>1, <2>3, ServerFit DEF ReadUser, Refused, Request
<1> QED
  BY <1>2, <1>3

LEMMA ReadMembershipFit ==
    ASSUME Inv, ReadMembership
    PROVE  Inv'
<1> USE DEF Inv
<1> DEFINE role == Membership(req.token.org, member)
<1>1. /\ req # None /\ req.step = "member" /\ req \in Request
      /\ req.token # None /\ Vouched
      /\ role \in Roles \cup {None} /\ role \in since.role
  <2>1. req # None /\ req.step = "member" /\ req \in Request
    BY DEF ReadMembership, Serving, TypeOK
  <2>2. req.token # None /\ Vouched
    BY <2>1 DEF StepFit
  <2>3. role \in since.role
    BY <2>1, <2>2 DEF Tracked, Facts
  <2> QED
    BY <2>1, <2>2, <2>3, MembershipType DEF TypeOK
<1>2. CASE role # None
  <2>1. req' = [req EXCEPT !.role = role, !.step = "act"]
    BY <1>2 DEF ReadMembership
  <2> HIDE DEF role
  <2>2. req' \in Request
    BY <1>1, <1>2, <2>1 DEF Request
  <2>3. StepFit' /\ AnswerFit'
    BY <1>1, <1>2, <2>1 DEF StepFit, AnswerFit, Serving, Vouched, Request, ReadMembership
  <2> QED
    BY <1>1, <2>1, <2>2, <2>3, ServerFit DEF ReadMembership, Request
<1>3. CASE role = None
  <2>1. req' = Refused(req)
    BY <1>3 DEF ReadMembership
  <2>2. Cause
    BY <1>1, <1>3 DEF Cause
  <2>3. req' \in Request /\ StepFit' /\ AnswerFit'
    BY <1>1, <2>1, <2>2, RefusedFit DEF ReadMembership
  <2> QED
    BY <1>1, <2>1, <2>3, ServerFit DEF ReadMembership, Refused, Request
<1> QED
  BY <1>2, <1>3

\* An answer that fits the request it answers.
Fitting(answer) ==
    /\ req.path \in Api =>
          /\ answer.kind = "401" => req.role = None
          /\ answer.kind \in {"ok", "403"} => req.role # None
    /\ answer.kind = "redirect" => req.path \in Pages /\ answer.to \in Pages
    /\ answer.kind = "redirect" /\ answer.to = "login" => req.role = None
    /\ answer.kind = "page" => req.path \in OpenPages \cup Protected
    /\ answer.kind = "page" => (req.role = None <=> req.path \in OpenPages)
    /\ req.path = "sign_out" /\ answer.kind = "ok" => answer.cookies = {None}

LEMMA ReplyShape ==
    ASSUME Inv, Serving("act"), NEW answer \in Answers, Reply(answer), Fitting(answer),
           UNCHANGED since
    PROVE  req # None /\ req' \in Request /\ StepFit' /\ AnswerFit'
<1> USE DEF Inv
<1>1. /\ req # None /\ req.step = "act" /\ req \in Request
      /\ req' = [req EXCEPT !.step = "answer", !.answer = answer]
  BY DEF Serving, TypeOK, Reply
<1>2. answer # None
  OBVIOUS
<1>3. req' \in Request
  BY <1>1 DEF Request
<1>4. StepFit'
  BY <1>1, <1>2 DEF StepFit, Request, Vouched, Cause
<1>5. AnswerFit'
  BY <1>1 DEF AnswerFit, Request, Serving, Fitting
<1> QED
  BY <1>1, <1>3, <1>4, <1>5

LEMMA ReplyFit ==
    ASSUME Inv, Serving("act"), NEW answer \in Answers, Reply(answer), Fitting(answer),
           UNCHANGED <<clock, database, cookie, at, asked, leaving, since, changes>>
    PROVE  Inv'
<1>1. req # None /\ req' \in Request /\ StepFit' /\ AnswerFit'
  BY ReplyShape
<1> QED
  BY <1>1, ServerFit DEF Inv, TypeOK, Reply, Request

\* The answers without a redirect and without a cookie.
LEMMA PlainType ==
    ASSUME NEW kind \in {"page", "ok", "401", "403", "409", "429"}
    PROVE  Plain(kind) \in Answers /\ Plain(kind).kind = kind
  BY DEF Plain, Answer, Answers

LEMMA RedirectType ==
    ASSUME NEW path \in Pages, NEW next \in Protected \cup {None}
    PROVE  /\ RedirectTo(path, next) \in Answers
           /\ RedirectTo(path, next).kind = "redirect" /\ RedirectTo(path, next).to = path
  BY DEF RedirectTo, Answer, Answers

LEMMA AnswerRequestFit ==
    ASSUME Inv, AnswerRequest
    PROVE  Inv'
<1>1. Serving("act") /\ req \in Request
  BY DEF AnswerRequest, Serving, Inv, TypeOK
<1>2. CASE req.path \in Pages /\ Reply(PageAnswer(req))
  <2>1. "login" \in Pages /\ "dashboard" \in Pages /\ req.path \notin Api \cup AuthPosts
    BY <1>2 DEF Pages, OpenPages, Api, AuthPosts
  <2>2. CASE req.path = "index"
    <3>1. PageAnswer(req) = RedirectTo(IF SignedIn(req) THEN "dashboard" ELSE "login", None)
      BY <2>2 DEF PageAnswer, Index, OpenPages
    <3> QED
      BY <1>1, <1>2, <2>1, <3>1, RedirectType, ReplyFit
         DEF Fitting, SignedIn, AnswerRequest, AuthPosts
  <2>3. CASE req.path \in OpenPages
    <3>1. PageAnswer(req) = IF SignedIn(req) THEN RedirectTo("dashboard", None) ELSE Plain("page")
      BY <2>3 DEF PageAnswer, OpenPage, OpenPages
    <3> QED
      BY <1>1, <1>2, <2>1, <2>3, <3>1, RedirectType, PlainType, ReplyFit
         DEF Fitting, SignedIn, AnswerRequest, AuthPosts
  <2>4. CASE req.path \in Protected
    <3>1. PageAnswer(req) = IF SignedIn(req) THEN Plain("page") ELSE RedirectTo("login", req.path)
      BY <2>4 DEF PageAnswer, ProtectedPage, OpenPages
    <3>2. req.path \notin OpenPages
      BY <2>4 DEF OpenPages
    <3> QED
      BY <1>1, <1>2, <2>1, <2>4, <3>1, <3>2, RedirectType, PlainType, ReplyFit
         DEF Fitting, SignedIn, AnswerRequest, AuthPosts
  <2> QED
    BY <1>2, <2>2, <2>3, <2>4 DEF Pages
<1>3. CASE req.path \in Api /\ Reply(ApiAnswer(req))
  <2>1. req.path \notin Pages \cup AuthPosts
    BY <1>3 DEF Pages, OpenPages, Api, AuthPosts
  <2>2. PICK kind \in {"401", "403", "ok"} :
          ApiAnswer(req) = Plain(kind) /\ (kind = "401" <=> req.role = None)
    BY DEF ApiAnswer, SignedIn
  <2> QED
    BY <1>1, <1>3, <2>1, <2>2, PlainType, ReplyFit DEF Fitting, AnswerRequest, AuthPosts
<1> QED
  BY <1>2, <1>3 DEF AnswerRequest

\* The refusals, and the answer to a logout.
LEMMA PlainAnswersFit ==
    ASSUME Inv, RateLimited \/ LoginRefused \/ RegisterConflict
    PROVE  Inv'
<1>1. PICK kind \in {"401", "409", "429"} :
        /\ Serving("act") /\ Reply(Plain(kind))
        /\ kind = "401" => req.path = "sign_in"
        /\ UNCHANGED <<clock, database, cookie, at, asked, leaving, since, changes>>
  BY DEF RateLimited, LoginRefused, RegisterConflict
<1> QED
  BY <1>1, PlainType, ReplyFit DEF Fitting, Api

LEMMA LogoutFit ==
    ASSUME Inv, Logout
    PROVE  Inv'
<1> DEFINE answer == Answer("ok", None, None, {None})
<1>1. answer \in Answers /\ Reply(answer)
  BY DEF Logout, LogoutCookie, Answer, Answers
<1>2. Fitting(answer)
  BY DEF Fitting, Answer, Logout, Api
<1> QED
  BY <1>1, <1>2, ReplyFit DEF Logout

\* No task is further ahead than MostAhead.
LEMMA MostAheadType ==
    MostAhead \in Nat /\ \A a \in Aheads : a <= MostAhead
<1>1. MostAhead \in Aheads /\ \A a \in Aheads : a <= MostAhead
  BY TasksAssumption DEF MostAhead
<1> QED
  BY <1>1

\* A token made by any task within the model's time is one.
LEMMA TokenType ==
    ASSUME NEW org \in Orgs, NEW a \in Aheads, clock \in 0..MaxClock
    PROVE  CreateSessionToken(org, a) \in Token
<1>1. clock + a \in 0..(MaxClock + MostAhead)
  BY MostAheadType
<1> QED
  BY <1>1 DEF CreateSessionToken, Token

LEMMA SessionResponseType ==
    ASSUME Inv, req # None, NEW org \in Orgs
    PROVE  SessionResponse(org) \in Answers /\ SessionResponse(org).kind = "ok"
<1>1. CreateSessionToken(org, req.ahead) \in Token
  BY TokenType DEF Inv, TypeOK, Request
<1> QED
  BY <1>1 DEF SessionResponse, Answer, Answers

LEMMA LoginFit ==
    ASSUME Inv, Login
    PROVE  Inv'
<1>1. member[1] \in Member
  <2>1. 1 \in 1..Len(member)
    BY EmptySeq, LenProperties DEF Inv, TypeOK, Login
  <2> QED
    BY <2>1, ElementOfSeq DEF Inv, TypeOK
<1> DEFINE answer == SessionResponse(member[1].org)
<1>2. Serving("act") /\ req # None /\ req.path = "sign_in" /\ Reply(answer)
  BY DEF Login, Serving
<1>3. answer \in Answers /\ answer.kind = "ok"
  BY <1>1, <1>2, SessionResponseType DEF Member
<1> HIDE DEF answer
<1>4. Fitting(answer)
  BY <1>2, <1>3 DEF Fitting, Api
<1> QED
  BY <1>2, <1>3, <1>4, ReplyFit DEF Login

----------------------------------------------------------------------------
(* A request while others act                                              *)

\* Observing more facts only adds to the history.
LEMMA ObserveFit ==
    ASSUME since \in Known, NEW facts \in Known, since' = Observe(facts)
    PROVE  /\ since' \in Known
           /\ since.valid \subseteq since'.valid /\ facts.valid \subseteq since'.valid
           /\ since.active \subseteq since'.active /\ facts.active \subseteq since'.active
           /\ since.role \subseteq since'.role /\ facts.role \subseteq since'.role
  BY DEF Observe, Known

\* What was found out about a request stays found out.
LEMMA HistoryGrows ==
    ASSUME Inv, UNCHANGED req,
           since.valid \subseteq since'.valid, since.active \subseteq since'.active,
           since.role \subseteq since'.role
    PROVE  StepFit' /\ AnswerFit' /\ (Cause => Cause')
<1>1. (Cause => Cause') /\ (Vouched => Vouched')
  BY DEF Cause, Vouched
<1>2. StepFit'
  BY <1>1 DEF Inv, StepFit
<1>3. AnswerFit'
  BY DEF Inv, AnswerFit, Serving
<1> QED
  BY <1>1, <1>2, <1>3

LEMMA KeepFit ==
    ASSUME Inv, UNCHANGED <<req, at, asked>>, member' \in Seq(Member),
           Keep(Facts(req, clock', account', member'))
    PROVE  /\ since' \in Known
           /\ Tracked' /\ StepFit' /\ AnswerFit'
           /\ req = None => UNCHANGED since
<1> USE DEF Inv
<1>1. CASE req = None
  BY <1>1 DEF Keep, TypeOK, Tracked, StepFit, AnswerFit, Serving
<1>2. CASE req # None
  <2> DEFINE facts == Facts(req, clock', account', member')
  <2>1. since' = Observe(facts) /\ since \in Known /\ req \in Request
    BY <1>2 DEF Keep, TypeOK
  <2>2. facts \in Known
    BY <2>1, FactsType
  <2>3. Tracked'
    BY <2>1, <2>2, ObserveFit DEF Tracked
  <2> HIDE DEF facts
  <2>4. StepFit' /\ AnswerFit' /\ since' \in Known
    BY <2>1, <2>2, ObserveFit, HistoryGrows
  <2> QED
    BY <1>2, <2>3, <2>4
<1> QED
  BY <1>1, <1>2

\* A registration changes what is true, and the answer to itself.
LEMMA RegisterFit ==
    ASSUME Inv, NEW org \in Orgs, Register(org)
    PROVE  Inv'
<1> USE DEF Inv
<1> DEFINE answer == SessionResponse(org)
           facts == Facts(req, clock, account', member')
<1>1. /\ req # None /\ req \in Request /\ req.step = "act" /\ req.path = "sign_up"
      /\ req' = [req EXCEPT !.step = "answer", !.answer = answer]
      /\ since' = Observe(facts) /\ since \in Known
  BY DEF Register, Serving, Reply, TypeOK
<1>2. answer \in Answers /\ answer.kind = "ok" /\ answer # None
  BY <1>1, SessionResponseType
<1>3. member' \in Seq(Member)
  BY DEF Register, Member
<1>4. facts \in Known
  BY <1>1, <1>3, FactsType
<1>5. /\ since' \in Known
      /\ since.valid \subseteq since'.valid /\ facts.valid \subseteq since'.valid
      /\ since.active \subseteq since'.active /\ facts.active \subseteq since'.active
      /\ since.role \subseteq since'.role /\ facts.role \subseteq since'.role
  BY <1>1, <1>4, ObserveFit
<1> HIDE DEF answer
<1>6. req' \in Request /\ req'.path = "sign_up" /\ req'.role = req.role /\ req' # None
  <2>1. req' \in Request
    BY <1>1, <1>2 DEF Request
  <2>2. req'.path = "sign_up" /\ req'.role = req.role
    BY <1>1 DEF Request
  <2> QED
    BY <2>1, <2>2
<1>7. Tracked'
  BY <1>1, <1>5 DEF Tracked, Facts, Register, Request
<1> HIDE DEF facts
<1>8. TypeOK'
  BY <1>3, <1>5, <1>6 DEF TypeOK, Register
<1>9. StepFit'
  BY <1>1, <1>2, <1>5, <1>6 DEF StepFit, Vouched, Request, AuthPosts
<1>10. AnswerFit'
  BY <1>1, <1>2, <1>6 DEF AnswerFit, Request, Api, Serving
<1>11. PathFit' /\ LeavingFit' /\ SignedOutIsShown'
  BY <1>1, <1>6 DEF PathFit, LeavingFit, SignedOutIsShown, Idle, Register, Pages, OpenPages
<1> QED
  BY <1>7, <1>8, <1>9, <1>10, <1>11

----------------------------------------------------------------------------
(* The browser                                                             *)

\* At rest a cause is remembered, and nothing else.
LEMMA RestFit ==
    ASSUME Inv, Rest
    PROVE  /\ req' = None /\ since' \in Known /\ (Cause => Cause')
           /\ Tracked' /\ StepFit' /\ AnswerFit' /\ PathFit'
<1>1. req' = None /\ since' \in Known
  BY DEF Rest, Known, Unknown, Verdicts
<1>2. Cause => Cause'
  BY DEF Rest, Cause, Unknown
<1> QED
  BY <1>1, <1>2 DEF Tracked, StepFit, AnswerFit, PathFit, Serving

\* A redirect leads to a page, with the cookie the browser has.
LEMMA FollowRedirectFit ==
    ASSUME Inv, FollowRedirect
    PROVE  Inv'
<1> USE DEF Inv
<1>1. /\ Serving("answer") /\ req # None /\ req \in Request /\ req.answer # None
      /\ req.answer.kind = "redirect"
  BY DEF FollowRedirect, Serving, TypeOK, StepFit
<1>2. req.answer.to \in Pages /\ req.answer.next \in Protected \cup {None}
  BY <1>1 DEF AnswerFit, Request, Answers
<1>3. /\ req' \in Request /\ since' \in Known /\ req'.path \in Pages
      /\ req'.token = cookie
      /\ Tracked' /\ StepFit' /\ AnswerFit'
  BY <1>2, SendFit DEF FollowRedirect, TypeOK, database
<1>4. TypeOK'
  BY <1>3 DEF TypeOK, FollowRedirect, database
<1>5. PathFit' /\ LeavingFit' /\ SignedOutIsShown'
  BY <1>3 DEF PathFit, LeavingFit, SignedOutIsShown, Idle, FollowRedirect,
              Pages, OpenPages, Api, AuthPosts
<1> QED
  BY <1>3, <1>4, <1>5

LEMMA ShowPageFit ==
    ASSUME Inv, ShowPage
    PROVE  Inv'
<1> USE DEF Inv
<1>1. /\ Serving("answer") /\ req # None /\ req \in Request /\ req.answer.kind = "page"
      /\ at' = req.path /\ asked' = req.next
  BY DEF ShowPage, Serving, TypeOK
<1>2. /\ req.path \in OpenPages \cup Protected
      /\ req.role = None <=> req.path \in OpenPages
  BY <1>1 DEF AnswerFit
<1>3. leaving = "done" => req.path \notin Protected
  \* A page of the application was served to a role, and a role to a token.
  BY <1>1, <1>2 DEF LeavingFit, StepFit, OpenPages
<1>4. CASE req.path \in Protected
  <2>1. Send("read", None, cookie)
    BY <1>4 DEF ShowPage
  <2>2. /\ req' \in Request /\ since' \in Known /\ req'.path = "read"
        /\ Tracked' /\ StepFit' /\ AnswerFit'
    BY <2>1, SendFit DEF ShowPage, TypeOK, database, Api
  <2>3. TypeOK'
    BY <1>1, <1>4, <2>2 DEF TypeOK, ShowPage, database, Request
  <2>4. PathFit' /\ LeavingFit' /\ SignedOutIsShown'
    BY <1>1, <1>3, <1>4, <2>2
       DEF PathFit, LeavingFit, SignedOutIsShown, Idle, ShowPage, OpenPages
  <2> QED
    BY <2>2, <2>3, <2>4
<1>5. CASE req.path \notin Protected
  <2>1. Rest
    BY <1>5 DEF ShowPage
  <2>2. Cause
    BY <1>1, <1>2, <1>5 DEF StepFit, Serving, OpenPages, AuthPosts
  <2>3. TypeOK'
    BY <1>1, <1>2, <2>1, RestFit DEF TypeOK, ShowPage, database, Request
  <2>4. LeavingFit' /\ SignedOutIsShown'
    BY <1>1, <1>5, <2>1, <2>2, RestFit DEF LeavingFit, SignedOutIsShown, ShowPage
  <2> QED
    BY <2>1, <2>3, <2>4, RestFit
<1> QED
  BY <1>4, <1>5

\* The next request of a tab whose page stays.
LEMMA SendStep ==
    ASSUME Inv, NEW path \in Pages \cup Api \cup AuthPosts,
           Send(path, None, cookie'), cookie' \in Token \cup {None},
           leaving' \in {"no", "sent", "done", "failed"},
           UNCHANGED <<clock, database, at, asked, changes>>,
           path \in Api \cup {"sign_out"} => at \in Protected,
           path \in {"sign_in", "sign_up"} => leaving' = "no",
           leaving' = "done" => cookie' = None /\ path \in Pages
    PROVE  Inv'
<1> USE DEF Inv
<1>1. /\ req' \in Request /\ since' \in Known /\ req'.path = path /\ req'.token = cookie'
      /\ Tracked' /\ StepFit' /\ AnswerFit'
  BY SendFit DEF TypeOK, database
<1>2. TypeOK'
  BY <1>1 DEF TypeOK, database
<1>3. PathFit' /\ LeavingFit' /\ SignedOutIsShown'
  BY <1>1 DEF PathFit, LeavingFit, SignedOutIsShown, Idle
<1> QED
  BY <1>1, <1>2, <1>3

LEMMA PathsDiffer ==
    /\ "login" \in Pages /\ "login" \notin Api \cup AuthPosts \cup Protected
    /\ "register" \notin Protected
    /\ \A path \in Pages : path \notin Api \cup AuthPosts
    /\ \A path \in Protected : path \in Pages
    /\ "read" \in Api /\ "write" \in Api /\ "read" # "write"
    /\ {"sign_in", "sign_up", "sign_out"} \cap (Pages \cup Api) = {}
  BY DEF Pages, OpenPages, Api, AuthPosts

\* After an answer to a script of a page of the application.
LEMMA ReportedFit ==
    ASSUME Inv, ReadReported \/ WriteReported
    PROVE  Inv'
<1> USE DEF Inv
<1>1. /\ req # None /\ req.path \in Api /\ at \in Protected /\ leaving # "done"
  BY PathsDiffer DEF ReadReported, WriteReported, Serving, PathFit, LeavingFit, Api
<1>2. CASE Rest
  <2>1. TypeOK'
    BY <1>2, RestFit DEF ReadReported, WriteReported, TypeOK, database
  <2>2. LeavingFit' /\ SignedOutIsShown'
    BY <1>1, PathsDiffer DEF LeavingFit, SignedOutIsShown, ReadReported, WriteReported
  <2> QED
    BY <1>2, <2>1, <2>2, RestFit
<1>3. CASE \E path \in {"login", "read"} : Send(path, None, cookie)
  <2>1. PICK path \in {"login", "read"} : Send(path, None, cookie)
    BY <1>3
  <2>2. path \in Pages \cup Api
    BY PathsDiffer
  <2> QED
    BY <1>1, <2>1, <2>2, PathsDiffer, SendStep
       DEF ReadReported, WriteReported, TypeOK, Api, AuthPosts
<1> QED
  BY <1>2, <1>3 DEF ReadReported, WriteReported

\* The cookie after an answer is the one it sets, if it sets one.
LEMMA CookieAfterFit ==
    ASSUME Inv, Serving("answer")
    PROVE  /\ CookieAfter(req.answer.cookies) \in Token \cup {None}
           /\ req.path = "sign_out" /\ req.answer.kind = "ok" =>
                 CookieAfter(req.answer.cookies) = None
<1>1. /\ req.answer.cookies \in SUBSET (Token \cup {None}) /\ cookie \in Token \cup {None}
  BY DEF Inv, TypeOK, StepFit, Serving, Request, Answers
<1>2. CookieAfter(req.answer.cookies) \in Token \cup {None}
  BY <1>1 DEF CookieAfter
<1>3. ASSUME req.path = "sign_out", req.answer.kind = "ok"
      PROVE  CookieAfter(req.answer.cookies) = None
  BY <1>3 DEF Inv, AnswerFit, CookieAfter
<1> QED
  BY <1>2, <1>3

LEMMA FormAnsweredFit ==
    ASSUME Inv, FormAnswered
    PROVE  Inv'
<1> USE DEF Inv
<1>1. /\ Serving("answer") /\ req # None /\ leaving = "no" /\ leaving' = "no"
      /\ cookie' \in Token \cup {None}
  BY CookieAfterFit DEF FormAnswered, Serving, PathFit
<1>2. CASE Rest
  <2>1. TypeOK'
    BY <1>1, <1>2, RestFit DEF FormAnswered, TypeOK, database
  <2> QED
    BY <1>1, <1>2, <2>1, RestFit DEF LeavingFit, SignedOutIsShown
<1>3. CASE Send(IF asked # None THEN asked ELSE "dashboard", None, cookie')
  <2>1. PICK path \in Protected : Send(path, None, cookie')
    BY <1>3 DEF TypeOK
  <2> QED
    BY <1>1, <2>1, PathsDiffer, SendStep DEF FormAnswered, AuthPosts
<1> QED
  BY <1>2, <1>3 DEF FormAnswered

LEMMA LogoutAnsweredFit ==
    ASSUME Inv, LogoutAnswered
    PROVE  Inv'
<1>1. Serving("answer") /\ cookie' \in Token \cup {None} /\ leaving' \in {"done", "failed"}
  BY CookieAfterFit DEF LogoutAnswered
<1>2. leaving' = "done" => cookie' = None
  BY CookieAfterFit DEF LogoutAnswered
<1> QED
  BY <1>1, <1>2, PathsDiffer, SendStep DEF LogoutAnswered, AuthPosts

LEMMA LostFit ==
    ASSUME Inv, Lost
    PROVE  Inv'
<1> USE DEF Inv
<1>1. req # None /\ req.path \in Pages \cup Api \cup AuthPosts
  BY DEF Lost, TypeOK, Request
<1>2. CASE req.path \in Pages
  <2>1. Rest /\ at' = "error" /\ UNCHANGED <<clock, database, cookie, asked, changes, leaving>>
    BY <1>2, PathsDiffer DEF Lost
  <2>2. TypeOK'
    BY <2>1, RestFit DEF TypeOK, database
  <2>3. LeavingFit' /\ SignedOutIsShown'
    BY <2>1 DEF LeavingFit, SignedOutIsShown, Rest
  <2> QED
    BY <2>1, <2>2, <2>3, RestFit
<1>3. CASE req.path = "sign_out"
  <2>1. /\ Send("login", None, cookie) /\ leaving' = "failed"
        /\ UNCHANGED <<clock, database, cookie, at, asked, changes>>
    BY <1>3, PathsDiffer DEF Lost
  <2> QED
    BY <2>1, PathsDiffer, SendStep DEF TypeOK, AuthPosts
<1>4. CASE req.path \notin Pages \cup {"sign_out"}
  <2>1. Rest /\ UNCHANGED <<clock, database, cookie, at, asked, changes, leaving>>
    BY <1>4 DEF Lost
  <2>2. TypeOK'
    BY <2>1, RestFit DEF TypeOK, database
  <2>3. leaving # "done" /\ (at = "login" => leaving = "no")
    BY <1>1, <1>4, PathsDiffer DEF LeavingFit, PathFit, AuthPosts
  <2> QED
    BY <2>1, <2>2, <2>3, RestFit DEF LeavingFit, SignedOutIsShown
<1> QED
  BY <1>1, <1>2, <1>3, <1>4 DEF AuthPosts

LEMMA UserFit ==
    ASSUME Inv, User
    PROVE  Inv'
<1> USE DEF Inv
<1>1. ASSUME NEW path \in Pages, Open(path)
      PROVE  Inv'
  BY <1>1, PathsDiffer, SendStep DEF Open, TypeOK, LeavingFit, AuthPosts
<1>2. CASE Submit
  BY <1>2, PathsDiffer, SendStep DEF Submit, TypeOK, AuthPosts
<1>3. CASE ClickLogout
  BY <1>3, PathsDiffer, SendStep DEF ClickLogout, TypeOK, AuthPosts
<1>4. CASE CreateProject
  BY <1>4, PathsDiffer, SendStep DEF CreateProject, TypeOK, LeavingFit
<1> QED
  BY <1>1, <1>2, <1>3, <1>4 DEF User

----------------------------------------------------------------------------
(* Everybody else                                                          *)

\* Other people's steps leave the tab alone, and the history grows.
LEMMA OthersKeep ==
    ASSUME Inv, member' \in Seq(Member), clock' \in 0..MaxClock,
           account' \in {"none", "active", "disabled"}, changes' \in 0..MaxChanges,
           Keep(Facts(req, clock', account', member')),
           UNCHANGED <<cookie, tab, leaving>>
    PROVE  Inv'
<1> USE DEF Inv, tab
<1>1. /\ since' \in Known /\ Tracked' /\ StepFit' /\ AnswerFit'
      /\ req = None => UNCHANGED since
  BY KeepFit
<1>2. TypeOK'
  BY <1>1 DEF TypeOK
<1>3. PathFit' /\ LeavingFit'
  BY DEF PathFit, LeavingFit, Idle
<1>4. SignedOutIsShown'
  BY <1>1 DEF SignedOutIsShown, Idle, Cause
<1> QED
  BY <1>1, <1>2, <1>3, <1>4

LEMMA RemoveAtType ==
    ASSUME NEW S, NEW s \in Seq(S), NEW i \in DOMAIN s
    PROVE  RemoveAt(s, i) \in Seq(S)
<1>1. DOMAIN s = 1..Len(s) /\ Len(s) \in Nat /\ \A j \in 1..Len(s) : s[j] \in S
  BY LenProperties, ElementOfSeq
<1>2. SubSeq(s, 1, i - 1) \in Seq(S)
  BY <1>1, SubSeqProperties
<1>3. SubSeq(s, i + 1, Len(s)) \in Seq(S)
  BY <1>1, SubSeqProperties
<1> QED
  BY <1>2, <1>3, ConcatProperties DEF RemoveAt

LEMMA OthersFit ==
    ASSUME Inv, Others
    PROVE  Inv'
<1> USE DEF Inv
<1>1. /\ clock \in 0..MaxClock /\ account \in {"none", "active", "disabled"}
      /\ member \in Seq(Member) /\ changes \in 0..MaxChanges
  BY DEF TypeOK
<1>2. Change => changes' \in 0..MaxChanges
  BY <1>1 DEF Change
<1>3. CASE Tick
  BY <1>1, <1>3, OthersKeep DEF Tick, database
<1>4. CASE ChangeAccount
  BY <1>1, <1>2, <1>4, OthersKeep DEF ChangeAccount
<1>5. ASSUME NEW i \in DOMAIN member, RemoveMember(i)
      PROVE  Inv'
  BY <1>1, <1>2, <1>5, OthersKeep, RemoveAtType DEF RemoveMember
<1>6. ASSUME NEW i \in DOMAIN member, NEW role \in Roles, ChangeRole(i, role)
      PROVE  Inv'
  <2>1. member[i] \in Member /\ i \in 1..Len(member)
    BY <1>1, ElementOfSeq, LenProperties
  <2>2. [member[i] EXCEPT !.role = role] \in Member
    BY <2>1 DEF Member
  <2>3. member' = [member EXCEPT ![i] = [member[i] EXCEPT !.role = role]]
    BY <1>6 DEF ChangeRole
  <2>4. member' \in Seq(Member)
    BY <1>1, <2>1, <2>2, <2>3, ExceptSeq
  <2> QED
    BY <1>1, <1>2, <1>6, <2>4, OthersKeep DEF ChangeRole
<1>7. ASSUME NEW row \in Member, AddMember(row)
      PROVE  Inv'
  BY <1>1, <1>2, <1>7, OthersKeep DEF AddMember
<1>8. ASSUME NEW a \in Aheads, OtherTabSignsIn(a)
      PROVE  Inv'
  <2>1. 1 \in 1..Len(member)
    BY <1>1, <1>8, EmptySeq, LenProperties DEF OtherTabSignsIn
  <2>2. cookie' \in Token
    <3>1. member[1] \in Member
      BY <1>1, <2>1, ElementOfSeq
    <3> QED
      BY <1>1, <1>8, <3>1, TokenType DEF OtherTabSignsIn, Member
  <2>3. TypeOK' /\ Tracked' /\ StepFit' /\ AnswerFit'
    BY <1>2, <1>8, <2>2 DEF OtherTabSignsIn, database, tab, TypeOK, Tracked, StepFit,
       AnswerFit, Serving, Vouched, Cause
  <2> QED
    BY <1>8, <2>3 DEF OtherTabSignsIn, tab, PathFit, LeavingFit, SignedOutIsShown
<1>9. CASE CookieDropped
  <2>1. TypeOK' /\ Tracked' /\ StepFit' /\ AnswerFit'
    BY <1>2, <1>9 DEF CookieDropped, database, tab, TypeOK, Tracked, StepFit,
       AnswerFit, Serving, Vouched, Cause
  <2> QED
    BY <1>9, <2>1 DEF CookieDropped, tab, PathFit, LeavingFit, SignedOutIsShown, Idle
<1> QED
  BY <1>3, <1>4, <1>5, <1>6, <1>7, <1>8, <1>9 DEF Others

----------------------------------------------------------------------------
(* The theorems                                                            *)

LEMMA InitInv == Init => Inv
<1> SUFFICES ASSUME Init PROVE Inv
  OBVIOUS
<1>1. TypeOK
  BY DEF Init, TypeOK, Known, Unknown
<1> QED
  BY <1>1 DEF Init, Inv, Tracked, StepFit, AnswerFit, Serving, PathFit, LeavingFit,
              SignedOutIsShown

LEMMA NextInv == Inv /\ [Next]_vars => Inv'
<1> SUFFICES ASSUME Inv, [Next]_vars PROVE Inv'
  OBVIOUS
<1>1. CASE Serve
  BY <1>1, ReadUserFit, ReadMembershipFit, AnswerRequestFit, PlainAnswersFit, LogoutFit,
     LoginFit, RegisterFit DEF Serve
<1>2. CASE Deliver
  BY <1>2, FollowRedirectFit, ShowPageFit, ReportedFit, FormAnsweredFit, LogoutAnsweredFit
     DEF Deliver
<1>3. CASE UNCHANGED vars
  BY <1>3 DEF vars, database, tab, Inv, TypeOK, Tracked, StepFit, AnswerFit, Serving, Vouched,
              Cause, PathFit, LeavingFit, SignedOutIsShown, Idle
<1> QED
  BY <1>1, <1>2, <1>3, LostFit, UserFit, OthersFit DEF Next

LEMMA InvHolds == Spec => []Inv
  BY InitInv, NextInv, PTL DEF Spec

\* Every variable has its type: in particular a request is answered only with
\* pages, redirects and cookies that exist.
THEOREM TypeCorrect == Spec => []TypeOK
<1>1. Inv => TypeOK
  BY DEF Inv
<1> QED
  BY <1>1, InvHolds, PTL

\* Whoever is let in had a good token, an active account and the role that was
\* used, each since the request was sent (load_context, login_required and the
\* pages), however the operator's changes and the clocks interleave with it.
THEOREM ContextHeldHolds == Spec => []ContextHeld
<1>1. Inv => ContextHeld
  <2> SUFFICES ASSUME Inv, Welcomed PROVE Vouched /\ req.role \in since.role
    BY DEF ContextHeld, Vouched
  <2>1. req # None /\ req.role # None
    BY DEF Inv, AnswerFit, Welcomed, Serving, PagesAssumption, OpenPages
  <2> QED
    BY <2>1 DEF Inv, StepFit
<1> QED
  BY <1>1, InvHolds, PTL

\* Nobody is answered 401 or sent to the login page without a cause that arose
\* since the request was sent.
THEOREM TurnedAwayForCauseHolds == Spec => []TurnedAwayForCause
<1>1. Inv => TurnedAwayForCause
  <2> SUFFICES ASSUME Inv, Serving("answer"),
                      \/ req.path \in Api /\ req.answer.kind = "401"
                      \/ /\ req.path \in Pages /\ req.answer.kind = "redirect"
                         /\ req.answer.to = "login"
               PROVE  Cause
    BY DEF TurnedAwayForCause
  <2>1. req # None /\ req.role = None /\ req.path \notin AuthPosts
    BY PathsDiffer DEF Inv, AnswerFit, Serving, Api, AuthPosts
  <2> QED
    BY <2>1 DEF Inv, StepFit, Serving
<1> QED
  BY <1>1, InvHolds, PTL

\* After a logout, answered or not, the login page is shown only to a browser
\* without a cookie or with one that had a cause to be refused.
THEOREM SignedOutIsShownHolds == Spec => []SignedOutIsShown
<1>1. Inv => SignedOutIsShown
  BY DEF Inv
<1> QED
  BY <1>1, InvHolds, PTL

\* After an answered logout no page of the application is shown, whatever is
\* opened, until somebody signs in in this browser.
THEOREM LogoutHoldsHolds == Spec => []LogoutHolds
<1>1. Inv => LogoutHolds
  BY PathsDiffer DEF Inv, LeavingFit, LogoutHolds, Idle
<1> QED
  BY <1>1, InvHolds, PTL

=============================================================================
