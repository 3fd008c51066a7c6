------------------------------ MODULE Accounts ------------------------------
(***************************************************************************)
(* Registration, login and project creation against PostgreSQL.            *)
(*                                                                         *)
(* Each request runs a few statements in one READ COMMITTED transaction: a *)
(* SELECT sees what is committed when it runs, an INSERT waits for a       *)
(* transaction that holds the same unique key and then succeeds or breaks  *)
(* the constraint.  Emails, slugs and project keys are looked up first and *)
(* inserted later, so the constraint is what decides a race.               *)
(*                                                                         *)
(* A row is its unique key: nothing else of it matters here.  Passwords    *)
(* and roles only refuse requests before they touch the tables.            *)
(***************************************************************************)
EXTENDS Naturals, Sequences

CONSTANTS
    Handlers,      \* request-handling threads
    Mailboxes,     \* email addresses, as the mail system tells them apart
    Bases,         \* slugified organization names, as sequences
    ProjectKeys,   \* keys of projects
    None,          \* an idle handler
    Faults,        \* {"crash"}, or nothing goes wrong
    MaxRequests    \* bound on the requests of a run

ASSUME RequestsAssumption == MaxRequests \in Nat \ {0}

VARIABLES
    db,            \* the committed rows
    tx,            \* per handler, the rows it inserted and did not commit
    job,           \* per handler, the request it works on
    since,         \* history: per handler, rows committed since its last SELECT
    requests       \* the requests so far

vars == <<db, tx, job, since, requests>>

----------------------------------------------------------------------------
(* Rows                                                                    *)

\* An address as a client types it: case does not matter to the mail system.
Spellings == [mailbox : Mailboxes, capitals : BOOLEAN]

\* Mutant of NormalizeEmail: the address is stored as it was typed.
EmailAsTyped(spelling) == spelling

NormalizeEmail(spelling) == [spelling EXCEPT !.capitals = FALSE]

\* Mutant of Slug: the first candidate has a suffix too.
SlugWithSuffix(base, n) == Append(base, n)

\* _unique_slug's candidates: acme, acme-2, acme-3...  A base may itself end in
\* a number.
Slug(base, n) == IF n = 1 THEN base ELSE Append(base, n)

Suffixes == 2..(MaxRequests + 1)
Slugs == Bases \cup {Append(base, n) : base \in Bases, n \in Suffixes}

UserRow(email) == <<"user", email>>
OrgRow(slug) == <<"org", slug>>
MemberRow(slug, email) == <<"member", slug, email>>
ProjectRow(slug, key) == <<"project", slug, key>>

Steps == {"email", "user", "slug", "org", "member", "commit", "failed",
          "login", "memberships", "organization", "key", "project"}

Rows == ({"user"} \X Spellings) \cup ({"org"} \X Slugs)
          \cup ({"member"} \X Slugs \X Spellings)
          \cup ({"project"} \X Slugs \X ProjectKeys)

----------------------------------------------------------------------------
(* Statements                                                              *)

At(h, step) == job[h] # None /\ job[h].step = step

Goto(h, step) == job' = [job EXCEPT ![h].step = step]

\* A SELECT that finds no such row: whatever is committed from here on, it has
\* not seen.
LooksFrom(h) == since' = [since EXCEPT ![h] = {}]

\* No other transaction holds the row's key: an INSERT of it need not wait.
Unheld(h, row) == \A g \in Handlers \ {h} : row \notin tx[g]

\* session.flush of a new row.
Insert(h, row, next) ==
    /\ Unheld(h, row) /\ row \notin db
    /\ tx' = [tx EXCEPT ![h] = @ \cup {row}]
    /\ Goto(h, next)
    /\ UNCHANGED <<db, since, requests>>

\* The same, refused: IntegrityError, and the flush rolls the session back.
Violates(h, row) ==
    /\ Unheld(h, row) /\ row \in db
    /\ tx' = [tx EXCEPT ![h] = {}]
    /\ job' = [job EXCEPT ![h].step = "failed", ![h].row = row]
    /\ UNCHANGED <<db, since, requests>>

\* The rows become visible to everybody.
Publish(h, rows) ==
    /\ db' = db \cup rows
    /\ since' = [g \in Handlers |-> since[g] \cup rows]

\* The answer is sent and the session closed, rolling back what it holds.
Close(h) ==
    /\ tx' = [tx EXCEPT ![h] = {}]
    /\ job' = [job EXCEPT ![h] = None]
    /\ UNCHANGED requests

----------------------------------------------------------------------------
(* A request arrives                                                       *)

Request == [step : Steps, email : Spellings \cup {None}, base : Slugs \cup {None},
            key : ProjectKeys \cup {None}, n : 1..(MaxRequests + 1),
            row : Rows \cup {None}]

ASSUME NoneAssumption == None \notin Request \cup Spellings

Accept(h, step, email, base, key) ==
    /\ job[h] = None /\ requests < MaxRequests
    /\ job' = [job EXCEPT ![h] = [step |-> step, email |-> email, base |-> base,
                                  key |-> key, n |-> 1, row |-> None]]
    /\ requests' = requests + 1
    /\ LooksFrom(h)
    /\ UNCHANGED <<db, tx>>

StartRegister(h, spelling, base) ==
    Accept(h, "email", NormalizeEmail(spelling), base, None)

StartLogin(h, spelling) ==
    Accept(h, "login", NormalizeEmail(spelling), None, None)

\* A signed-in owner; base is the slug of the organization.
StartProject(h, slug, key) ==
    OrgRow(slug) \in db /\ Accept(h, "key", None, slug, key)

----------------------------------------------------------------------------
(* register                                                                *)

\* get_by_email finds the account: 409.
EmailTaken(h) ==
    /\ At(h, "email") /\ UserRow(job[h].email) \in db
    /\ Close(h)
    /\ UNCHANGED <<db, since>>

EmailFree(h) ==
    /\ At(h, "email") /\ UserRow(job[h].email) \notin db
    /\ Goto(h, "user")
    /\ LooksFrom(h)
    /\ UNCHANGED <<db, tx, requests>>

\* Mutant of InsertUser: the account is committed at once.
InsertUserAndCommit(h) ==
    LET row == UserRow(job[h].email) IN
    /\ At(h, "user") /\ Unheld(h, row)
    /\ Goto(h, "slug")
    /\ Publish(h, {row})
    /\ UNCHANGED <<tx, requests>>

InsertUser(h) == At(h, "user") /\ Insert(h, UserRow(job[h].email), "slug")

\* Mutant of NextSuffix: suffix += 1 is forgotten.
SameSuffix(n) == n

NextSuffix(n) == n + 1

Candidate(h) == Slug(job[h].base, job[h].n)

\* One turn of _unique_slug's loop.  MaxRequests organizations cannot take more
\* than MaxRequests candidates.
SlugTaken(h) ==
    /\ At(h, "slug") /\ OrgRow(Candidate(h)) \in db
    /\ job[h].n <= MaxRequests
    /\ job' = [job EXCEPT ![h].n = NextSuffix(@)]
    /\ UNCHANGED <<db, tx, since, requests>>

\* Mutant of SlugFree: a suffix is taken to be free without looking.
SlugFreeUnlessFirst(h) ==
    /\ At(h, "slug") /\ (OrgRow(Candidate(h)) \notin db \/ job[h].n > 1)
    /\ Goto(h, "org")
    /\ LooksFrom(h)
    /\ UNCHANGED <<db, tx, requests>>

SlugFree(h) ==
    /\ At(h, "slug") /\ OrgRow(Candidate(h)) \notin db
    /\ Goto(h, "org")
    /\ LooksFrom(h)
    /\ UNCHANGED <<db, tx, requests>>

InsertOrganization(h) == At(h, "org") /\ Insert(h, OrgRow(Candidate(h)), "member")

AddMember(h) ==
    At(h, "member") /\ Insert(h, MemberRow(Candidate(h), job[h].email), "commit")

----------------------------------------------------------------------------
(* login                                                                   *)

\* Unknown address or wrong password: 401.
LoginRefused(h) ==
    /\ At(h, "login")
    /\ Close(h)
    /\ UNCHANGED <<db, since>>

LoginFound(h) ==
    /\ At(h, "login") /\ UserRow(job[h].email) \in db
    /\ Goto(h, "memberships")
    /\ UNCHANGED <<db, tx, since, requests>>

\* _context_for_user: the user's first membership.  Its errors, for a user with
\* no membership or no organization, are the subject of RegistrationAtomic.
LoginMember(h, slug) ==
    /\ At(h, "memberships") /\ MemberRow(slug, job[h].email) \in db
    /\ job' = [job EXCEPT ![h].step = "organization", ![h].base = slug]
    /\ UNCHANGED <<db, tx, since, requests>>

LoginDone(h) ==
    /\ At(h, "organization") /\ OrgRow(job[h].base) \in db
    /\ Close(h)
    /\ UNCHANGED <<db, since>>

----------------------------------------------------------------------------
(* create_project                                                          *)

KeyTaken(h) ==
    /\ At(h, "key") /\ ProjectRow(job[h].base, job[h].key) \in db
    /\ Close(h)
    /\ UNCHANGED <<db, since>>

KeyFree(h) ==
    /\ At(h, "key") /\ ProjectRow(job[h].base, job[h].key) \notin db
    /\ Goto(h, "project")
    /\ LooksFrom(h)
    /\ UNCHANGED <<db, tx, requests>>

InsertProject(h) ==
    At(h, "project") /\ Insert(h, ProjectRow(job[h].base, job[h].key), "commit")

----------------------------------------------------------------------------
(* Every request                                                           *)

\* session.commit, then the 201.
Commit(h) ==
    /\ At(h, "commit")
    /\ Publish(h, tx[h])
    /\ Close(h)

\* A race lost to the constraint.  A membership cannot clash: its organization
\* is this transaction's own.
BreaksConstraint(h) ==
    \/ At(h, "user") /\ Violates(h, UserRow(job[h].email))
    \/ At(h, "org") /\ Violates(h, OrgRow(Candidate(h)))
    \/ At(h, "project") /\ Violates(h, ProjectRow(job[h].base, job[h].key))

\* _handle_unexpected's 500.
AnswerError(h) ==
    /\ At(h, "failed")
    /\ Close(h)
    /\ UNCHANGED <<db, since>>

\* The task dies or loses its connection: the server rolls back.
Crash(h) ==
    /\ "crash" \in Faults /\ job[h] # None
    /\ Close(h)
    /\ UNCHANGED <<db, since>>

Init ==
    /\ db = {}
    /\ tx = [h \in Handlers |-> {}]
    /\ job = [h \in Handlers |-> None]
    /\ since = [h \in Handlers |-> {}]
    /\ requests = 0

Arrival(h) ==
    \/ \E spelling \in Spellings, base \in Bases : StartRegister(h, spelling, base)
    \/ \E spelling \in Spellings : StartLogin(h, spelling)
    \/ \E slug \in Slugs, key \in ProjectKeys : StartProject(h, slug, key)

Statement(h) ==
    \/ EmailTaken(h) \/ EmailFree(h) \/ InsertUser(h)
    \/ SlugTaken(h) \/ SlugFree(h) \/ InsertOrganization(h) \/ AddMember(h)
    \/ LoginRefused(h) \/ LoginFound(h) \/ LoginDone(h)
    \/ \E slug \in Slugs : LoginMember(h, slug)
    \/ KeyTaken(h) \/ KeyFree(h) \/ InsertProject(h)
    \/ Commit(h) \/ BreaksConstraint(h) \/ AnswerError(h)

Next == \E h \in Handlers : Arrival(h) \/ Statement(h) \/ Crash(h)

\* A thread keeps running its request; requests need not come, nor crashes.
Fairness == \A h \in Handlers : WF_vars(Statement(h))

Spec == Init /\ [][Next]_vars
FairSpec == Spec /\ Fairness

----------------------------------------------------------------------------
(* Properties                                                              *)

TypeOK ==
    /\ db \subseteq Rows
    /\ tx \in [Handlers -> SUBSET Rows]
    /\ job \in [Handlers -> Request \cup {None}]
    /\ since \in [Handlers -> SUBSET Rows]
    /\ requests \in 0..MaxRequests

\* "Stored lowercased so uniqueness is case-insensitive": however a mailbox is
\* typed, and whoever registers it at the same time, it has one account.
OneAccountPerMailbox ==
    \A a, b \in Spellings :
        UserRow(a) \in db /\ UserRow(b) \in db /\ a.mailbox = b.mailbox => a = b

\* "Should be impossible: registration always creates one": every account has
\* an organization of its own, no organization is shared or without an owner,
\* and no login reads a user without either, wherever registrations crash: the
\* errors in _context_for_user are never raised.
RegistrationAtomic ==
    /\ \A email \in Spellings : UserRow(email) \in db =>
          \E slug \in Slugs : OrgRow(slug) \in db /\ MemberRow(slug, email) \in db
    /\ \A slug \in Slugs : OrgRow(slug) \in db =>
          \E email \in Spellings :
              /\ UserRow(email) \in db
              /\ \A other \in Spellings :
                    MemberRow(slug, other) \in db <=> other = email
    /\ \A h \in Handlers :
          /\ At(h, "memberships") =>
                \E slug \in Slugs : MemberRow(slug, job[h].email) \in db
          /\ At(h, "organization") => OrgRow(job[h].base) \in db

\* The lookups "avoid the common collision": a request breaks a constraint only
\* when another committed the row after this one had looked for it.
OnlyRacesFail ==
    \A h \in Handlers : At(h, "failed") => job[h].row \in since[h]

\* Requests wait for each other's keys, and _unique_slug loops; all end.
EveryRequestAnswered ==
    \A h \in Handlers : job[h] # None ~> job[h] = None

=============================================================================
