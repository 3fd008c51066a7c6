-------------------------- MODULE Accounts_proofs --------------------------
(***************************************************************************)
(* Registrations, logins and project creations keep the tables whole, for  *)
(* any number of concurrent requests, mailboxes and organization names.    *)
(***************************************************************************)
EXTENDS Accounts, TLAPS

USE RequestsAssumption, NoneAssumption

----------------------------------------------------------------------------
(* The inductive invariant                                                 *)

RegisterSteps == {"email", "user", "slug", "org", "member"}
LoginSteps == {"login", "memberships", "organization"}
ProjectSteps == {"key", "project"}

Registers(j) == j.email \in Spellings /\ ~j.email.capitals /\ j.base \in Bases
Creates(j) == j.email = None /\ j.base \in Slugs /\ j.key \in ProjectKeys

\* A request has the inputs its step uses, and has read what it relies on.
FieldsFit(h) ==
    LET j == job[h] IN
    /\ j.step \in RegisterSteps => Registers(j)
    /\ j.step \in LoginSteps => j.email \in Spellings
    /\ j.step = "memberships" => UserRow(j.email) \in db
    /\ j.step = "organization" => j.base \in Slugs /\ OrgRow(j.base) \in db
    /\ j.step \in ProjectSteps => Creates(j)
    /\ j.step = "commit" => Registers(j) \/ Creates(j)

\* What a request has inserted when it is about to take a step.
Inserted(j) ==
    LET user == UserRow(j.email)
        org == OrgRow(Slug(j.base, j.n))
        member == MemberRow(Slug(j.base, j.n), j.email)
    IN  IF j.step \in {"slug", "org"} THEN {user}
        ELSE IF j.step = "member" THEN {user, org}
        ELSE IF j.step = "commit" /\ j.email # None THEN {user, org, member}
        ELSE IF j.step = "commit" THEN {ProjectRow(j.base, j.key)}
        ELSE {}

\* A row that has appeared since a request looked for it is in "since".
SeenFit(h) ==
    LET j == job[h] IN
    /\ j.step = "user" /\ UserRow(j.email) \in db => UserRow(j.email) \in since[h]
    /\ j.step = "org" /\ OrgRow(Slug(j.base, j.n)) \in db =>
          OrgRow(Slug(j.base, j.n)) \in since[h]
    /\ j.step = "project" /\ ProjectRow(j.base, j.key) \in db =>
          ProjectRow(j.base, j.key) \in since[h]
    /\ j.step = "failed" => j.row \in since[h]

JobFit(h) ==
    IF job[h] = None THEN tx[h] = {}
    ELSE FieldsFit(h) /\ tx[h] = Inserted(job[h]) /\ SeenFit(h)

\* Unique constraints: no row is inserted twice.
Apart ==
    \A h \in Handlers :
        /\ tx[h] \cap db = {}
        /\ \A g \in Handlers \ {h} : tx[g] \cap tx[h] = {}

\* The committed rows form whole accounts.
DbFit ==
    /\ \A email \in Spellings : UserRow(email) \in db =>
          /\ ~email.capitals
          /\ \E slug \in Slugs : OrgRow(slug) \in db /\ MemberRow(slug, email) \in db
    /\ \A slug \in Slugs : OrgRow(slug) \in db =>
          \E email \in Spellings :
              /\ UserRow(email) \in db
              /\ \A other \in Spellings :
                    MemberRow(slug, other) \in db <=> other = email
    /\ \A slug \in Slugs, email \in Spellings :
          MemberRow(slug, email) \in db => OrgRow(slug) \in db

Inv == TypeOK /\ (\A h \in Handlers : JobFit(h)) /\ Apart /\ DbFit

----------------------------------------------------------------------------
(* Rows and requests                                                       *)

\* Rows of different tables differ, and a row determines its columns.
LEMMA RowsDiffer ==
    ASSUME NEW a, NEW b, NEW c, NEW d
    PROVE  /\ UserRow(a) # OrgRow(b) /\ UserRow(a) # MemberRow(b, c)
           /\ UserRow(a) # ProjectRow(b, c) /\ OrgRow(a) # MemberRow(b, c)
           /\ OrgRow(a) # ProjectRow(b, c) /\ MemberRow(a, b) # ProjectRow(c, d)
           /\ UserRow(a) = UserRow(b) => a = b
           /\ OrgRow(a) = OrgRow(b) => a = b
           /\ MemberRow(a, b) = MemberRow(c, d) => a = c /\ b = d
           /\ ProjectRow(a, b) = ProjectRow(c, d) => a = c /\ b = d
  BY DEF UserRow, OrgRow, MemberRow, ProjectRow

\* A base with any suffix the loop may try is a slug.
LEMMA SlugType ==
    ASSUME NEW base \in Bases, NEW n \in 1..(MaxRequests + 1)
    PROVE  Slug(base, n) \in Slugs
<1>1. CASE n = 1
  BY <1>1 DEF Slug, Slugs
<1>2. CASE n # 1
  <2>1. n \in Suffixes
    BY <1>2 DEF Suffixes
  <2> QED
    BY <1>2, <2>1 DEF Slug, Slugs
<1> QED
  BY <1>1, <1>2

\* Every row a request may insert is a row.
LEMMA RowType ==
    /\ \A email \in Spellings : UserRow(email) \in Rows
    /\ \A slug \in Slugs : OrgRow(slug) \in Rows
    /\ \A slug \in Slugs, email \in Spellings : MemberRow(slug, email) \in Rows
    /\ \A slug \in Slugs, key \in ProjectKeys : ProjectRow(slug, key) \in Rows
  BY DEF UserRow, OrgRow, MemberRow, ProjectRow, Rows

\* Normalizing an address leaves the mailbox alone.
LEMMA NormalizedEmail ==
    ASSUME NEW spelling \in Spellings
    PROVE  /\ NormalizeEmail(spelling) \in Spellings
           /\ ~NormalizeEmail(spelling).capitals
  BY DEF NormalizeEmail, Spellings

\* A request that is untouched stays fit when others add rows.
LEMMA OthersFit ==
    ASSUME NEW g \in Handlers, JobFit(g), job'[g] = job[g], tx'[g] = tx[g],
           db \subseteq db', since[g] \subseteq since'[g], db' \ db \subseteq since'[g]
    PROVE  JobFit(g)'
<1>1. CASE job[g] = None
  BY <1>1 DEF JobFit
<1>2. CASE job[g] # None
  <2>1. FieldsFit(g)'
    BY <1>2 DEF JobFit, FieldsFit, Registers, Creates
  <2>2. tx'[g] = Inserted(job'[g])
    BY <1>2 DEF JobFit
  <2>3. SeenFit(g)'
    BY <1>2 DEF JobFit, SeenFit
  <2> QED
    BY <1>2, <2>1, <2>2, <2>3 DEF JobFit
<1> QED
  BY <1>1, <1>2

\* What the next step of one request does to another's.
Untouched(h) ==
    \A g \in Handlers \ {h} : job'[g] = job[g] /\ tx'[g] = tx[g]

LEMMA QuietInv ==
    ASSUME Inv, NEW h \in Handlers, TypeOK', db' = db, Untouched(h), JobFit(h)',
           tx'[h] = tx[h] \/ tx'[h] = {},
           \A g \in Handlers \ {h} : since'[g] = since[g]
    PROVE  Inv'
<1>1. \A g \in Handlers \ {h} : JobFit(g)'
  BY OthersFit DEF Inv, Untouched
<1>2. Apart'
  <2>1. \A g \in Handlers : tx'[g] \subseteq tx[g]
    BY DEF Untouched
  <2> QED
    BY <2>1 DEF Inv, Apart
<1>3. DbFit'
  BY DEF Inv, DbFit
<1> QED
  BY <1>1, <1>2, <1>3 DEF Inv

\* The parts of a request that a step leaves alone.
LEMMA GotoFields ==
    ASSUME TypeOK, NEW h \in Handlers, job[h] # None, NEW step \in Steps, Goto(h, step)
    PROVE  /\ job' \in [Handlers -> Request \cup {None}]
           /\ job'[h] # None /\ job'[h].step = step
           /\ job'[h].email = job[h].email /\ job'[h].base = job[h].base
           /\ job'[h].key = job[h].key /\ job'[h].n = job[h].n
           /\ job'[h].row = job[h].row
           /\ \A g \in Handlers \ {h} : job'[g] = job[g]
<1>1. job[h] \in Request
  BY DEF TypeOK
<1> DEFINE new == [job[h] EXCEPT !.step = step]
<1>2. /\ new \in Request /\ new.step = step /\ new.email = job[h].email
      /\ new.base = job[h].base /\ new.key = job[h].key /\ new.n = job[h].n
      /\ new.row = job[h].row
  BY <1>1 DEF Request
<1>3. job' = [job EXCEPT ![h] = new]
  BY DEF Goto
<1> HIDE DEF new
<1> QED
  BY <1>2, <1>3 DEF TypeOK

LEMMA InitInv == Init => Inv
<1> SUFFICES ASSUME Init PROVE Inv
  OBVIOUS
<1>1. TypeOK
  BY DEF Init, TypeOK
<1>2. \A h \in Handlers : JobFit(h)
  BY DEF Init, JobFit
<1>3. Apart /\ DbFit
  BY DEF Init, Apart, DbFit
<1> QED
  BY <1>1, <1>2, <1>3 DEF Inv

\* A request arrives.
LEMMA AcceptInv ==
    ASSUME Inv, NEW h \in Handlers, NEW step \in Steps,
           NEW email \in Spellings \cup {None}, NEW base \in Slugs \cup {None},
           NEW key \in ProjectKeys \cup {None},
           Accept(h, step, email, base, key),
           \/ step = "email" /\ email \in Spellings /\ ~email.capitals /\ base \in Bases
           \/ step = "login" /\ email \in Spellings
           \/ step = "key" /\ email = None /\ base \in Slugs /\ key \in ProjectKeys
    PROVE  Inv'
<1> DEFINE new == [step |-> step, email |-> email, base |-> base, key |-> key,
                   n |-> 1, row |-> None]
<1>1. TypeOK /\ JobFit(h) /\ job[h] = None
  BY DEF Inv, Accept
<1>2. /\ new \in Request /\ new.step = step /\ new.email = email /\ new.base = base
      /\ new.key = key
  BY DEF Request
<1>3. /\ job' = [job EXCEPT ![h] = new] /\ since' = [since EXCEPT ![h] = {}]
      /\ requests < MaxRequests /\ requests' = requests + 1
      /\ db' = db /\ tx' = tx
  BY DEF Accept, LooksFrom
<1> HIDE DEF new
<1>4. job' \in [Handlers -> Request \cup {None}] /\ job'[h] = new
  BY <1>1, <1>2, <1>3 DEF TypeOK
<1>5. since' \in [Handlers -> SUBSET Rows] /\ requests' \in 0..MaxRequests
  BY <1>1, <1>3 DEF TypeOK
<1>6. TypeOK'
  BY <1>1, <1>3, <1>4, <1>5 DEF TypeOK
<1>7. JobFit(h)'
  <2>1. job'[h] # None /\ tx'[h] = {}
    BY <1>1, <1>2, <1>3, <1>4 DEF JobFit
  <2>2. FieldsFit(h)'
    BY <1>2, <1>4 DEF FieldsFit, RegisterSteps, LoginSteps, ProjectSteps, Registers, Creates
  <2>3. Inserted(job'[h]) = {} /\ SeenFit(h)'
    BY <1>2, <1>4 DEF Inserted, SeenFit
  <2> QED
    BY <2>1, <2>2, <2>3 DEF JobFit
<1>8. Untouched(h) /\ \A g \in Handlers \ {h} : since'[g] = since[g]
  BY <1>1, <1>3 DEF TypeOK, Untouched
<1> QED
  BY <1>3, <1>6, <1>7, <1>8, QuietInv

LEMMA ArrivalInv == ASSUME Inv, NEW h \in Handlers, Arrival(h) PROVE Inv'
<1>1. ASSUME NEW spelling \in Spellings, NEW base \in Bases,
             StartRegister(h, spelling, base)
      PROVE  Inv'
  <2>1. Bases \subseteq Slugs /\ "email" \in Steps
    BY DEF Slugs, Steps
  <2> QED
    BY <1>1, <2>1, NormalizedEmail, AcceptInv DEF StartRegister
<1>2. ASSUME NEW spelling \in Spellings, StartLogin(h, spelling) PROVE Inv'
  <2>1. "login" \in Steps
    BY DEF Steps
  <2> QED
    BY <1>2, <2>1, NormalizedEmail, AcceptInv DEF StartLogin
<1>3. ASSUME NEW slug \in Slugs, NEW key \in ProjectKeys, StartProject(h, slug, key)
      PROVE  Inv'
  <2>1. "key" \in Steps
    BY DEF Steps
  <2> QED
    BY <1>3, <2>1, AcceptInv DEF StartProject
<1> QED
  BY <1>1, <1>2, <1>3 DEF Arrival

\* A request ends without a commit.
LEMMA CloseInv ==
    ASSUME Inv, NEW h \in Handlers, Close(h), UNCHANGED <<db, since>>
    PROVE  Inv'
<1>1. TypeOK
  BY DEF Inv
<1>2. tx' = [tx EXCEPT ![h] = {}] /\ job' = [job EXCEPT ![h] = None]
      /\ UNCHANGED <<db, since, requests>>
  BY DEF Close
<1>3. TypeOK'
  BY <1>1, <1>2 DEF TypeOK
<1>4. tx'[h] = {} /\ job'[h] = None /\ Untouched(h)
  BY <1>1, <1>2 DEF TypeOK, Untouched
<1>5. JobFit(h)'
  BY <1>4 DEF JobFit
<1> QED
  BY <1>2, <1>3, <1>4, <1>5, QuietInv

\* A SELECT that finds nothing, or a login's that finds the user.
LEMMA QuietGotoInv ==
    ASSUME Inv, NEW h \in Handlers, job[h] # None, NEW step \in Steps, Goto(h, step),
           UNCHANGED <<db, tx, requests>>, LooksFrom(h) \/ since' = since,
           JobFit(h)'
    PROVE  Inv'
<1>1. TypeOK
  BY DEF Inv
<1>2. job' \in [Handlers -> Request \cup {None}] /\ Untouched(h)
  BY <1>1, GotoFields DEF Untouched
<1>3. /\ since' \in [Handlers -> SUBSET Rows]
      /\ \A g \in Handlers \ {h} : since'[g] = since[g]
  BY <1>1 DEF TypeOK, LooksFrom
<1>4. TypeOK'
  BY <1>1, <1>2, <1>3 DEF TypeOK
<1> QED
  BY <1>2, <1>3, <1>4, QuietInv

\* The lookup of an address.
LEMMA EmailFreeInv == ASSUME Inv, NEW h \in Handlers, EmailFree(h) PROVE Inv'
<1>1. /\ TypeOK /\ JobFit(h) /\ job[h] # None /\ job[h].step = "email"
      /\ UserRow(job[h].email) \notin db /\ Goto(h, "user") /\ LooksFrom(h)
      /\ UNCHANGED <<db, tx, requests>>
  BY DEF Inv, EmailFree, At
<1>2. "user" \in Steps
  BY DEF Steps
<1>3. /\ job'[h] # None /\ job'[h].step = "user"
      /\ job'[h].email = job[h].email /\ job'[h].base = job[h].base
      /\ job'[h].key = job[h].key /\ job'[h].n = job[h].n
  BY <1>1, <1>2, GotoFields
<1>4. FieldsFit(h)'
  BY <1>1, <1>3 DEF JobFit, FieldsFit, RegisterSteps, LoginSteps, ProjectSteps, Registers
<1>5. tx'[h] = Inserted(job'[h])
  BY <1>1, <1>3 DEF JobFit, Inserted
<1>6. SeenFit(h)'
  BY <1>1, <1>3 DEF SeenFit
<1>7. JobFit(h)'
  BY <1>3, <1>4, <1>5, <1>6 DEF JobFit
<1> QED
  BY <1>1, <1>2, <1>7, QuietGotoInv

\* The lookup of a slug that is free.
LEMMA SlugFreeInv == ASSUME Inv, NEW h \in Handlers, SlugFree(h) PROVE Inv'
<1>1. /\ TypeOK /\ JobFit(h) /\ job[h] # None /\ job[h].step = "slug"
      /\ OrgRow(Slug(job[h].base, job[h].n)) \notin db
      /\ Goto(h, "org") /\ LooksFrom(h)
      /\ UNCHANGED <<db, tx, requests>>
  BY DEF Inv, SlugFree, At, Candidate
<1>2. "org" \in Steps
  BY DEF Steps
<1>3. /\ job'[h] # None /\ job'[h].step = "org"
      /\ job'[h].email = job[h].email /\ job'[h].base = job[h].base
      /\ job'[h].key = job[h].key /\ job'[h].n = job[h].n
  BY <1>1, <1>2, GotoFields
<1>4. FieldsFit(h)'
  BY <1>1, <1>3 DEF JobFit, FieldsFit, RegisterSteps, LoginSteps, ProjectSteps, Registers
<1>5. tx'[h] = Inserted(job'[h])
  BY <1>1, <1>3 DEF JobFit, Inserted
<1>6. SeenFit(h)'
  BY <1>1, <1>3 DEF SeenFit
<1>7. JobFit(h)'
  BY <1>3, <1>4, <1>5, <1>6 DEF JobFit
<1> QED
  BY <1>1, <1>2, <1>7, QuietGotoInv

\* The lookup of a project key that is free.
LEMMA KeyFreeInv == ASSUME Inv, NEW h \in Handlers, KeyFree(h) PROVE Inv'
<1>1. /\ TypeOK /\ JobFit(h) /\ job[h] # None /\ job[h].step = "key"
      /\ ProjectRow(job[h].base, job[h].key) \notin db
      /\ Goto(h, "project") /\ LooksFrom(h)
      /\ UNCHANGED <<db, tx, requests>>
  BY DEF Inv, KeyFree, At
<1>2. "project" \in Steps
  BY DEF Steps
<1>3. /\ job'[h] # None /\ job'[h].step = "project"
      /\ job'[h].email = job[h].email /\ job'[h].base = job[h].base
      /\ job'[h].key = job[h].key /\ job'[h].n = job[h].n
  BY <1>1, <1>2, GotoFields
<1>4. FieldsFit(h)'
  BY <1>1, <1>3 DEF JobFit, FieldsFit, RegisterSteps, LoginSteps, ProjectSteps, Creates
<1>5. tx'[h] = Inserted(job'[h])
  BY <1>1, <1>3 DEF JobFit, Inserted
<1>6. SeenFit(h)'
  BY <1>1, <1>3 DEF SeenFit
<1>7. JobFit(h)'
  BY <1>3, <1>4, <1>5, <1>6 DEF JobFit
<1> QED
  BY <1>1, <1>2, <1>7, QuietGotoInv

\* A login that finds its user.
LEMMA LoginFoundInv == ASSUME Inv, NEW h \in Handlers, LoginFound(h) PROVE Inv'
<1>1. /\ TypeOK /\ JobFit(h) /\ job[h] # None /\ job[h].step = "login"
      /\ UserRow(job[h].email) \in db
      /\ Goto(h, "memberships")
      /\ UNCHANGED <<db, tx, since, requests>>
  BY DEF Inv, LoginFound, At
<1>2. "memberships" \in Steps
  BY DEF Steps
<1>3. /\ job'[h] # None /\ job'[h].step = "memberships"
      /\ job'[h].email = job[h].email
  BY <1>1, <1>2, GotoFields
<1>4. FieldsFit(h)'
  BY <1>1, <1>3 DEF JobFit, FieldsFit, RegisterSteps, LoginSteps, ProjectSteps
<1>5. tx'[h] = Inserted(job'[h])
  BY <1>1, <1>3 DEF JobFit, Inserted
<1>6. SeenFit(h)'
  BY <1>1, <1>3 DEF SeenFit
<1>7. JobFit(h)'
  BY <1>3, <1>4, <1>5, <1>6 DEF JobFit
<1> QED
  BY <1>1, <1>2, <1>7, QuietGotoInv

\* The loop of _unique_slug goes round.
LEMMA SlugTakenInv == ASSUME Inv, NEW h \in Handlers, SlugTaken(h) PROVE Inv'
<1>1. /\ TypeOK /\ JobFit(h) /\ job[h] \in Request /\ job[h] # None
      /\ job[h].step = "slug" /\ job[h].n <= MaxRequests
      /\ UNCHANGED <<db, tx, since, requests>>
  BY DEF Inv, TypeOK, SlugTaken, At
<1> DEFINE new == [job[h] EXCEPT !.n = job[h].n + 1]
<1>2. job' = [job EXCEPT ![h] = new]
  BY DEF SlugTaken, NextSuffix
<1>3. job[h].n + 1 \in 1..(MaxRequests + 1)
  BY <1>1 DEF Request
<1>4. /\ new \in Request /\ new.step = "slug" /\ new.email = job[h].email
      /\ new.base = job[h].base
  BY <1>1, <1>3 DEF Request
<1> HIDE DEF new
<1>5. job' \in [Handlers -> Request \cup {None}] /\ job'[h] = new /\ Untouched(h)
  BY <1>1, <1>2, <1>4 DEF TypeOK, Untouched
<1>6. TypeOK'
  BY <1>1, <1>5 DEF TypeOK
<1>7. FieldsFit(h)'
  BY <1>1, <1>4, <1>5 DEF JobFit, FieldsFit, RegisterSteps, LoginSteps, ProjectSteps, Registers
<1>8. tx'[h] = Inserted(job'[h])
  BY <1>1, <1>4, <1>5 DEF JobFit, Inserted
<1>9. SeenFit(h)'
  BY <1>4, <1>5 DEF SeenFit
<1>10. JobFit(h)'
  BY <1>4, <1>5, <1>7, <1>8, <1>9 DEF JobFit
<1> QED
  BY <1>1, <1>5, <1>6, <1>10, QuietInv

\* A login reads its membership.
LEMMA LoginMemberInv ==
    ASSUME Inv, NEW h \in Handlers, NEW slug \in Slugs, LoginMember(h, slug)
    PROVE  Inv'
<1>1. /\ TypeOK /\ JobFit(h) /\ job[h] \in Request /\ job[h] # None
      /\ job[h].step = "memberships" /\ MemberRow(slug, job[h].email) \in db
      /\ UNCHANGED <<db, tx, since, requests>>
  BY DEF Inv, TypeOK, LoginMember, At
<1> DEFINE new == [job[h] EXCEPT !.step = "organization", !.base = slug]
<1>2. job' = [job EXCEPT ![h] = new]
  BY DEF LoginMember
<1>3. /\ new \in Request /\ new.step = "organization" /\ new.email = job[h].email
      /\ new.base = slug
  BY <1>1 DEF Request, Steps
<1> HIDE DEF new
<1>4. job' \in [Handlers -> Request \cup {None}] /\ job'[h] = new /\ Untouched(h)
  BY <1>1, <1>2, <1>3 DEF TypeOK, Untouched
<1>5. TypeOK'
  BY <1>1, <1>4 DEF TypeOK
<1>6. job[h].email \in Spellings
  BY <1>1 DEF JobFit, FieldsFit, LoginSteps
<1>7. OrgRow(slug) \in db
  BY <1>1, <1>6 DEF Inv, DbFit
<1>8. FieldsFit(h)'
  BY <1>1, <1>3, <1>4, <1>6, <1>7 DEF FieldsFit, RegisterSteps, LoginSteps, ProjectSteps
<1>9. tx'[h] = Inserted(job'[h])
  BY <1>1, <1>3, <1>4 DEF JobFit, Inserted
<1>10. SeenFit(h)'
  BY <1>3, <1>4 DEF SeenFit
<1>11. JobFit(h)'
  BY <1>3, <1>4, <1>8, <1>9, <1>10 DEF JobFit
<1> QED
  BY <1>1, <1>4, <1>5, <1>11, QuietInv

----------------------------------------------------------------------------
(* Inserts                                                                 *)

\* An INSERT that succeeds leaves the transactions' rows apart.
LEMMA InsertInv ==
    ASSUME Inv, NEW h \in Handlers, job[h] # None, NEW row \in Rows,
           NEW next \in {"slug", "member", "commit"}, Insert(h, row, next),
           FieldsFit(h)', Inserted(job'[h]) = tx[h] \cup {row}
    PROVE  Inv'
<1>1. /\ TypeOK /\ Apart /\ row \notin db /\ Unheld(h, row) /\ Goto(h, next)
      /\ tx' = [tx EXCEPT ![h] = @ \cup {row}]
      /\ UNCHANGED <<db, since, requests>>
  BY DEF Inv, Insert
<1>2. next \in Steps
  BY DEF Steps
<1>3. /\ job' \in [Handlers -> Request \cup {None}] /\ job'[h] # None
      /\ job'[h].step = next /\ \A g \in Handlers \ {h} : job'[g] = job[g]
  BY <1>1, <1>2, GotoFields
<1>4. /\ tx' \in [Handlers -> SUBSET Rows] /\ tx'[h] = tx[h] \cup {row}
      /\ \A g \in Handlers \ {h} : tx'[g] = tx[g]
  BY <1>1 DEF TypeOK
<1>5. TypeOK'
  BY <1>1, <1>3, <1>4 DEF TypeOK
<1>6. JobFit(h)'
  <2>1. SeenFit(h)'
    BY <1>3 DEF SeenFit
  <2> QED
    BY <1>3, <1>4, <2>1 DEF JobFit
<1>7. \A g \in Handlers \ {h} : JobFit(g)'
  BY <1>1, <1>3, <1>4, OthersFit DEF Inv
<1>8. Apart'
  BY <1>1, <1>4 DEF Apart, Unheld
<1>9. DbFit'
  BY <1>1 DEF Inv, DbFit
<1> QED
  BY <1>5, <1>6, <1>7, <1>8, <1>9 DEF Inv

LEMMA InsertUserInv == ASSUME Inv, NEW h \in Handlers, InsertUser(h) PROVE Inv'
<1>1. /\ TypeOK /\ JobFit(h) /\ job[h] # None /\ job[h].step = "user"
      /\ Insert(h, UserRow(job[h].email), "slug") /\ Goto(h, "slug")
      /\ UNCHANGED <<db, since, requests>>
  BY DEF Inv, InsertUser, Insert, At
<1>2. "slug" \in Steps
  BY DEF Steps
<1>3. /\ job'[h].step = "slug" /\ job'[h].email = job[h].email
      /\ job'[h].base = job[h].base
  BY <1>1, <1>2, GotoFields
<1>4. FieldsFit(h)' /\ job[h].email \in Spellings
  BY <1>1, <1>3 DEF JobFit, FieldsFit, RegisterSteps, LoginSteps, ProjectSteps, Registers
<1>5. Inserted(job'[h]) = tx[h] \cup {UserRow(job[h].email)}
  BY <1>1, <1>3 DEF JobFit, Inserted
<1> QED
  BY <1>1, <1>4, <1>5, RowType, InsertInv

LEMMA InsertOrganizationInv ==
    ASSUME Inv, NEW h \in Handlers, InsertOrganization(h) PROVE Inv'
<1> DEFINE slug == Slug(job[h].base, job[h].n)
<1>1. /\ TypeOK /\ JobFit(h) /\ job[h] \in Request /\ job[h] # None
      /\ job[h].step = "org"
      /\ Insert(h, OrgRow(slug), "member") /\ Goto(h, "member")
      /\ UNCHANGED <<db, since, requests>>
  BY DEF Inv, TypeOK, InsertOrganization, Insert, At, Candidate
<1>2. "member" \in Steps
  BY DEF Steps
<1>3. /\ job'[h].step = "member" /\ job'[h].email = job[h].email
      /\ job'[h].base = job[h].base /\ job'[h].n = job[h].n
  BY <1>1, <1>2, GotoFields
<1>4. FieldsFit(h)' /\ job[h].base \in Bases /\ job[h].n \in 1..(MaxRequests + 1)
  BY <1>1, <1>3
  DEF JobFit, FieldsFit, RegisterSteps, LoginSteps, ProjectSteps, Registers, Request
<1>5. Inserted(job'[h]) = tx[h] \cup {OrgRow(slug)}
  BY <1>1, <1>3 DEF JobFit, Inserted
<1>6. OrgRow(slug) \in Rows
  BY <1>4, SlugType, RowType
<1> QED
  BY <1>1, <1>4, <1>5, <1>6, InsertInv

LEMMA AddMemberInv == ASSUME Inv, NEW h \in Handlers, AddMember(h) PROVE Inv'
<1> DEFINE slug == Slug(job[h].base, job[h].n)
           row == MemberRow(slug, job[h].email)
<1>1. /\ TypeOK /\ JobFit(h) /\ job[h] \in Request /\ job[h] # None
      /\ job[h].step = "member"
      /\ Insert(h, row, "commit") /\ Goto(h, "commit")
      /\ UNCHANGED <<db, since, requests>>
  BY DEF Inv, TypeOK, AddMember, Insert, At, Candidate
<1>2. "commit" \in Steps
  BY DEF Steps
<1>3. /\ job'[h].step = "commit" /\ job'[h].email = job[h].email
      /\ job'[h].base = job[h].base /\ job'[h].n = job[h].n
  BY <1>1, <1>2, GotoFields
<1>4. /\ FieldsFit(h)' /\ job[h].base \in Bases /\ job[h].n \in 1..(MaxRequests + 1)
      /\ job[h].email \in Spellings
  BY <1>1, <1>3
  DEF JobFit, FieldsFit, RegisterSteps, LoginSteps, ProjectSteps, Registers, Request
<1>5. Inserted(job'[h]) = tx[h] \cup {row}
  <2>1. job[h].email # None
    BY <1>4
  <2> QED
    BY <1>1, <1>3, <2>1 DEF JobFit, Inserted
<1>6. row \in Rows
  BY <1>4, SlugType, RowType
<1> QED
  BY <1>1, <1>4, <1>5, <1>6, InsertInv

LEMMA InsertProjectInv == ASSUME Inv, NEW h \in Handlers, InsertProject(h) PROVE Inv'
<1> DEFINE row == ProjectRow(job[h].base, job[h].key)
<1>1. /\ TypeOK /\ JobFit(h) /\ job[h] # None /\ job[h].step = "project"
      /\ Insert(h, row, "commit") /\ Goto(h, "commit")
      /\ UNCHANGED <<db, since, requests>>
  BY DEF Inv, InsertProject, Insert, At
<1>2. "commit" \in Steps
  BY DEF Steps
<1>3. /\ job'[h].step = "commit" /\ job'[h].email = job[h].email
      /\ job'[h].base = job[h].base /\ job'[h].key = job[h].key
  BY <1>1, <1>2, GotoFields
<1>4. FieldsFit(h)' /\ Creates(job[h])
  BY <1>1, <1>3
  DEF JobFit, FieldsFit, RegisterSteps, LoginSteps, ProjectSteps, Creates
<1>5. Inserted(job'[h]) = tx[h] \cup {row}
  BY <1>1, <1>3, <1>4 DEF JobFit, Inserted, Creates
<1>6. row \in Rows
  BY <1>4, RowType DEF Creates
<1> QED
  BY <1>1, <1>4, <1>5, <1>6, InsertInv

\* An INSERT that breaks a constraint: somebody committed the row after this
\* request had looked for it.
LEMMA ViolatesInv ==
    ASSUME Inv, NEW h \in Handlers, job[h] # None, NEW row \in Rows,
           Violates(h, row), row \in since[h]
    PROVE  Inv'
<1>1. TypeOK /\ job[h] \in Request
  BY DEF Inv, TypeOK
<1> DEFINE new == [job[h] EXCEPT !.step = "failed", !.row = row]
<1>2. /\ tx' = [tx EXCEPT ![h] = {}] /\ job' = [job EXCEPT ![h] = new]
      /\ UNCHANGED <<db, since, requests>>
  BY DEF Violates
<1>3. new \in Request /\ new.step = "failed" /\ new.row = row
  BY <1>1 DEF Request, Steps
<1> HIDE DEF new
<1>4. /\ job' \in [Handlers -> Request \cup {None}] /\ job'[h] = new
      /\ tx' \in [Handlers -> SUBSET Rows] /\ tx'[h] = {} /\ Untouched(h)
  BY <1>1, <1>2, <1>3 DEF TypeOK, Untouched
<1>5. TypeOK'
  BY <1>1, <1>2, <1>4 DEF TypeOK
<1>6. JobFit(h)'
  <2>1. FieldsFit(h)'
    BY <1>3, <1>4 DEF FieldsFit, RegisterSteps, LoginSteps, ProjectSteps
  <2>2. tx'[h] = Inserted(job'[h])
    BY <1>3, <1>4 DEF Inserted
  <2>3. SeenFit(h)'
    BY <1>2, <1>3, <1>4 DEF SeenFit
  <2> QED
    BY <1>3, <1>4, <2>1, <2>2, <2>3 DEF JobFit
<1> QED
  BY <1>2, <1>4, <1>5, <1>6, QuietInv

LEMMA BreaksConstraintInv ==
    ASSUME Inv, NEW h \in Handlers, BreaksConstraint(h) PROVE Inv'
<1>1. /\ job[h] # None /\ FieldsFit(h) /\ SeenFit(h) /\ job[h] \in Request
  BY DEF Inv, TypeOK, JobFit, BreaksConstraint, At
<1>2. CASE job[h].step = "user" /\ Violates(h, UserRow(job[h].email))
  <2>1. UserRow(job[h].email) \in since[h]
    BY <1>1, <1>2 DEF SeenFit, Violates
  <2>2. UserRow(job[h].email) \in Rows
    BY <1>1, <1>2, RowType DEF FieldsFit, RegisterSteps, Registers
  <2> QED
    BY <1>1, <1>2, <2>1, <2>2, ViolatesInv
<1>3. CASE job[h].step = "org" /\ Violates(h, OrgRow(Slug(job[h].base, job[h].n)))
  <2>1. OrgRow(Slug(job[h].base, job[h].n)) \in since[h]
    BY <1>1, <1>3 DEF SeenFit, Violates
  <2>2. OrgRow(Slug(job[h].base, job[h].n)) \in Rows
    BY <1>1, <1>3, SlugType, RowType DEF FieldsFit, RegisterSteps, Registers, Request
  <2> QED
    BY <1>1, <1>3, <2>1, <2>2, ViolatesInv
<1>4. CASE job[h].step = "project" /\ Violates(h, ProjectRow(job[h].base, job[h].key))
  <2>1. ProjectRow(job[h].base, job[h].key) \in since[h]
    BY <1>1, <1>4 DEF SeenFit, Violates
  <2>2. ProjectRow(job[h].base, job[h].key) \in Rows
    BY <1>1, <1>4, RowType DEF FieldsFit, ProjectSteps, Creates
  <2> QED
    BY <1>1, <1>4, <2>1, <2>2, ViolatesInv
<1> QED
  BY <1>2, <1>3, <1>4 DEF BreaksConstraint, At, Candidate

----------------------------------------------------------------------------
(* Commits                                                                 *)

\* A registration's three rows make a whole account.
LEMMA AccountWhole ==
    ASSUME DbFit, NEW email \in Spellings, ~email.capitals, NEW slug \in Slugs,
           db' = db \cup {UserRow(email), OrgRow(slug), MemberRow(slug, email)},
           OrgRow(slug) \notin db
    PROVE  DbFit'
<1>1. \A e \in Spellings : UserRow(e) \in db' <=> UserRow(e) \in db \/ e = email
  BY RowsDiffer
<1>2. \A s \in Slugs : OrgRow(s) \in db' <=> OrgRow(s) \in db \/ s = slug
  BY RowsDiffer
<1>3. \A s \in Slugs, e \in Spellings :
         MemberRow(s, e) \in db' <=> MemberRow(s, e) \in db \/ (s = slug /\ e = email)
  BY RowsDiffer
<1>4. \A e \in Spellings : UserRow(e) \in db' =>
         /\ ~e.capitals
         /\ \E s \in Slugs : OrgRow(s) \in db' /\ MemberRow(s, e) \in db'
  <2> SUFFICES ASSUME NEW e \in Spellings, UserRow(e) \in db'
               PROVE  /\ ~e.capitals
                      /\ \E s \in Slugs : OrgRow(s) \in db' /\ MemberRow(s, e) \in db'
    OBVIOUS
  <2>1. CASE e = email
    BY <2>1, <1>2, <1>3
  <2>2. CASE e # email
    BY <2>2, <1>1, <1>2, <1>3 DEF DbFit
  <2> QED
    BY <2>1, <2>2
<1>5. \A s \in Slugs : OrgRow(s) \in db' =>
         \E e \in Spellings :
            /\ UserRow(e) \in db'
            /\ \A other \in Spellings : MemberRow(s, other) \in db' <=> other = e
  <2> SUFFICES ASSUME NEW s \in Slugs, OrgRow(s) \in db'
               PROVE  \E e \in Spellings :
                         /\ UserRow(e) \in db'
                         /\ \A other \in Spellings :
                               MemberRow(s, other) \in db' <=> other = e
    OBVIOUS
  <2>1. CASE s = slug
    <3>1. \A other \in Spellings : MemberRow(slug, other) \notin db
      BY DEF DbFit
    <3> QED
      BY <2>1, <3>1, <1>1, <1>3
  <2>2. CASE s # slug
    <3>1. PICK e \in Spellings :
             /\ UserRow(e) \in db
             /\ \A other \in Spellings : MemberRow(s, other) \in db <=> other = e
      BY <2>2, <1>2 DEF DbFit
    <3>2. UserRow(e) \in db'
      BY <3>1, <1>1
    <3>3. \A other \in Spellings : MemberRow(s, other) \in db' <=> other = e
      BY <2>2, <3>1, <1>3
    <3> QED
      BY <3>2, <3>3
  <2> QED
    BY <2>1, <2>2
<1>6. \A s \in Slugs, e \in Spellings : MemberRow(s, e) \in db' => OrgRow(s) \in db'
  BY <1>2, <1>3 DEF DbFit
<1> QED
  BY <1>4, <1>5, <1>6 DEF DbFit

LEMMA CommitInv == ASSUME Inv, NEW h \in Handlers, Commit(h) PROVE Inv'
<1>1. /\ TypeOK /\ Apart /\ DbFit /\ JobFit(h) /\ job[h] \in Request
      /\ job[h] # None /\ job[h].step = "commit"
  BY DEF Inv, TypeOK, Commit, At
<1>2. /\ db' = db \cup tx[h]
      /\ since' = [g \in Handlers |-> since[g] \cup tx[h]]
      /\ tx' = [tx EXCEPT ![h] = {}] /\ job' = [job EXCEPT ![h] = None]
      /\ requests' = requests
  BY DEF Commit, Publish, Close
<1>3. TypeOK'
  <2>1. tx[h] \subseteq Rows
    BY <1>1 DEF TypeOK
  <2>2. db' \subseteq Rows /\ tx' \in [Handlers -> SUBSET Rows]
    BY <1>1, <1>2, <2>1 DEF TypeOK
  <2>3. job' \in [Handlers -> Request \cup {None}]
    BY <1>1, <1>2 DEF TypeOK
  <2>4. since' \in [Handlers -> SUBSET Rows]
    BY <1>1, <1>2, <2>1 DEF TypeOK
  <2> QED
    BY <1>1, <1>2, <2>2, <2>3, <2>4 DEF TypeOK
<1>4. tx'[h] = {} /\ job'[h] = None /\ Untouched(h)
  BY <1>1, <1>2 DEF TypeOK, Untouched
<1>5. \A g \in Handlers : JobFit(g)'
  <2>1. JobFit(h)'
    BY <1>4 DEF JobFit
  <2>2. \A g \in Handlers \ {h} : JobFit(g)'
    BY <1>2, <1>4, OthersFit DEF Inv, Untouched
  <2> QED
    BY <2>1, <2>2
<1>6. Apart'
  BY <1>1, <1>2, <1>4 DEF Apart, Untouched
<1>7. tx[h] = Inserted(job[h]) /\ (Registers(job[h]) \/ Creates(job[h]))
  BY <1>1 DEF JobFit, FieldsFit
<1>8. DbFit'
  <2>1. CASE Registers(job[h])
    <3> DEFINE slug == Slug(job[h].base, job[h].n)
               email == job[h].email
    <3>1. email \in Spellings /\ ~email.capitals /\ email # None
      BY <2>1 DEF Registers
    <3>2. slug \in Slugs
      BY <1>1, <2>1, SlugType DEF Registers, Request
    <3>3. tx[h] = {UserRow(email), OrgRow(slug), MemberRow(slug, email)}
      BY <1>1, <1>7, <3>1 DEF Inserted
    <3>4. OrgRow(slug) \notin db
      BY <1>1, <3>3 DEF Apart
    <3> QED
      BY <1>1, <1>2, <3>1, <3>2, <3>3, <3>4, AccountWhole
  <2>2. CASE Creates(job[h])
    <3>1. tx[h] = {ProjectRow(job[h].base, job[h].key)}
      BY <1>1, <1>7, <2>2 DEF Inserted, Creates
    <3>2. /\ \A e : UserRow(e) \in db' <=> UserRow(e) \in db
          /\ \A s : OrgRow(s) \in db' <=> OrgRow(s) \in db
          /\ \A s, e : MemberRow(s, e) \in db' <=> MemberRow(s, e) \in db
      BY <1>2, <3>1, RowsDiffer
    <3> QED
      BY <1>1, <3>2 DEF DbFit
  <2> QED
    BY <1>7, <2>1, <2>2
<1> QED
  BY <1>3, <1>5, <1>6, <1>8 DEF Inv

----------------------------------------------------------------------------
(* The theorems                                                            *)

LEMMA StatementInv == ASSUME Inv, NEW h \in Handlers, Statement(h) PROVE Inv'
<1>1. CASE EmailTaken(h) \/ LoginRefused(h) \/ LoginDone(h) \/ KeyTaken(h)
             \/ AnswerError(h)
  BY <1>1, CloseInv DEF EmailTaken, LoginRefused, LoginDone, KeyTaken, AnswerError
<1>2. CASE EmailFree(h) \/ SlugFree(h) \/ KeyFree(h) \/ LoginFound(h) \/ SlugTaken(h)
  BY <1>2, EmailFreeInv, SlugFreeInv, KeyFreeInv, LoginFoundInv, SlugTakenInv
<1>3. CASE \E slug \in Slugs : LoginMember(h, slug)
  BY <1>3, LoginMemberInv
<1>4. CASE InsertUser(h) \/ InsertOrganization(h) \/ AddMember(h) \/ InsertProject(h)
  BY <1>4, InsertUserInv, InsertOrganizationInv, AddMemberInv, InsertProjectInv
<1>5. CASE Commit(h)
  BY <1>5, CommitInv
<1>6. CASE BreaksConstraint(h)
  BY <1>6, BreaksConstraintInv
<1> QED
  BY <1>1, <1>2, <1>3, <1>4, <1>5, <1>6 DEF Statement

LEMMA NextInv == Inv /\ [Next]_vars => Inv'
<1> SUFFICES ASSUME Inv, [Next]_vars PROVE Inv'
  OBVIOUS
<1>1. ASSUME NEW h \in Handlers, Arrival(h) PROVE Inv'
  BY <1>1, ArrivalInv
<1>2. ASSUME NEW h \in Handlers, Statement(h) PROVE Inv'
  BY <1>2, StatementInv
<1>3. ASSUME NEW h \in Handlers, Crash(h) PROVE Inv'
  BY <1>3, CloseInv DEF Crash
<1>4. CASE UNCHANGED vars
  <2>1. TypeOK'
    BY <1>4 DEF Inv, TypeOK, vars
  <2>2. \A h \in Handlers : JobFit(h)'
    BY <1>4 DEF Inv, JobFit, FieldsFit, SeenFit, vars
  <2>3. Apart' /\ DbFit'
    BY <1>4 DEF Inv, Apart, DbFit, vars
  <2> QED
    BY <2>1, <2>2, <2>3 DEF Inv
<1> QED
  BY <1>1, <1>2, <1>3, <1>4 DEF Next

\* Whatever requests interleave and whichever threads crash, transactions hold
\* exactly what their requests have inserted, no key is held or committed
\* twice, and the committed rows form whole accounts.
THEOREM Invariance == Spec => []Inv
  BY InitInv, NextInv, PTL DEF Spec

\* Tables, transactions and requests keep their types.
THEOREM TypeCorrect == Spec => []TypeOK
<1>1. Inv => TypeOK
  BY DEF Inv
<1> QED
  BY <1>1, Invariance, PTL

\* The lookup of register and the unique constraint on the stored, lowercased
\* address leave one account per mailbox.
THEOREM OneAccountPerMailboxHolds == Spec => []OneAccountPerMailbox
<1>1. Inv => OneAccountPerMailbox
  <2> SUFFICES ASSUME Inv, NEW a \in Spellings, NEW b \in Spellings,
                      UserRow(a) \in db, UserRow(b) \in db, a.mailbox = b.mailbox
               PROVE  a = b
    BY DEF OneAccountPerMailbox
  <2>1. a.capitals = b.capitals
    BY Zenon DEF Inv, DbFit, Spellings
  <2> QED
    BY <2>1 DEF Spellings
<1> QED
  BY <1>1, Invariance, PTL

\* A registration commits its three rows together, so every account has an
\* organization, every organization one owner, and no login meets a half of one.
THEOREM RegistrationAtomicHolds == Spec => []RegistrationAtomic
<1>1. Inv => RegistrationAtomic
  <2> SUFFICES ASSUME Inv PROVE RegistrationAtomic
    OBVIOUS
  <2>1. \A email \in Spellings : UserRow(email) \in db =>
           \E slug \in Slugs : OrgRow(slug) \in db /\ MemberRow(slug, email) \in db
    BY DEF Inv, DbFit
  <2>2. \A slug \in Slugs : OrgRow(slug) \in db =>
           \E email \in Spellings :
              /\ UserRow(email) \in db
              /\ \A other \in Spellings :
                    MemberRow(slug, other) \in db <=> other = email
    BY DEF Inv, DbFit
  <2>3. ASSUME NEW h \in Handlers, At(h, "memberships")
        PROVE  \E slug \in Slugs : MemberRow(slug, job[h].email) \in db
    <3>1. job[h].email \in Spellings /\ UserRow(job[h].email) \in db
      BY <2>3 DEF Inv, JobFit, FieldsFit, LoginSteps, At
    <3> QED
      BY <2>1, <3>1
  <2>4. ASSUME NEW h \in Handlers, At(h, "organization")
        PROVE  OrgRow(job[h].base) \in db
    BY <2>4 DEF Inv, JobFit, FieldsFit, At
  <2> QED
    BY <2>1, <2>2, <2>3, <2>4 DEF RegistrationAtomic
<1> QED
  BY <1>1, Invariance, PTL

\* A request breaks a constraint only when it lost a race for the key.
THEOREM OnlyRacesFailHolds == Spec => []OnlyRacesFail
<1>1. Inv => OnlyRacesFail
  BY DEF Inv, JobFit, SeenFit, OnlyRacesFail, At
<1> QED
  BY <1>1, Invariance, PTL
=============================================================================
