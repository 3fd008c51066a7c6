------------------------ MODULE IncidentList_proofs ------------------------
(***************************************************************************)
(* What the list page and the dashboard promise, for any incidents, page   *)
(* sizes, filters and number of loads in flight.  The counting facts come  *)
(* first: ranked by the ORDER BY, n matches have the ranks 0 .. n - 1.     *)
(***************************************************************************)
EXTENDS IncidentList, FiniteSetTheorems, FunctionTheorems, TLAPS

----------------------------------------------------------------------------
(* Ranks                                                                   *)

Sortable(t, M) ==
    /\ IsFiniteSet(M)
    /\ M \subseteq Nat
    /\ \A i \in M : t[i].started \in Nat

Earlier(t, j, i) ==
    \/ t[j].started > t[i].started
    \/ t[j].started = t[i].started /\ j > i

Ahead(t, M, i) == {j \in M : Earlier(t, j, i)}
Rank(t, M, i) == Cardinality(Ahead(t, M, i))

LEMMA RankBelow ==
    ASSUME NEW t, NEW M, Sortable(t, M), NEW i \in M
    PROVE  /\ IsFiniteSet(Ahead(t, M, i))
           /\ Rank(t, M, i) \in 0..(Cardinality(M) - 1)
<1>1. IsFiniteSet(M \ {i}) /\ Cardinality(M \ {i}) = Cardinality(M) - 1
  BY FS_RemoveElement DEF Sortable
<1>2. Ahead(t, M, i) \in SUBSET (M \ {i})
  BY DEF Ahead, Earlier, Sortable
<1>3. IsFiniteSet(Ahead(t, M, i)) /\ Rank(t, M, i) <= Cardinality(M) - 1
  BY <1>1, <1>2, FS_Subset DEF Rank
<1>4. Rank(t, M, i) \in Nat /\ Cardinality(M) \in Nat
  BY <1>3, FS_CardinalityType DEF Rank, Sortable
<1> QED
  BY <1>3, <1>4

LEMMA RankIncreases ==
    ASSUME NEW t, NEW M, Sortable(t, M), NEW i \in M, NEW j \in M, Earlier(t, j, i)
    PROVE  Rank(t, M, j) < Rank(t, M, i)
<1> DEFINE upTo == Ahead(t, M, j) \cup {j}
<1>1. j \notin Ahead(t, M, j)
  BY DEF Ahead, Earlier, Sortable
<1>2. IsFiniteSet(upTo) /\ Cardinality(upTo) = Rank(t, M, j) + 1
  BY <1>1, RankBelow, FS_AddElement DEF Rank
<1>3. upTo \in SUBSET Ahead(t, M, i)
  <2>1. ASSUME NEW k \in M, Earlier(t, k, j) PROVE Earlier(t, k, i)
    <3>1. i \in Nat /\ j \in Nat /\ k \in Nat
      BY DEF Sortable
    <3>2. t[i].started \in Nat /\ t[j].started \in Nat /\ t[k].started \in Nat
      BY DEF Sortable
    <3> QED
      BY <2>1, <3>1, <3>2 DEF Earlier
  <2> QED
    BY <2>1 DEF Ahead
<1>4. Cardinality(upTo) <= Rank(t, M, i)
  BY <1>3, RankBelow, FS_Subset DEF Rank
<1>5. Rank(t, M, j) \in Int /\ Rank(t, M, i) \in Int
  <2>1. Cardinality(M) \in Nat
    BY FS_CardinalityType DEF Sortable
  <2> QED
    BY <2>1, RankBelow
<1> QED
  BY <1>2, <1>4, <1>5

\* The matches have the ranks 0, 1, 2, ... up to their number, each once.
LEMMA RankBijection ==
    ASSUME NEW t, NEW M, Sortable(t, M)
    PROVE  [i \in M |-> Rank(t, M, i)] \in Bijection(M, 0..(Cardinality(M) - 1))
<1> DEFINE rank == [i \in M |-> Rank(t, M, i)]
           Ranks == 0..(Cardinality(M) - 1)
<1>1. rank \in [M -> Ranks]
  BY RankBelow
<1>2. ASSUME NEW i \in M, NEW j \in M, i # j PROVE rank[i] # rank[j]
  <2>1. Earlier(t, j, i) \/ Earlier(t, i, j)
    BY <1>2 DEF Earlier, Sortable
  <2>2. Rank(t, M, i) \in Int /\ Rank(t, M, j) \in Int
    <3>1. Cardinality(M) \in Nat
      BY FS_CardinalityType DEF Sortable
    <3> QED
      BY <3>1, RankBelow
  <2>3. Rank(t, M, j) < Rank(t, M, i) \/ Rank(t, M, i) < Rank(t, M, j)
    BY <2>1, RankIncreases
  <2> QED
    BY <2>2, <2>3
<1>3. rank \in Injection(M, Ranks)
  <2> HIDE DEF rank, Ranks
  <2> QED
    BY <1>1, <1>2, Fun_IsInj
<1>4. IsFiniteSet(Ranks) /\ Cardinality(Ranks) = Cardinality(M)
  <2>1. Cardinality(M) \in Nat
    BY FS_CardinalityType DEF Sortable
  <2> QED
    BY <2>1, FS_Interval
<1>5. rank \in Surjection(M, Ranks)
  <2> HIDE DEF rank, Ranks
  <2> QED
    BY <1>3, <1>4, FS_Injection
<1> HIDE DEF rank, Ranks
<1>6. rank \in Bijection(M, Ranks)
  BY <1>3, <1>5, Fun_IsBij
<1> QED
  BY <1>6 DEF rank, Ranks

LEMMA RankHit ==
    ASSUME NEW t, NEW M, Sortable(t, M), NEW n \in 0..(Cardinality(M) - 1)
    PROVE  \E i \in M : Rank(t, M, i) = n
<1> DEFINE rank == [i \in M |-> Rank(t, M, i)]
           Ranks == 0..(Cardinality(M) - 1)
<1>1. rank \in Bijection(M, Ranks)
  BY RankBijection
<1> HIDE DEF Ranks
<1>2. n \in Ranks => \E i \in M : rank[i] = n
  <2> HIDE DEF rank
  <2> QED
    BY <1>1, Fun_BijectionProperties
<1> QED
  BY <1>2 DEF Ranks

Slice(t, M, o, n) == {i \in M : Rank(t, M, i) \in o..(o + n - 1)}

\* A page of n is full unless the matches end before.
LEMMA SliceSize ==
    ASSUME NEW t, NEW M, Sortable(t, M), NEW o \in Nat, NEW n \in Nat
    PROVE  /\ Cardinality(M) \in Nat
           /\ Cardinality(Slice(t, M, o, n)) =
                IF Cardinality(M) <= o THEN 0
                ELSE IF Cardinality(M) <= o + n THEN Cardinality(M) - o ELSE n
<1> DEFINE c == Cardinality(M)
           last == IF c <= o + n THEN c - 1 ELSE o + n - 1
           S == Slice(t, M, o, n)
           rank == [i \in S |-> Rank(t, M, i)]
           Ranks == o..last
           all == [i \in M |-> Rank(t, M, i)]
<1>1. c \in Nat
  BY FS_CardinalityType DEF Sortable
<1>2. \A i \in M : Rank(t, M, i) \in 0..(c - 1)
  BY RankBelow
<1>3. \A i \in S : Rank(t, M, i) \in Ranks
  BY <1>1, <1>2 DEF Slice
<1>4. \A i, j \in M : Rank(t, M, i) = Rank(t, M, j) => i = j
  <2>1. \A i, j \in M : all[i] = all[j] => i = j
    <3>1. all \in Bijection(M, 0..(c - 1))
      BY RankBijection
    <3> HIDE DEF all
    <3> QED
      BY <3>1, Fun_BijectionProperties
  <2> QED
    BY <2>1
<1>5. \A r \in Ranks : \E i \in S : Rank(t, M, i) = r
  <2> SUFFICES ASSUME NEW r \in Ranks PROVE \E i \in S : Rank(t, M, i) = r
    OBVIOUS
  <2>1. r \in 0..(c - 1) /\ r \in o..(o + n - 1)
    BY <1>1
  <2> HIDE DEF c, Ranks
  <2>2. PICK i \in M : Rank(t, M, i) = r
    BY <2>1, RankHit DEF c
  <2> QED
    BY <2>1, <2>2 DEF Slice
<1>6. rank \in Bijection(S, Ranks)
  <2>1. rank \in [S -> Ranks]
    BY <1>3
  <2>2. \A i, j \in S : rank[i] = rank[j] => i = j
    BY <1>4 DEF Slice
  <2>3. \A r \in Ranks : \E i \in S : rank[i] = r
    BY <1>5
  <2> HIDE DEF rank, S, Ranks
  <2> QED
    BY <2>1, <2>2, <2>3, Fun_IsBij
<1>7. IsFiniteSet(S) /\ S \in SUBSET M
  <2>1. S \in SUBSET M
    BY DEF Slice
  <2> QED
    BY <2>1, FS_Subset DEF Sortable
<1>8. Cardinality(Ranks) = Cardinality(S)
  <2> HIDE DEF rank, S, Ranks
  <2>1. ExistsBijection(S, Ranks)
    BY <1>6 DEF ExistsBijection
  <2> QED
    BY <1>7, <2>1, FS_Bijection
<1>9. Cardinality(Ranks) = IF o > last THEN 0 ELSE last - o + 1
  <2>1. last \in Int
    BY <1>1
  <2> HIDE DEF last
  <2> QED
    BY <2>1, FS_Interval
<1> QED
  BY <1>1, <1>8, <1>9

\* Matches that are added never move another one towards the first page.
LEMMA RankGrows ==
    ASSUME NEW t, NEW M, Sortable(t, M), NEW u, NEW N, Sortable(u, N),
           M \subseteq N, \A i \in M : u[i].started = t[i].started,
           NEW i \in M
    PROVE  Rank(t, M, i) <= Rank(u, N, i)
<1>1. Ahead(t, M, i) \in SUBSET Ahead(u, N, i)
  BY DEF Ahead, Earlier
<1>2. IsFiniteSet(Ahead(u, N, i))
  BY RankBelow
<1> QED
  BY <1>1, <1>2, FS_Subset DEF Rank

USE NumbersAssumption, FiniteAssumption, SizesAssumption

----------------------------------------------------------------------------
(* The inductive invariant                                                 *)

\* The load sent last asks for what the controls say.
NewestFit ==
    newest # None => load[newest].filter = filter /\ load[newest].offset = offset

\* Unless it was overtaken, so does the page shown once that load is answered.
ShownFit ==
    PageShown /\ newest = None /\ ~overtaken =>
        shown.filter = filter /\ shown.offset = offset

\* Matches(f), of any contents of the table.
Table == [Incidents -> Row \cup {None}]
MatchesIn(t, f) == {i \in Incidents : IsMatch(t[i], f)}

All == Cardinality(MatchesIn(incident, AllOption))

\* A dashboard request half way.
DashboardFit ==
    dashboard # None =>
        /\ dashboard.step >= 2 => dashboard.open <= All
        /\ dashboard.step >= 3 => dashboard.open <= dashboard.total /\ dashboard.total <= All
        /\ dashboard.step = 4 =>
             \/ dashboard.total <= Cardinality(dashboard.recent)
             \/ Cardinality(dashboard.recent) = Recent

\* A page of all incidents ends within their number n, and so within the total
\* that is counted later.
LoadTotalFit(r, n) ==
    LET end == r.offset + Cardinality(r.items) IN
    r.filter = AllOption /\ r.items # {} =>
        /\ r.step >= 2 => end <= n
        /\ r.step = 3 => end <= r.total

TotalFit == \A l \in InFlight : LoadTotalFit(load[l], All)

\* In walk w, S holds what was due and is now among the first n matches.
FirstIn(w, t, f, n, S) ==
    \A i \in w.due : Rank(t, MatchesIn(t, f), i) < n => i \in S

\* What was due before the offset was seen; after the list is read, with its
\* items, what was due up to the end of the page; and all of it when the total
\* says that no page follows.
WalkLoadFit(w, t, f, r) ==
    LET n == Cardinality(MatchesIn(t, f)) IN
    /\ r.offset > 0 => n > r.offset
    /\ r.step = 1 => FirstIn(w, t, f, r.offset, w.seen)
    /\ r.step # 1 =>
         /\ FirstIn(w, t, f, r.offset + Limit, w.seen \cup r.items)
         /\ r.offset > 0 => r.items # {}
    /\ r.step = 3 =>
         /\ r.total <= n
         /\ r.total <= r.offset + Limit => w.due \subseteq w.seen \cup r.items

\* The same once the answer is drawn, at offset o and with the given total.
WalkShownFit(w, t, f, o, total) ==
    LET n == Cardinality(MatchesIn(t, f)) IN
    /\ o > 0 => n > o
    /\ FirstIn(w, t, f, o + Limit, w.seen)
    /\ total <= n
    /\ total <= o + Limit => w.due \subseteq w.seen

\* A walk waits for one answer at a time, and between two answers the page and
\* the pager are those of the offset.
WalkFit ==
    walk # None =>
        /\ walk.due \subseteq MatchesIn(incident, filter)
        /\ \A l \in InFlight : l = newest /\ WalkLoadFit(walk, incident, filter, load[l])
        /\ PageShown =>
             /\ InFlight = {}
             /\ shown.offset = offset
             /\ offset > 0 => shown.items # {}
             /\ pager # None
             /\ pager.offset = offset
             /\ WalkShownFit(walk, incident, filter, offset, pager.total)
        /\ InFlight = {} => PageShown \/ view # "list"
        /\ InFlight # {} \/ PageShown => view = "list"

Inv ==
    /\ TypeOK
    /\ LoadingAwaited
    /\ NewestFit
    /\ ShownFit
    /\ DashboardFit
    /\ TotalFit
    /\ PageWithinTotal
    /\ WalkFit

----------------------------------------------------------------------------
(* Facts about one state                                                   *)

LEMMA NotNone ==
    /\ None \notin Loads
    /\ None \notin Row
    /\ None \notin Load
    /\ None \notin Answer
    /\ None \notin Pagination
  BY Zenon, NoneAssumption

LEMMA CountsFact == Cardinality(Incidents) \in Nat /\ Counts \subseteq Nat
  BY FS_CardinalityType DEF Counts

LEMMA OffsetsFact ==
    /\ 0 \in Offsets
    /\ Offsets \subseteq Nat
    /\ \A o \in Offsets : o > Limit => o - Limit \in Offsets
    /\ \A o \in Offsets : o + Limit <= MaxOffset => o + Limit \in Offsets
<1> DEFINE c == Cardinality(Incidents)
<1>1. c \in Nat /\ Limit \in Nat /\ Limit > 0
  BY CountsFact
<1>2. \A n \in Nat : n * Limit \in Nat /\ (n + 1) * Limit = n * Limit + Limit
  BY <1>1
<1>3. 0 * Limit = 0
  BY <1>1
<1>4. ASSUME NEW o \in Offsets PROVE o \in Nat /\ (o > Limit => o - Limit \in Offsets)
  <2>1. PICK n \in 0..c : o = n * Limit
    BY DEF Offsets, Counts
  <2>2. o \in Nat
    BY <1>1, <1>2, <2>1
  <2>3. ASSUME o > Limit PROVE o - Limit \in Offsets
    <3>1. n # 0
      BY <1>1, <1>3, <2>1, <2>3
    <3>2. n - 1 \in Nat /\ n - 1 \in 0..c
      BY <1>1, <3>1
    <3>3. ((n - 1) + 1) * Limit = (n - 1) * Limit + Limit
      BY <1>2, <3>2
    <3>4. (n - 1) + 1 = n /\ (n - 1) * Limit \in Nat
      BY <1>2, <3>2
    <3>5. o - Limit = (n - 1) * Limit
      BY <1>1, <2>1, <3>3, <3>4
    <3> QED
      BY <3>2, <3>5 DEF Offsets, Counts
  <2> QED
    BY <2>2, <2>3
<1>5. ASSUME NEW o \in Offsets, o + Limit <= Limit * c PROVE o + Limit \in Offsets
  <2>1. PICK n \in 0..c : o = n * Limit
    BY DEF Offsets, Counts
  <2>2. (n + 1) * Limit = o + Limit
    BY <1>1, <1>2, <2>1
  <2>3. n # c
    <3> SUFFICES ASSUME n = c PROVE FALSE
      OBVIOUS
    <3>1. c * Limit = Limit * c /\ c * Limit \in Nat
      BY <1>1
    <3> QED
      BY <1>1, <1>5, <2>1, <3>1
  <2>4. n + 1 \in 0..c
    BY <1>1, <2>3
  <2> QED
    BY <2>2, <2>4 DEF Offsets, Counts
<1>6. 0 \in Offsets
  BY <1>1, <1>3 DEF Offsets, Counts
<1> QED
  BY <1>4, <1>5, <1>6 DEF MaxOffset

LEMMA MatchesFact ==
    ASSUME NEW t \in Table, NEW f
    PROVE  /\ Sortable(t, MatchesIn(t, f))
           /\ MatchesIn(t, f) \in SUBSET Incidents
           /\ Cardinality(MatchesIn(t, f)) \in Counts
           /\ Cardinality(MatchesIn(t, f)) \in Nat
<1> DEFINE M == MatchesIn(t, f)
<1>1. M \in SUBSET Incidents
  BY DEF MatchesIn
<1>2. IsFiniteSet(M) /\ Cardinality(M) <= Cardinality(Incidents)
  BY <1>1, FS_Subset
<1>3. Cardinality(M) \in Nat
  BY <1>2, FS_CardinalityType
<1>4. Cardinality(M) \in Counts
  BY <1>2, <1>3, CountsFact DEF Counts
<1>5. \A i \in M : t[i].started \in Nat
  <2> SUFFICES ASSUME NEW i \in M PROVE t[i].started \in Nat
    OBVIOUS
  <2>1. t[i] \in Row
    BY DEF Table, MatchesIn, IsMatch
  <2>2. t[i].started \in Starts
    BY <2>1 DEF Row
  <2> QED
    BY <2>2
<1> QED
  BY <1>1, <1>2, <1>3, <1>4, <1>5 DEF Sortable

LEMMA MatchesAll ==
    ASSUME NEW t \in Table
    PROVE  MatchesIn(t, AllOption) = {i \in Incidents : t[i] # None}
<1>1. StatusesForFilter(AllOption) = Statuses
  BY DEF StatusesForFilter
<1>2. ASSUME NEW i \in Incidents, t[i] # None PROVE t[i].status \in Statuses
  BY <1>2 DEF Table, Row
<1> QED
  BY <1>1, <1>2 DEF MatchesIn, IsMatch

\* A list holds the matches from o on, and as many of them as fit.
LEMMA ListFact ==
    ASSUME incident \in Table, NEW f, NEW o \in Nat, NEW n \in Nat
    PROVE  LET items == ListForOrganization(f, o, n)
               M == MatchesIn(incident, f)
           IN  /\ items = Slice(incident, M, o, n)
               /\ items \in SUBSET Incidents
               /\ Cardinality(M) \in Nat
               /\ Cardinality(items) = IF Cardinality(M) <= o THEN 0
                                       ELSE IF Cardinality(M) <= o + n THEN Cardinality(M) - o
                                       ELSE n
<1> DEFINE M == MatchesIn(incident, f)
<1>1. ListForOrganization(f, o, n) = Slice(incident, M, o, n)
  BY DEF ListForOrganization, Matches, MatchesIn, Slice, Rank, Ahead, Earlier, Before
<1>2. Sortable(incident, M) /\ M \in SUBSET Incidents
  BY MatchesFact
<1>3. Slice(incident, M, o, n) \in SUBSET Incidents
  BY <1>2 DEF Slice
<1> HIDE DEF M
<1>4. /\ Cardinality(M) \in Nat
      /\ Cardinality(Slice(incident, M, o, n)) =
           IF Cardinality(M) <= o THEN 0
           ELSE IF Cardinality(M) <= o + n THEN Cardinality(M) - o ELSE n
  BY <1>2, SliceSize
<1> QED
  BY <1>1, <1>3, <1>4 DEF M

LEMMA CountFact ==
    ASSUME incident \in Table, NEW f
    PROVE  CountForOrganization(f) = Cardinality(MatchesIn(incident, f))
  BY DEF CountForOrganization, Matches, MatchesIn

\* The incidents that match f in t match it in u, and keep their times.
Growing(t, u, f) ==
    /\ MatchesIn(t, f) \subseteq MatchesIn(u, f)
    /\ \A i \in MatchesIn(t, f) : u[i].started = t[i].started

LEMMA GrowingFact ==
    ASSUME NEW t \in Table, NEW u \in Table, NEW f, Growing(t, u, f)
    PROVE  /\ Cardinality(MatchesIn(t, f)) <= Cardinality(MatchesIn(u, f))
           /\ \A i \in MatchesIn(t, f) :
                /\ Rank(t, MatchesIn(t, f), i) \in Nat
                /\ Rank(u, MatchesIn(u, f), i) \in Nat
                /\ Rank(t, MatchesIn(t, f), i) <= Rank(u, MatchesIn(u, f), i)
<1> DEFINE M == MatchesIn(t, f)
           N == MatchesIn(u, f)
<1>1. Sortable(t, M) /\ Sortable(u, N) /\ M \subseteq N
      /\ Cardinality(M) \in Nat /\ Cardinality(N) \in Nat
  BY MatchesFact DEF Growing
<1>2. \A i \in M : u[i].started = t[i].started
  BY DEF Growing
<1> HIDE DEF M, N
<1>3. Cardinality(M) <= Cardinality(N)
  BY <1>1, FS_Subset DEF Sortable
<1>4. \A i \in M : Rank(t, M, i) \in 0..(Cardinality(M) - 1)
  BY <1>1, RankBelow
<1>5. \A i \in N : Rank(u, N, i) \in 0..(Cardinality(N) - 1)
  BY <1>1, RankBelow
<1>6. \A i \in M : Rank(t, M, i) <= Rank(u, N, i)
  BY <1>1, <1>2, RankGrows
<1>7. \A i \in M : Rank(t, M, i) \in Nat /\ Rank(u, N, i) \in Nat
  BY <1>1, <1>4, <1>5
<1> QED
  BY <1>3, <1>6, <1>7 DEF M, N

----------------------------------------------------------------------------
(* Type correctness                                                        *)

Pages == {None, Loading, Failed} \cup Answer
Walks == {None} \cup [due : SUBSET Incidents, seen : SUBSET Incidents]
Summaries == [step : 1..4, open : Counts, total : Counts, recent : SUBSET Incidents]

\* What the other lemmas use of TypeOK.
LEMMA Types ==
    ASSUME TypeOK
    PROVE  /\ incident \in Table
           /\ offset \in Offsets
           /\ filter \in Filters
           /\ load \in [Loads -> Load \cup {None}]
           /\ shown \in Pages
           /\ pager \in Pagination \cup {None}
           /\ dashboard \in {None} \cup Summaries
           /\ newest \in InFlight \cup {None}
           /\ walk \in Walks
  BY DEF TypeOK, Table, Pages, Summaries, Walks

LEMMA SentFact ==
    ASSUME NEW f \in Filters, NEW o \in Offsets
    PROVE  /\ Sent(f, o) \in Load
           /\ Sent(f, o).step = 1
           /\ Sent(f, o).filter = f
           /\ Sent(f, o).offset = o
           /\ Sent(f, o).items = {}
<1>1. 0 \in Counts
  BY CountsFact DEF Counts
<1> QED
  BY <1>1 DEF Sent, Load

LEMMA SendFact ==
    ASSUME load \in [Loads -> Load \cup {None}],
           NEW l \in Loads, NEW f \in Filters, NEW o \in Offsets, SendLoad(l, f, o)
    PROVE  /\ load' \in [Loads -> Load \cup {None}]
           /\ load'[l] = Sent(f, o)
           /\ \A k \in Loads : k # l => load'[k] = load[k]
           /\ l \notin InFlight
           /\ InFlight' = InFlight \cup {l}
           /\ newest' = l
           /\ shown' = Loading
<1>1. load[l] = None /\ load' = [load EXCEPT ![l] = Sent(f, o)] /\ newest' = l /\ shown' = Loading
  BY DEF SendLoad
<1>2. Sent(f, o) \in Load /\ Sent(f, o) # None
  BY SentFact, NotNone
<1>3. load'[l] = Sent(f, o) /\ \A k \in Loads : k # l => load'[k] = load[k]
  BY <1>1
<1>4. load' \in [Loads -> Load \cup {None}]
  BY <1>1, <1>2
<1> QED
  BY <1>1, <1>2, <1>3, <1>4 DEF InFlight

LEMMA SettleFact ==
    ASSUME load \in [Loads -> Load \cup {None}], newest \in InFlight \cup {None},
           NEW l \in Loads, Settle(l)
    PROVE  /\ load' \in [Loads -> Load \cup {None}]
           /\ load[l] \in Load
           /\ \A k \in Loads : k # l => load'[k] = load[k]
           /\ l \in InFlight
           /\ InFlight' = InFlight \ {l}
           /\ newest' = IF newest = l THEN None ELSE newest
           /\ newest' \in InFlight' \cup {None}
<1>1. load[l] # None /\ load' = [load EXCEPT ![l] = None]
      /\ newest' = IF newest = l THEN None ELSE newest
  BY DEF Settle
<1>2. load'[l] = None /\ \A k \in Loads : k # l => load'[k] = load[k]
  BY <1>1
<1>3. load' \in [Loads -> Load \cup {None}]
  BY <1>1
<1>4. l \in InFlight /\ InFlight' = InFlight \ {l}
  BY <1>1, <1>2 DEF InFlight
<1> QED
  BY <1>1, <1>2, <1>3, <1>4

WithItems(r, S) == [r EXCEPT !.step = r.step + 1, !.items = S]
WithTotal(r, c) == [r EXCEPT !.step = r.step + 1, !.total = c]

LEMMA WithItemsFact ==
    ASSUME NEW r \in Load, r.step \in 1..2, NEW S \in SUBSET Incidents
    PROVE  LET a == WithItems(r, S) IN
           /\ a \in Load
           /\ a.step = r.step + 1 /\ a.items = S /\ a.filter = r.filter /\ a.offset = r.offset
<1> DEFINE n == r.step + 1
<1>1. n \in 1..3
  OBVIOUS
<1> HIDE DEF n
<1> QED
  BY <1>1 DEF Load, WithItems, n

LEMMA WithTotalFact ==
    ASSUME NEW r \in Load, r.step \in 1..2, NEW c \in Counts
    PROVE  LET b == WithTotal(r, c) IN
           /\ b \in Load
           /\ b.step = r.step + 1 /\ b.total = c /\ b.items = r.items
           /\ b.filter = r.filter /\ b.offset = r.offset
<1> DEFINE n == r.step + 1
<1>1. n \in 1..3
  OBVIOUS
<1> HIDE DEF n
<1> QED
  BY <1>1 DEF Load, WithTotal, n

WithOpen(d, c) == [[d EXCEPT !.open = c] EXCEPT !.step = d.step + 1]
WithAll(d, c) == [[d EXCEPT !.total = c] EXCEPT !.step = d.step + 1]
WithRecent(d, S) == [[d EXCEPT !.recent = S] EXCEPT !.step = d.step + 1]

LEMMA WithOpenFact ==
    ASSUME NEW d \in Summaries, d.step \in 1..3, NEW c \in Counts
    PROVE  LET e == WithOpen(d, c) IN
           /\ e \in Summaries /\ e.step = d.step + 1
           /\ e.open = c /\ e.total = d.total
<1> DEFINE n == d.step + 1
<1>1. n \in 1..4
  OBVIOUS
<1> HIDE DEF n
<1> QED
  BY <1>1 DEF Summaries, WithOpen, n

LEMMA WithAllFact ==
    ASSUME NEW d \in Summaries, d.step \in 1..3, NEW c \in Counts
    PROVE  LET e == WithAll(d, c) IN
           /\ e \in Summaries /\ e.step = d.step + 1
           /\ e.open = d.open /\ e.total = c
<1> DEFINE n == d.step + 1
<1>1. n \in 1..4
  OBVIOUS
<1> HIDE DEF n
<1> QED
  BY <1>1 DEF Summaries, WithAll, n

LEMMA WithRecentFact ==
    ASSUME NEW d \in Summaries, d.step \in 1..3, NEW S \in SUBSET Incidents
    PROVE  LET e == WithRecent(d, S) IN
           /\ e \in Summaries /\ e.step = d.step + 1
           /\ e.open = d.open /\ e.total = d.total /\ e.recent = S
<1> DEFINE n == d.step + 1
<1>1. n \in 1..4
  OBVIOUS
<1> HIDE DEF n
<1> QED
  BY <1>1 DEF Summaries, WithRecent, n

\* A statement fills in one part of a load.
Filled(r, s) ==
    /\ s \in Load
    /\ s.step = r.step + 1
    /\ s.filter = r.filter
    /\ s.offset = r.offset
    /\ r.step = 1 => s.items = Slice(incident, MatchesIn(incident, r.filter), r.offset, Limit)
    /\ r.step = 2 => /\ s.items = r.items
                     /\ s.total = Cardinality(MatchesIn(incident, r.filter))

LEMMA ListIncidentsFact ==
    ASSUME incident \in Table, load \in [Loads -> Load \cup {None}],
           NEW l \in Loads, ListIncidents(l)
    PROVE  /\ load' \in [Loads -> Load \cup {None}]
           /\ load[l] \in Load
           /\ load[l].step \in 1..2
           /\ Filled(load[l], load'[l])
           /\ \A k \in Loads : k # l => load'[k] = load[k]
           /\ l \in InFlight
           /\ InFlight' = InFlight
<1> DEFINE r == load[l]
           a == WithItems(r, ListForOrganization(r.filter, r.offset, Limit))
           b == WithTotal(r, CountForOrganization(r.filter))
<1>1. r \in Load /\ r.step \in 1..2 /\ r.offset \in Nat
  <2>1. r \in Load /\ r.step \in 1..2
    BY DEF ListIncidents
  <2> QED
    BY <2>1, OffsetsFact DEF Load
<1>2. load' = [load EXCEPT ![l] = IF Statements[r.step] = "list" THEN a ELSE b]
  BY DEF ListIncidents, WithItems, WithTotal
<1>3. Statements[1] = "list" /\ Statements[2] # "list"
  BY DEF Statements
<1>4. CASE r.step = 1
  <2>1. load' = [load EXCEPT ![l] = a]
    BY <1>2, <1>3, <1>4
  <2>2. /\ ListForOrganization(r.filter, r.offset, Limit) =
             Slice(incident, MatchesIn(incident, r.filter), r.offset, Limit)
        /\ ListForOrganization(r.filter, r.offset, Limit) \in SUBSET Incidents
    BY <1>1, ListFact
  <2>3. a \in Load /\ Filled(r, a)
    <3> DEFINE items == ListForOrganization(r.filter, r.offset, Limit)
    <3>1. items \in SUBSET Incidents
      BY <2>2
    <3>2. items = Slice(incident, MatchesIn(incident, r.filter), r.offset, Limit)
      BY <2>2
    <3> HIDE DEF items
    <3>3. a \in Load /\ a.step = r.step + 1 /\ a.items = items
          /\ a.filter = r.filter /\ a.offset = r.offset
      BY <1>1, <1>4, <3>1, WithItemsFact DEF items
    <3> HIDE DEF a
    <3> QED
      BY <1>4, <3>2, <3>3 DEF Filled
  <2>4. load'[l] = a /\ \A k \in Loads : k # l => load'[k] = load[k]
    BY <2>1
  <2>5. a # None
    BY <2>3, NotNone
  <2> HIDE DEF a
  <2> QED
    BY <1>1, <2>1, <2>3, <2>4, <2>5, NotNone DEF InFlight
<1>5. CASE r.step = 2
  <2>1. load' = [load EXCEPT ![l] = b]
    BY <1>2, <1>3, <1>5
  <2>2. /\ CountForOrganization(r.filter) = Cardinality(MatchesIn(incident, r.filter))
        /\ CountForOrganization(r.filter) \in Counts
    BY CountFact, MatchesFact
  <2>3. b \in Load /\ Filled(r, b)
    <3> DEFINE total == CountForOrganization(r.filter)
    <3>1. total \in Counts /\ total = Cardinality(MatchesIn(incident, r.filter))
      BY <2>2
    <3> HIDE DEF total
    <3>2. b \in Load /\ b.step = r.step + 1 /\ b.items = r.items /\ b.total = total
          /\ b.filter = r.filter /\ b.offset = r.offset
      BY <1>1, <1>5, <3>1, WithTotalFact DEF total
    <3> HIDE DEF b
    <3> QED
      BY <1>5, <3>1, <3>2 DEF Filled
  <2>4. load'[l] = b /\ \A k \in Loads : k # l => load'[k] = load[k]
    BY <2>1
  <2>5. b # None
    BY <2>3, NotNone
  <2> HIDE DEF b
  <2> QED
    BY <1>1, <2>1, <2>3, <2>4, <2>5, NotNone DEF InFlight
<1> QED
  BY <1>1, <1>4, <1>5

\* A dashboard statement likewise.
Summed(d, e) ==
    /\ e \in Summaries
    /\ e.step = d.step + 1
    /\ d.step = 1 => e.open = Cardinality(MatchesIn(incident, "OPEN_ONLY"))
    /\ d.step # 1 => e.open = d.open
    /\ d.step = 2 => e.total = All
    /\ d.step # 2 => e.total = d.total
    /\ d.step = 3 => e.recent = Slice(incident, MatchesIn(incident, AllOption), 0, Recent)

LEMMA SummaryFact ==
    ASSUME incident \in Table, dashboard \in {None} \cup Summaries, DashboardSummary
    PROVE  /\ dashboard \in Summaries
           /\ dashboard.step \in 1..3
           /\ Summed(dashboard, dashboard')
<1> DEFINE d == dashboard
           open == CountForOrganization("OPEN_ONLY")
           total == CountForOrganization(AllOption)
           recent == ListForOrganization(AllOption, 0, Recent)
<1>1. d \in Summaries /\ d.step \in 1..3
  BY DEF DashboardSummary
<1>2. dashboard' = [Summary(d) EXCEPT !.step = d.step + 1]
  BY DEF DashboardSummary
<1>3. /\ open = Cardinality(MatchesIn(incident, "OPEN_ONLY")) /\ open \in Counts
      /\ total = All /\ total \in Counts
      /\ recent = Slice(incident, MatchesIn(incident, AllOption), 0, Recent)
      /\ recent \in SUBSET Incidents
  BY CountFact, MatchesFact, ListFact DEF All
<1>4. /\ d.step = 1 => Summary(d) = [d EXCEPT !.open = open]
      /\ d.step = 2 => Summary(d) = [d EXCEPT !.total = total]
      /\ d.step = 3 => Summary(d) = [d EXCEPT !.recent = recent]
  BY <1>1 DEF Summary
<1> HIDE DEF open, total, recent, d
<1>5. CASE d.step = 1
  <2> DEFINE e == WithOpen(d, open)
  <2>1. e \in Summaries /\ e.step = d.step + 1 /\ e.open = open /\ e.total = d.total
    BY <1>1, <1>3, WithOpenFact
  <2>2. dashboard' = e
    BY <1>2, <1>4, <1>5 DEF WithOpen
  <2> HIDE DEF e
  <2> QED
    BY <1>1, <1>3, <1>5, <2>1, <2>2 DEF Summed, d
<1>6. CASE d.step = 2
  <2> DEFINE e == WithAll(d, total)
  <2>1. e \in Summaries /\ e.step = d.step + 1 /\ e.open = d.open /\ e.total = total
    BY <1>1, <1>3, WithAllFact
  <2>2. dashboard' = e
    BY <1>2, <1>4, <1>6 DEF WithAll
  <2> HIDE DEF e
  <2> QED
    BY <1>1, <1>3, <1>6, <2>1, <2>2 DEF Summed, d
<1>7. CASE d.step = 3
  <2> DEFINE e == WithRecent(d, recent)
  <2>1. e \in Summaries /\ e.step = d.step + 1 /\ e.open = d.open /\ e.total = d.total
        /\ e.recent = recent
    BY <1>1, <1>3, WithRecentFact
  <2>2. dashboard' = e
    BY <1>2, <1>4, <1>7 DEF WithRecent
  <2> HIDE DEF e
  <2> QED
    BY <1>1, <1>3, <1>7, <2>1, <2>2 DEF Summed, d
<1> QED
  BY <1>1, <1>5, <1>6, <1>7 DEF d

LEMMA CreateFact ==
    ASSUME incident \in Table, NEW i \in Incidents, NEW t \in Starts, CreateIncident(i, t)
    PROVE  /\ incident' \in Table
           /\ \A f : Growing(incident, incident', f)
<1> DEFINE row == [started |-> t, status |-> "OPEN"]
<1>1. incident[i] = None /\ incident' = [incident EXCEPT ![i] = row]
  BY DEF CreateIncident
<1>2. row \in Row
  BY StatusesAssumption DEF Row
<1> HIDE DEF row
<1>3. incident' \in Table
  BY <1>1, <1>2 DEF Table
<1>4. incident'[i] = row /\ \A j \in Incidents : j # i => incident'[j] = incident[j]
  BY <1>1 DEF Table
<1>5. \A f : i \notin MatchesIn(incident, f)
  BY <1>1 DEF MatchesIn, IsMatch
<1> QED
  BY <1>3, <1>4, <1>5 DEF Growing, MatchesIn

LEMMA UpdateFact ==
    ASSUME incident \in Table, NEW i \in Incidents, NEW row \in Row, UpdateIncident(i, row)
    PROVE  /\ incident' \in Table
           /\ All <= Cardinality(MatchesIn(incident', AllOption))
           /\ \/ walk' = None
              \/ walk' = walk /\ Growing(incident, incident', filter)
<1>1. incident[i] # None /\ incident' = [incident EXCEPT ![i] = row]
  BY DEF UpdateIncident
<1>2. incident' \in Table
  BY <1>1 DEF Table
<1>3. incident'[i] = row /\ \A j \in Incidents : j # i => incident'[j] = incident[j]
  BY <1>1 DEF Table
<1>4. All <= Cardinality(MatchesIn(incident', AllOption))
  <2> DEFINE M == MatchesIn(incident, AllOption)
             N == MatchesIn(incident', AllOption)
  <2>1. row # None
    BY NotNone
  <2>2. M = {j \in Incidents : incident[j] # None} /\ N = {j \in Incidents : incident'[j] # None}
    BY <1>2, MatchesAll
  <2>3. M \subseteq N
    <3> HIDE DEF M, N
    <3> QED
      BY <1>1, <1>3, <2>1, <2>2
  <2>4. IsFiniteSet(N)
    BY <1>2, MatchesFact DEF Sortable
  <2> HIDE DEF M, N
  <2>5. Cardinality(M) <= Cardinality(N)
    BY <2>3, <2>4, FS_Subset
  <2> QED
    BY <2>5 DEF M, N, All
<1> DEFINE gone == /\ IsMatch(incident[i], filter)
                   /\ IsMatch(row, filter) => row.started # incident[i].started
<1>5. walk' = IF gone THEN None ELSE walk
  BY DEF UpdateIncident
<1>6. ~gone => Growing(incident, incident', filter)
  BY <1>3 DEF Growing, MatchesIn
<1> HIDE DEF gone
<1> QED
  BY <1>2, <1>4, <1>5, <1>6

\* A click sends a load for an offset the page can be at.
LEMMA ClickFact ==
    ASSUME TypeOK, NEW l \in Loads, Click(l)
    PROVE  /\ view = "list"
           /\ offset' \in Offsets
           /\ filter' \in Filters
           /\ SendLoad(l, filter', offset')
           /\ UNCHANGED <<incident, view, pager, dashboard, overtaken>>
           /\ \/ /\ filter' = filter
                 /\ walk' = Patient(walk)
                 /\ \/ offset' <= offset
                    \/ /\ offset' = offset + Limit
                       /\ pager # None => pager.offset + Limit < pager.total
              \/ /\ offset' = 0
                 /\ walk' = Patient([due |-> Matches(filter'), seen |-> {}])
<1>1. offset \in Offsets /\ offset \in Nat /\ filter \in Filters
  BY Types, OffsetsFact
<1>2. CASE PreviousPage(l)
  <2>1. PreviousOffset \in Offsets /\ PreviousOffset <= offset
    BY <1>1, OffsetsFact DEF PreviousOffset
  <2>2. offset' = PreviousOffset /\ view = "list"
    BY <1>2 DEF PreviousPage, PreviousEnabled
  <2>3. SendLoad(l, filter, offset') /\ walk' = Patient(walk)
        /\ UNCHANGED <<incident, view, filter, pager, dashboard, overtaken>>
    BY <1>2 DEF PreviousPage
  <2> QED
    BY <1>1, <2>1, <2>2, <2>3
<1>3. CASE NextPage(l)
  <2>1. /\ view = "list"
        /\ pager # None => pager.offset + Limit < pager.total
        /\ NextOffset <= MaxOffset
        /\ offset' = NextOffset
    BY <1>3 DEF NextPage, NextEnabled
  <2>2. offset' \in Offsets /\ offset' = offset + Limit
    BY <1>1, <2>1, OffsetsFact DEF NextOffset
  <2>3. SendLoad(l, filter, offset') /\ walk' = Patient(walk)
        /\ UNCHANGED <<incident, view, filter, pager, dashboard, overtaken>>
    BY <1>3 DEF NextPage
  <2> QED
    BY <1>1, <2>1, <2>2, <2>3
<1>4. ASSUME NEW f \in Filters, ChangeFilter(l, f)
      PROVE  /\ view = "list" /\ filter' = f /\ offset' = 0 /\ SendLoad(l, f, 0)
             /\ walk' = Patient([due |-> Matches(f), seen |-> {}])
             /\ UNCHANGED <<incident, view, pager, dashboard, overtaken>>
  BY <1>4 DEF ChangeFilter, LoadFilter
<1>5. CASE \E f \in Filters : ChangeFilter(l, f)
  <2>1. PICK f \in Filters : ChangeFilter(l, f)
    BY <1>5
  <2>2. Matches(filter') = Matches(f) /\ filter' \in Filters
    BY <1>4, <2>1 DEF Matches
  <2> QED
    BY <1>4, <2>1, <2>2, OffsetsFact
<1> QED
  BY <1>2, <1>3, <1>5 DEF Click

\* Nothing but a load and the history of the loads moves with an answer.
LEMMA RenderFact ==
    ASSUME TypeOK, NEW l \in Loads, Render(l)
    PROVE  /\ Settle(l)
           /\ load[l] \in Load
           /\ load[l].step = 3
           /\ shown' = Page(load[l])
           /\ shown' \in Answer
           /\ pager' = [total |-> load[l].total, offset |-> load[l].offset]
           /\ pager' \in Pagination
           /\ walk' = IF walk = None THEN None
                      ELSE [due |-> walk.due, seen |-> walk.seen \cup load[l].items]
           /\ UNCHANGED <<incident, view, offset, filter, dashboard>>
<1>1. Settle(l) /\ load[l].step = 3 /\ shown' = Page(load[l])
      /\ pager' = [total |-> load[l].total, offset |-> load[l].offset]
      /\ UNCHANGED <<incident, view, offset, filter, dashboard>>
  BY DEF Render
<1>2. load[l] \in Load
  BY <1>1, Types DEF Settle
<1>3. Page(load[l]) \in Answer
  BY <1>2 DEF Page, Answer, Load
<1>4. [total |-> load[l].total, offset |-> load[l].offset] \in Pagination
  BY <1>2 DEF Pagination, Load
<1>5. ASSUME walk # None
      PROVE  walk' = [due |-> walk.due, seen |-> walk.seen \cup load[l].items]
  <2>1. walk \in [due : SUBSET Incidents, seen : SUBSET Incidents]
    BY <1>5, Types DEF Walks
  <2>2. walk' = [walk EXCEPT !.seen = walk.seen \cup load[l].items]
    BY <1>5 DEF Render
  <2> QED
    BY <2>1, <2>2
<1>6. walk = None => walk' = None
  BY DEF Render
<1> QED
  BY <1>1, <1>2, <1>3, <1>4, <1>5, <1>6

LEMMA InitType == Init => TypeOK
<1> SUFFICES ASSUME Init PROVE TypeOK
  OBVIOUS
<1>1. /\ incident = [i \in Incidents |-> None]
      /\ offset = 0 /\ filter = "OPEN_ONLY" /\ view \in {"list", "dashboard"}
      /\ newest \in (IF view = "list" THEN Loads ELSE {None})
      /\ load = [l \in Loads |-> IF l = newest THEN Sent(filter, 0) ELSE None]
      /\ shown = (IF view = "list" THEN Loading ELSE None)
      /\ pager = None
      /\ dashboard = (IF view = "dashboard" THEN NewSummary ELSE None)
      /\ walk = [due |-> {}, seen |-> {}]
  BY DEF Init
<1>2. offset \in Offsets /\ filter \in Filters
  BY <1>1, OffsetsFact, FiltersAssumption
<1>3. Sent(filter, 0) \in Load /\ Sent(filter, 0) # None
  BY <1>1, <1>2, SentFact, NotNone
<1>4. load \in [Loads -> Load \cup {None}] /\ newest \in InFlight \cup {None}
  BY <1>1, <1>3 DEF InFlight
<1>5. NewSummary \in Summaries
  BY CountsFact DEF NewSummary, Summaries, Counts
<1>6. overtaken \in BOOLEAN
  BY Zenon DEF Init
<1>7. walk \in Walks
  BY <1>1 DEF Walks
<1> QED
  BY <1>1, <1>2, <1>4, <1>5, <1>6, <1>7 DEF TypeOK, Summaries, Walks

LEMMA NextType == TypeOK /\ [Next]_vars => TypeOK'
<1> SUFFICES ASSUME TypeOK, [Next]_vars PROVE TypeOK'
  OBVIOUS
<1>0. /\ incident \in Table /\ offset \in Offsets /\ filter \in Filters
      /\ load \in [Loads -> Load \cup {None}] /\ shown \in Pages
      /\ pager \in Pagination \cup {None} /\ dashboard \in {None} \cup Summaries
      /\ newest \in InFlight \cup {None} /\ walk \in Walks
      /\ view \in {"list", "dashboard"} /\ overtaken \in BOOLEAN
  BY Types DEF TypeOK
<1> DEFINE Rest == /\ incident' \in Table /\ offset' \in Offsets /\ filter' \in Filters
                   /\ load' \in [Loads -> Load \cup {None}] /\ shown' \in Pages
                   /\ pager' \in Pagination \cup {None} /\ dashboard' \in {None} \cup Summaries
                   /\ newest' \in InFlight' \cup {None} /\ walk' \in Walks
                   /\ view' \in {"list", "dashboard"} /\ overtaken' \in BOOLEAN
<1>1. ASSUME NEW l \in Loads, Click(l) PROVE Rest
  <2>1. /\ offset' \in Offsets /\ filter' \in Filters /\ SendLoad(l, filter', offset')
        /\ UNCHANGED <<incident, view, pager, dashboard, overtaken>>
    BY <1>1, ClickFact
  <2>2. overtaken' \in BOOLEAN
    BY Zenon, <1>0, <2>1
  <2>3. \/ walk' = Patient(walk)
        \/ walk' = Patient([due |-> Matches(filter'), seen |-> {}])
    BY <1>1, ClickFact
  <2>4. [due |-> Matches(filter'), seen |-> {}] \in Walks
    BY DEF Matches, Walks
  <2>5. walk' \in Walks
    BY <1>0, <2>3, <2>4 DEF Patient, Walks
  <2>6. load' \in [Loads -> Load \cup {None}] /\ newest' \in InFlight' /\ shown' = Loading
    BY <1>0, <2>1, SendFact
  <2> QED
    BY <1>0, <2>1, <2>2, <2>5, <2>6 DEF Pages
<1>2. ASSUME NEW l \in Loads, ListIncidents(l) PROVE Rest
  <2>1. UNCHANGED <<incident, view, offset, filter, shown, pager, dashboard, newest, overtaken, walk>>
    BY <1>2 DEF ListIncidents, history
  <2>2. load' \in [Loads -> Load \cup {None}] /\ InFlight' = InFlight
    BY <1>0, <1>2, ListIncidentsFact
  <2>3. overtaken' \in BOOLEAN
    BY Zenon, <1>0, <2>1
  <2> QED
    BY <1>0, <2>1, <2>2, <2>3
<1>3. ASSUME NEW l \in Loads, Render(l) PROVE Rest
  <2>1. /\ Settle(l) /\ load[l] \in Load /\ shown' \in Pages
        /\ pager' \in Pagination \cup {None}
        /\ UNCHANGED <<incident, view, offset, filter, dashboard>>
    BY <1>3, RenderFact DEF Pages
  <2>2. load' \in [Loads -> Load \cup {None}] /\ newest' \in InFlight' \cup {None}
    BY <1>0, <2>1, SettleFact
  <2>3. overtaken' \in BOOLEAN
    BY Zenon, <1>3 DEF Render
  <2>4. walk' \in Walks
    <3>1. walk' = IF walk = None THEN None
                  ELSE [due |-> walk.due, seen |-> walk.seen \cup load[l].items]
      BY <1>3, RenderFact
    <3>2. load[l].items \in SUBSET Incidents
      BY <2>1 DEF Load
    <3> QED
      BY <1>0, <3>1, <3>2 DEF Walks
  <2> QED
    BY <1>0, <2>1, <2>2, <2>3, <2>4
<1>4. ASSUME NEW l \in Loads, LoadFails(l) PROVE Rest
  <2>1. Settle(l) /\ shown' = Failed /\ walk' = None
        /\ UNCHANGED <<incident, view, offset, filter, pager, dashboard, overtaken>>
    BY <1>4 DEF LoadFails
  <2>2. load' \in [Loads -> Load \cup {None}] /\ newest' \in InFlight' \cup {None}
    BY <1>0, <2>1, SettleFact
  <2>3. overtaken' \in BOOLEAN
    BY Zenon, <1>0, <2>1
  <2> QED
    BY <1>0, <2>1, <2>2, <2>3 DEF Pages, Walks
<1>5. ASSUME DashboardSummary \/ DashboardDone PROVE Rest
  <2>1. UNCHANGED <<incident, view, offset, filter, load, shown, pager, newest, overtaken, walk>>
    BY <1>5 DEF DashboardSummary, DashboardDone, page, history
  <2>2. dashboard' \in {None} \cup Summaries
    <3>1. NewSummary \in Summaries
      BY CountsFact DEF NewSummary, Summaries, Counts
    <3>2. DashboardDone => dashboard' = NewSummary
      BY DEF DashboardDone
    <3>3. DashboardSummary => dashboard' \in Summaries
      BY <1>0, SummaryFact DEF Summed
    <3> QED
      BY <1>5, <3>1, <3>2, <3>3
  <2>3. overtaken' \in BOOLEAN
    BY Zenon, <1>0, <2>1
  <2>4. InFlight' = InFlight
    BY <2>1 DEF InFlight
  <2> QED
    BY <1>0, <2>1, <2>2, <2>3, <2>4
<1>6. ASSUME NEW i \in Incidents, NEW t \in Starts, CreateIncident(i, t) PROVE Rest
  <2>1. UNCHANGED <<view, offset, filter, load, shown, pager, dashboard, newest, overtaken, walk>>
    BY <1>6 DEF CreateIncident, page, history
  <2>2. incident' \in Table
    BY <1>0, <1>6, CreateFact
  <2>3. overtaken' \in BOOLEAN
    BY Zenon, <1>0, <2>1
  <2>4. InFlight' = InFlight
    BY <2>1 DEF InFlight
  <2> QED
    BY <1>0, <2>1, <2>2, <2>3, <2>4
<1>7. ASSUME NEW i \in Incidents, NEW row \in Row, UpdateIncident(i, row) PROVE Rest
  <2>1. UNCHANGED <<view, offset, filter, load, shown, pager, dashboard, newest, overtaken>>
    BY <1>7 DEF UpdateIncident, page
  <2>2. incident' \in Table /\ (walk' = None \/ walk' = walk)
    BY <1>0, <1>7, UpdateFact
  <2>3. overtaken' \in BOOLEAN
    BY Zenon, <1>0, <2>1
  <2>4. InFlight' = InFlight
    BY <2>1 DEF InFlight
  <2> QED
    BY <1>0, <2>1, <2>2, <2>3, <2>4 DEF Walks
<1>8. ASSUME UNCHANGED vars PROVE Rest
  <2>1. UNCHANGED <<incident, view, offset, filter, load, shown, pager, dashboard, newest,
                    overtaken, walk>>
    BY <1>8 DEF vars, page, history
  <2>2. overtaken' \in BOOLEAN
    BY Zenon, <1>0, <2>1
  <2>3. InFlight' = InFlight
    BY <2>1 DEF InFlight
  <2> QED
    BY <1>0, <2>1, <2>2, <2>3
<1>9. Rest
  <2> HIDE DEF Rest
  <2>1. Next => Rest
    BY <1>1, <1>2, <1>3, <1>4, <1>5, <1>6, <1>7 DEF Next
  <2> QED
    BY <1>8, <2>1
<1> QED
  BY <1>9 DEF TypeOK, Table, Pages, Summaries, Walks

----------------------------------------------------------------------------
(* The list page                                                           *)

PageFit == LoadingAwaited /\ NewestFit /\ ShownFit

LEMMA LoadingNotNone == Loading # None
  BY Zenon, NoneAssumption

LEMMA NotPages == Loading.kind # "page" /\ Failed.kind # "page" /\ Failed # Loading
<1>1. Loading.kind = "loading" /\ Failed.kind = "failed"
  BY DEF Loading, Failed
<1> QED
  BY <1>1

LEMMA InitPageFit == Init => PageFit
<1> SUFFICES ASSUME Init PROVE PageFit
  OBVIOUS
<1>1. /\ offset = 0 /\ filter = "OPEN_ONLY" /\ view \in {"list", "dashboard"}
      /\ newest \in (IF view = "list" THEN Loads ELSE {None})
      /\ load = [l \in Loads |-> IF l = newest THEN Sent(filter, 0) ELSE None]
      /\ shown = (IF view = "list" THEN Loading ELSE None)
  BY DEF Init
<1>2. filter \in Filters /\ offset \in Offsets
  BY <1>1, FiltersAssumption, OffsetsFact
<1>3. Sent(filter, 0).filter = filter /\ Sent(filter, 0).offset = 0 /\ Sent(filter, 0) # None
  BY <1>1, <1>2, SentFact, NotNone
<1>4. newest # None => newest \in Loads /\ load[newest] = Sent(filter, 0)
  BY <1>1
<1>5. ~PageShown
  BY <1>1, NotPages DEF PageShown
<1>6. shown = Loading => InFlight # {}
  <2>1. CASE view = "list"
    BY <1>1, <1>3, <2>1 DEF InFlight
  <2>2. CASE view # "list"
    <3>1. shown = None
      BY <1>1, <2>2
    <3>2. Loading # None
      BY LoadingNotNone
    <3> QED
      BY <3>1, <3>2
  <2> QED
    BY <2>1, <2>2
<1> QED
  BY <1>1, <1>3, <1>4, <1>5, <1>6 DEF PageFit, NewestFit, ShownFit, LoadingAwaited

LEMMA NextPageFit == TypeOK /\ PageFit /\ [Next]_vars => PageFit'
<1> SUFFICES ASSUME TypeOK, PageFit, [Next]_vars PROVE PageFit'
  OBVIOUS
<1>0. /\ load \in [Loads -> Load \cup {None}] /\ newest \in InFlight \cup {None}
      /\ incident \in Table /\ None \notin Loads /\ InFlight \subseteq Loads
  BY Types, NotNone DEF InFlight
<1>1. ASSUME NEW l \in Loads, Click(l) PROVE PageFit'
  <2>1. offset' \in Offsets /\ filter' \in Filters /\ SendLoad(l, filter', offset')
    BY <1>1, ClickFact
  <2>2. load'[l] = Sent(filter', offset') /\ newest' = l /\ shown' = Loading /\ l \in InFlight'
    BY <1>0, <2>1, SendFact
  <2>3. Sent(filter', offset').filter = filter' /\ Sent(filter', offset').offset = offset'
    BY <2>1, SentFact
  <2> QED
    BY <1>0, <2>2, <2>3, NotPages DEF PageFit, LoadingAwaited, NewestFit, ShownFit, PageShown
<1>2. ASSUME NEW l \in Loads, ListIncidents(l) PROVE PageFit'
  <2>1. UNCHANGED <<offset, filter, shown, newest, overtaken>>
    BY <1>2 DEF ListIncidents, history
  <2>2. /\ InFlight' = InFlight
        /\ load'[l].filter = load[l].filter /\ load'[l].offset = load[l].offset
        /\ \A k \in Loads : k # l => load'[k] = load[k]
    BY <1>0, <1>2, ListIncidentsFact DEF Filled
  <2>3. ~overtaken' => ~overtaken
    BY Zenon, <2>1
  <2>4. NewestFit'
    BY <1>0, <2>1, <2>2 DEF PageFit, NewestFit
  <2> QED
    BY <2>1, <2>2, <2>3, <2>4 DEF PageFit, LoadingAwaited, ShownFit, PageShown
<1>3. ASSUME NEW l \in Loads, Render(l) PROVE PageFit'
  <2>1. /\ Settle(l) /\ shown' = Page(load[l]) /\ UNCHANGED <<offset, filter>>
    BY <1>3, RenderFact
  <2>2. newest' = (IF newest = l THEN None ELSE newest)
        /\ \A k \in Loads : k # l => load'[k] = load[k]
    BY <1>0, <2>1, SettleFact
  <2>3. ~overtaken' => newest = l
    BY Zenon, <1>3 DEF Render
  <2>4. shown'.kind = "page" /\ shown'.filter = load[l].filter /\ shown'.offset = load[l].offset
    BY <2>1 DEF Page
  <2>5. NewestFit'
    BY <1>0, <2>1, <2>2 DEF PageFit, NewestFit
  <2>6. ShownFit'
    BY <1>0, <2>1, <2>3, <2>4 DEF PageFit, NewestFit, ShownFit
  <2>7. LoadingAwaited'
    BY <2>4, NotPages DEF LoadingAwaited
  <2> QED
    BY <2>5, <2>6, <2>7 DEF PageFit
<1>4. ASSUME NEW l \in Loads, LoadFails(l) PROVE PageFit'
  <2>1. Settle(l) /\ shown' = Failed /\ UNCHANGED <<offset, filter>>
    BY <1>4 DEF LoadFails
  <2>2. newest' = (IF newest = l THEN None ELSE newest)
        /\ \A k \in Loads : k # l => load'[k] = load[k]
    BY <1>0, <2>1, SettleFact
  <2>3. NewestFit'
    BY <1>0, <2>1, <2>2 DEF PageFit, NewestFit
  <2> QED
    BY <2>1, <2>3, NotPages DEF PageFit, LoadingAwaited, ShownFit, PageShown
<1>5. ASSUME UNCHANGED <<page, newest, overtaken>> PROVE PageFit'
  <2>1. UNCHANGED <<offset, filter, load, shown, newest, overtaken>>
    BY <1>5 DEF page
  <2>2. ~overtaken' => ~overtaken
    BY Zenon, <2>1
  <2>3. InFlight' = InFlight
    BY <2>1 DEF InFlight
  <2> QED
    BY <2>1, <2>2, <2>3 DEF PageFit, LoadingAwaited, NewestFit, ShownFit, PageShown
<1>6. ASSUME \/ DashboardSummary \/ DashboardDone
             \/ \E i \in Incidents, t \in Starts : CreateIncident(i, t)
             \/ \E i \in Incidents, row \in Row : UpdateIncident(i, row)
             \/ UNCHANGED vars
      PROVE  UNCHANGED <<page, newest, overtaken>>
  BY <1>6 DEF DashboardSummary, DashboardDone, CreateIncident, UpdateIncident, vars, history
<1> HIDE DEF PageFit
<1> QED
  BY <1>1, <1>2, <1>3, <1>4, <1>5, <1>6 DEF Next

----------------------------------------------------------------------------
(* The dashboard                                                           *)

\* Incidents are never deleted.
LEMMA AllGrows ==
    ASSUME TypeOK, [Next]_vars
    PROVE  /\ All \in Nat
           /\ All' \in Nat
           /\ All <= All'
<1>0. incident \in Table
  BY Types
<1> DEFINE Then == Cardinality(MatchesIn(incident', AllOption))
<1>1. All \in Nat
  BY <1>0, MatchesFact DEF All
<1>2. ASSUME NEW i \in Incidents, NEW t \in Starts, CreateIncident(i, t)
      PROVE  Then \in Nat /\ All <= Then
  <2>1. incident' \in Table /\ Growing(incident, incident', AllOption)
    BY <1>0, <1>2, CreateFact
  <2>2. All <= Then
    BY <1>0, <2>1, GrowingFact DEF All
  <2> QED
    BY <2>1, <2>2, MatchesFact
<1>3. ASSUME NEW i \in Incidents, NEW row \in Row, UpdateIncident(i, row)
      PROVE  Then \in Nat /\ All <= Then
  <2>1. incident' \in Table /\ All <= Then
    BY <1>0, <1>3, UpdateFact
  <2> QED
    BY <2>1, MatchesFact
<1>4. ASSUME incident' = incident PROVE Then \in Nat /\ All <= Then
  <2>1. Then = All
    BY <1>4 DEF All
  <2> QED
    BY <1>1, <2>1
<1>5. ASSUME NEW l \in Loads, Click(l) \/ ListIncidents(l) \/ Render(l) \/ LoadFails(l)
      PROVE  incident' = incident
  BY <1>5, ClickFact DEF ListIncidents, Render, LoadFails
<1>6. ASSUME DashboardSummary \/ DashboardDone \/ UNCHANGED vars PROVE incident' = incident
  BY <1>6 DEF DashboardSummary, DashboardDone, vars
<1>7. Then \in Nat /\ All <= Then
  <2> HIDE DEF Then
  <2> QED
    BY <1>2, <1>3, <1>4, <1>5, <1>6 DEF Next
<1>8. All' = Then
  BY DEF All, MatchesIn
<1> QED
  BY <1>1, <1>7, <1>8

LEMMA SubsetOfAll ==
    ASSUME NEW t \in Table, NEW f
    PROVE  Cardinality(MatchesIn(t, f)) <= Cardinality(MatchesIn(t, AllOption))
<1>1. MatchesIn(t, AllOption) = {i \in Incidents : t[i] # None}
  BY MatchesAll
<1>2. MatchesIn(t, f) \in SUBSET MatchesIn(t, AllOption)
  BY <1>1 DEF MatchesIn, IsMatch
<1>3. IsFiniteSet(MatchesIn(t, AllOption))
  BY MatchesFact DEF Sortable
<1> QED
  BY <1>2, <1>3, FS_Subset

LEMMA NextDashboardFit == TypeOK /\ DashboardFit /\ [Next]_vars => DashboardFit'
<1> SUFFICES ASSUME TypeOK, DashboardFit, [Next]_vars PROVE DashboardFit'
  OBVIOUS
<1>0. incident \in Table /\ dashboard \in {None} \cup Summaries
  BY Types
<1>1. All \in Nat /\ All' \in Nat /\ All <= All'
  BY AllGrows
<1>2. \A d \in Summaries : d.open \in Nat /\ d.total \in Nat /\ d.step \in 1..4
  BY CountsFact DEF Summaries
<1>3. CASE DashboardSummary
  <2>1. dashboard \in Summaries /\ dashboard.step \in 1..3 /\ Summed(dashboard, dashboard')
    BY <1>0, <1>3, SummaryFact
  <2>2. dashboard # None
    BY <1>3 DEF DashboardSummary
  <2>3. dashboard' \in Summaries /\ dashboard'.step = dashboard.step + 1
    BY <2>1 DEF Summed
  <2>4. CASE dashboard.step = 1
    <3>1. dashboard'.open = Cardinality(MatchesIn(incident, "OPEN_ONLY"))
      BY <2>1, <2>4 DEF Summed
    <3>2. Cardinality(MatchesIn(incident, "OPEN_ONLY")) <= All
      BY <1>0, SubsetOfAll DEF All
    <3> QED
      BY <1>1, <1>2, <2>3, <2>4, <3>1, <3>2 DEF DashboardFit
  <2>5. CASE dashboard.step = 2
    <3>1. dashboard'.open = dashboard.open /\ dashboard'.total = All
      BY <2>1, <2>5 DEF Summed
    <3>2. dashboard.open <= All
      BY <2>2, <2>5 DEF DashboardFit
    <3> QED
      BY <1>1, <1>2, <2>3, <2>5, <3>1, <3>2 DEF DashboardFit
  <2>6. CASE dashboard.step = 3
    <3>1. /\ dashboard'.open = dashboard.open /\ dashboard'.total = dashboard.total
          /\ dashboard'.recent = Slice(incident, MatchesIn(incident, AllOption), 0, Recent)
      BY <2>1, <2>6 DEF Summed
    <3>2. /\ dashboard.open <= dashboard.total /\ dashboard.total <= All
          /\ dashboard.open <= All
      BY <2>2, <2>6 DEF DashboardFit
    <3>3. Cardinality(dashboard'.recent) =
            IF All <= 0 THEN 0 ELSE IF All <= 0 + Recent THEN All - 0 ELSE Recent
      <4>1. Sortable(incident, MatchesIn(incident, AllOption))
        BY <1>0, MatchesFact
      <4> QED
        BY <3>1, <4>1, SliceSize DEF All
    <3>4. dashboard.total <= Cardinality(dashboard'.recent) \/ Cardinality(dashboard'.recent) = Recent
      BY <1>1, <1>2, <2>1, <3>2, <3>3
    <3> QED
      BY <1>1, <1>2, <2>1, <2>3, <2>6, <3>1, <3>2, <3>4 DEF DashboardFit
  <2> QED
    BY <2>1, <2>4, <2>5, <2>6
<1>4. CASE DashboardDone
  <2>1. dashboard'.step = 1
    BY <1>4 DEF DashboardDone, NewSummary
  <2> QED
    BY <2>1 DEF DashboardFit
<1>5. CASE dashboard' = dashboard
  <2>1. dashboard # None => dashboard.open \in Nat /\ dashboard.total \in Nat
    BY <1>0, <1>2
  <2> QED
    BY <1>1, <1>5, <2>1 DEF DashboardFit
<1>6. ASSUME NEW l \in Loads, Click(l) \/ ListIncidents(l) \/ Render(l) \/ LoadFails(l)
      PROVE  dashboard' = dashboard
  BY <1>6, ClickFact DEF ListIncidents, Render, LoadFails
<1>7. ASSUME \/ \E i \in Incidents, t \in Starts : CreateIncident(i, t)
             \/ \E i \in Incidents, row \in Row : UpdateIncident(i, row)
             \/ UNCHANGED vars
      PROVE  dashboard' = dashboard
  BY <1>7 DEF CreateIncident, UpdateIncident, vars
<1> QED
  BY <1>3, <1>4, <1>5, <1>6, <1>7 DEF Next

----------------------------------------------------------------------------
(* The page and its total                                                  *)

LEMMA LoadNumbers ==
    ASSUME NEW r \in Load
    PROVE  /\ r.offset \in Nat /\ r.total \in Nat /\ r.step \in 1..3
           /\ Cardinality(r.items) \in Nat
           /\ Cardinality(r.items) = 0 <=> r.items = {}
<1>1. r.items \in SUBSET Incidents /\ r.offset \in Offsets /\ r.total \in Counts /\ r.step \in 1..3
  BY DEF Load
<1>2. IsFiniteSet(r.items)
  BY <1>1, FS_Subset
<1> QED
  BY <1>1, <1>2, FS_CardinalityType, FS_EmptySet, OffsetsFact, CountsFact

LEMMA LoadTotalGrows ==
    ASSUME NEW r \in Load, NEW m \in Nat, NEW n \in Nat, m <= n, LoadTotalFit(r, m)
    PROVE  LoadTotalFit(r, n)
<1>1. r.offset \in Nat /\ Cardinality(r.items) \in Nat
  BY LoadNumbers
<1> QED
  BY <1>1 DEF LoadTotalFit

LEMMA LoadTotalFilled ==
    ASSUME incident \in Table, NEW r \in Load, NEW s, r.step \in 1..2, Filled(r, s),
           LoadTotalFit(r, All)
    PROVE  LoadTotalFit(s, All)
<1>1. s \in Load /\ s.step = r.step + 1 /\ s.filter = r.filter /\ s.offset = r.offset
  BY DEF Filled
<1>2. /\ r.offset \in Nat /\ s.total \in Nat
      /\ Cardinality(r.items) \in Nat /\ Cardinality(s.items) \in Nat
      /\ Cardinality(s.items) = 0 <=> s.items = {}
  BY <1>1, LoadNumbers
<1>3. All \in Nat /\ Sortable(incident, MatchesIn(incident, AllOption))
  BY MatchesFact DEF All
<1>4. CASE r.step = 1 /\ r.filter = AllOption
  <2>1. s.items = Slice(incident, MatchesIn(incident, AllOption), r.offset, Limit)
    BY <1>4 DEF Filled
  <2>2. Cardinality(s.items) = IF All <= r.offset THEN 0
                               ELSE IF All <= r.offset + Limit THEN All - r.offset ELSE Limit
    BY <1>2, <1>3, <2>1, SliceSize DEF All
  <2>3. s.items # {} => s.offset + Cardinality(s.items) <= All
    BY <1>1, <1>2, <1>3, <2>2
  <2> QED
    BY <1>1, <1>4, <2>3 DEF LoadTotalFit
<1>5. CASE r.step = 2 /\ r.filter = AllOption
  <2>1. s.items = r.items /\ s.total = All
    BY <1>5 DEF Filled, All
  <2> QED
    BY <1>1, <1>2, <1>3, <1>5, <2>1 DEF LoadTotalFit
<1>6. CASE r.filter # AllOption
  BY <1>1, <1>6 DEF LoadTotalFit
<1> QED
  BY <1>4, <1>5, <1>6

LEMMA NextTotalFit ==
    TypeOK /\ TotalFit /\ PageWithinTotal /\ [Next]_vars => TotalFit' /\ PageWithinTotal'
<1> SUFFICES ASSUME TypeOK, TotalFit, PageWithinTotal, [Next]_vars
             PROVE  TotalFit' /\ PageWithinTotal'
  OBVIOUS
<1>0. /\ load \in [Loads -> Load \cup {None}] /\ newest \in InFlight \cup {None}
      /\ incident \in Table
      /\ \A l \in InFlight : l \in Loads /\ load[l] \in Load
  BY Types DEF InFlight
<1>1. All \in Nat /\ All' \in Nat /\ All <= All'
  BY AllGrows
<1>2. \A l \in InFlight : LoadTotalFit(load[l], All')
  BY <1>0, <1>1, LoadTotalGrows DEF TotalFit
<1>3. ASSUME NEW l \in Loads, Click(l) PROVE TotalFit' /\ PageWithinTotal'
  <2>1. offset' \in Offsets /\ filter' \in Filters /\ SendLoad(l, filter', offset')
    BY <1>3, ClickFact
  <2>2. /\ load'[l] = Sent(filter', offset') /\ \A k \in Loads : k # l => load'[k] = load[k]
        /\ InFlight' = InFlight \cup {l} /\ shown' = Loading
    BY <1>0, <2>1, SendFact
  <2>3. LoadTotalFit(load'[l], All')
    BY <2>1, <2>2, SentFact DEF LoadTotalFit
  <2> QED
    BY <1>0, <1>2, <2>2, <2>3, NotPages DEF TotalFit, PageWithinTotal, PageShown
<1>4. ASSUME NEW l \in Loads, ListIncidents(l) PROVE TotalFit' /\ PageWithinTotal'
  <2>1. shown' = shown /\ incident' = incident
    BY <1>4 DEF ListIncidents
  <2>2. /\ load[l] \in Load /\ load[l].step \in 1..2 /\ Filled(load[l], load'[l])
        /\ \A k \in Loads : k # l => load'[k] = load[k]
        /\ InFlight' = InFlight /\ l \in InFlight
    BY <1>0, <1>4, ListIncidentsFact
  <2>3. LoadTotalFit(load'[l], All) /\ load'[l] \in Load
    BY <1>0, <2>2, LoadTotalFilled DEF TotalFit, Filled
  <2>4. LoadTotalFit(load'[l], All')
    BY <1>1, <2>3, LoadTotalGrows
  <2> QED
    BY <1>0, <1>2, <2>1, <2>2, <2>4 DEF TotalFit, PageWithinTotal, PageShown
<1>5. ASSUME NEW l \in Loads, Settle(l) PROVE TotalFit'
  <2>1. InFlight' = InFlight \ {l} /\ \A k \in Loads : k # l => load'[k] = load[k]
    BY <1>0, <1>5, SettleFact
  <2> QED
    BY <1>0, <1>2, <2>1 DEF TotalFit
<1>6. ASSUME NEW l \in Loads, Render(l) PROVE PageWithinTotal'
  <2>1. shown' = Page(load[l]) /\ load[l].step = 3 /\ l \in InFlight
    BY <1>0, <1>6, RenderFact, SettleFact
  <2>2. /\ shown'.filter = load[l].filter /\ shown'.offset = load[l].offset
        /\ shown'.items = load[l].items /\ shown'.total = load[l].total
    BY <2>1 DEF Page
  <2>3. LoadTotalFit(load[l], All)
    BY <2>1 DEF TotalFit
  <2> QED
    BY <2>1, <2>2, <2>3 DEF LoadTotalFit, PageWithinTotal
<1>7. ASSUME NEW l \in Loads, LoadFails(l) PROVE PageWithinTotal'
  BY <1>7, NotPages DEF LoadFails, PageWithinTotal, PageShown
<1>8. ASSUME NEW l \in Loads, Render(l) \/ LoadFails(l) PROVE Settle(l)
  BY <1>8 DEF Render, LoadFails
<1>9. ASSUME UNCHANGED <<load, shown>> PROVE TotalFit' /\ PageWithinTotal'
  BY <1>2, <1>9 DEF TotalFit, InFlight, PageWithinTotal, PageShown
<1>10. ASSUME \/ DashboardSummary \/ DashboardDone
              \/ \E i \in Incidents, t \in Starts : CreateIncident(i, t)
              \/ \E i \in Incidents, row \in Row : UpdateIncident(i, row)
              \/ UNCHANGED vars
       PROVE  UNCHANGED <<load, shown>>
  BY <1>10 DEF DashboardSummary, DashboardDone, CreateIncident, UpdateIncident, vars, page
<1> QED
  BY <1>3, <1>4, <1>5, <1>6, <1>7, <1>8, <1>9, <1>10 DEF Next

----------------------------------------------------------------------------
(* A walk through the pages                                                *)

Walk == [due : SUBSET Incidents, seen : SUBSET Incidents]

\* Ranks of what is due are numbers below the number of matches.
LEMMA DueRanks ==
    ASSUME NEW t \in Table, NEW f, NEW w \in Walk, w.due \subseteq MatchesIn(t, f)
    PROVE  /\ Cardinality(MatchesIn(t, f)) \in Nat
           /\ \A i \in w.due : /\ Rank(t, MatchesIn(t, f), i) \in Nat
                               /\ Rank(t, MatchesIn(t, f), i) < Cardinality(MatchesIn(t, f))
<1> DEFINE M == MatchesIn(t, f)
<1>1. Sortable(t, M) /\ Cardinality(M) \in Nat
  BY MatchesFact
<1> HIDE DEF M
<1>2. \A i \in M : Rank(t, M, i) \in 0..(Cardinality(M) - 1)
  BY <1>1, RankBelow
<1>3. \A i \in M : Rank(t, M, i) \in Nat /\ Rank(t, M, i) < Cardinality(M)
  BY <1>1, <1>2
<1> QED
  BY <1>1, <1>3 DEF M

\* What has been established of a walk stays true while the matches only grow:
\* its incidents move to later ranks.
LEMMA FirstGrows ==
    ASSUME NEW t \in Table, NEW u \in Table, NEW f, NEW w \in Walk, NEW n \in Nat, NEW S,
           w.due \subseteq MatchesIn(t, f), Growing(t, u, f), FirstIn(w, t, f, n, S)
    PROVE  FirstIn(w, u, f, n, S)
<1>1. \A i \in w.due : /\ Rank(t, MatchesIn(t, f), i) \in Nat
                       /\ Rank(u, MatchesIn(u, f), i) \in Nat
                       /\ Rank(t, MatchesIn(t, f), i) <= Rank(u, MatchesIn(u, f), i)
  BY GrowingFact
<1> QED
  BY <1>1 DEF FirstIn

LEMMA WalkGrows ==
    ASSUME NEW t \in Table, NEW u \in Table, NEW f, NEW w \in Walk,
           w.due \subseteq MatchesIn(t, f), Growing(t, u, f)
    PROVE  /\ w.due \subseteq MatchesIn(u, f)
           /\ \A r \in Load : WalkLoadFit(w, t, f, r) => WalkLoadFit(w, u, f, r)
           /\ \A o \in Nat, total \in Nat :
                WalkShownFit(w, t, f, o, total) => WalkShownFit(w, u, f, o, total)
<1> DEFINE m == Cardinality(MatchesIn(t, f))
           n == Cardinality(MatchesIn(u, f))
<1>1. m \in Nat /\ n \in Nat /\ m <= n
  BY MatchesFact, GrowingFact
<1>2. w.due \subseteq MatchesIn(u, f)
  BY DEF Growing
<1>3. ASSUME NEW r \in Load, WalkLoadFit(w, t, f, r) PROVE WalkLoadFit(w, u, f, r)
  <2>1. r.offset \in Nat /\ r.offset + Limit \in Nat /\ r.total \in Nat
    BY LoadNumbers
  <2>2. /\ r.step = 1 => FirstIn(w, u, f, r.offset, w.seen)
        /\ r.step # 1 => FirstIn(w, u, f, r.offset + Limit, w.seen \cup r.items)
    BY <1>3, <2>1, FirstGrows DEF WalkLoadFit
  <2>3. /\ r.offset > 0 => m > r.offset
        /\ r.step # 1 => (r.offset > 0 => r.items # {})
        /\ r.step = 3 => r.total <= m
        /\ r.step = 3 => (r.total <= r.offset + Limit => w.due \subseteq w.seen \cup r.items)
    BY <1>3 DEF WalkLoadFit
  <2> HIDE DEF m, n
  <2>4. (r.offset > 0 => n > r.offset) /\ (r.step = 3 => r.total <= n)
    BY <1>1, <2>1, <2>3
  <2> QED
    BY <2>2, <2>3, <2>4 DEF WalkLoadFit, n
<1>4. ASSUME NEW o \in Nat, NEW total \in Nat, WalkShownFit(w, t, f, o, total)
      PROVE  WalkShownFit(w, u, f, o, total)
  <2>1. FirstIn(w, u, f, o + Limit, w.seen)
    BY <1>4, FirstGrows DEF WalkShownFit
  <2>2. /\ o > 0 => m > o
        /\ total <= m
        /\ total <= o + Limit => w.due \subseteq w.seen
    BY <1>4 DEF WalkShownFit
  <2> HIDE DEF m, n
  <2>3. (o > 0 => n > o) /\ total <= n
    BY <1>1, <2>2
  <2> QED
    BY <2>1, <2>2, <2>3 DEF WalkShownFit, n
<1> QED
  BY <1>2, <1>3, <1>4

\* The first load of a walk.
LEMMA WalkBegins ==
    ASSUME NEW t \in Table, NEW f \in Filters
    PROVE  LET w == [due |-> MatchesIn(t, f), seen |-> {}] IN
           w \in Walk /\ WalkLoadFit(w, t, f, Sent(f, 0))
<1> DEFINE w == [due |-> MatchesIn(t, f), seen |-> {}]
           r == Sent(f, 0)
<1>1. w \in Walk /\ w.due = MatchesIn(t, f)
  BY MatchesFact DEF Walk
<1>2. r.step = 1 /\ r.offset = 0
  BY OffsetsFact, SentFact
<1> HIDE DEF w, r
<1>3. \A i \in w.due : Rank(t, MatchesIn(t, f), i) \in Nat
  BY <1>1, DueRanks
<1>4. FirstIn(w, t, f, 0, w.seen)
  BY <1>3 DEF FirstIn
<1>5. WalkLoadFit(w, t, f, r)
  BY <1>2, <1>4 DEF WalkLoadFit
<1> QED
  BY <1>1, <1>5 DEF w, r

\* A click on Previous or Next, with the answer to the last one on the page.
LEMMA WalkGoesOn ==
    ASSUME NEW t \in Table, NEW f \in Filters, NEW w \in Walk, w.due \subseteq MatchesIn(t, f),
           NEW o \in Nat, NEW total \in Nat, WalkShownFit(w, t, f, o, total),
           NEW q \in Offsets, q <= o \/ (q = o + Limit /\ o + Limit < total)
    PROVE  WalkLoadFit(w, t, f, Sent(f, q))
<1> DEFINE n == Cardinality(MatchesIn(t, f))
           r == Sent(f, q)
<1>1. n \in Nat /\ \A i \in w.due : Rank(t, MatchesIn(t, f), i) \in Nat
  BY DueRanks
<1>2. r.step = 1 /\ r.offset = q /\ q \in Nat
  BY OffsetsFact, SentFact
<1>3. (o > 0 => n > o) /\ total <= n /\ FirstIn(w, t, f, o + Limit, w.seen)
  BY DEF WalkShownFit
<1> HIDE DEF n, r
<1>4. q > 0 => n > q
  BY <1>1, <1>2, <1>3
<1>5. q <= o + Limit
  BY <1>2
<1>6. FirstIn(w, t, f, q, w.seen)
  BY <1>1, <1>2, <1>3, <1>5 DEF FirstIn
<1> QED
  BY <1>2, <1>4, <1>6 DEF WalkLoadFit, n, r

\* A statement of list_incidents.
LEMMA WalkReads ==
    ASSUME incident \in Table, NEW w \in Walk, NEW r \in Load, NEW s, r.step \in 1..2,
           Filled(r, s), w.due \subseteq MatchesIn(incident, r.filter),
           WalkLoadFit(w, incident, r.filter, r)
    PROVE  WalkLoadFit(w, incident, r.filter, s)
<1> DEFINE M == MatchesIn(incident, r.filter)
           n == Cardinality(M)
<1>1. /\ n \in Nat /\ Sortable(incident, M)
      /\ \A i \in w.due : i \in M /\ Rank(incident, M, i) \in Nat /\ Rank(incident, M, i) < n
  BY MatchesFact, DueRanks
<1>2. /\ s \in Load /\ s.step = r.step + 1 /\ s.offset = r.offset
      /\ r.offset \in Nat /\ s.total \in Nat
  BY LoadNumbers DEF Filled
<1>3. r.offset > 0 => n > r.offset
  BY DEF WalkLoadFit
<1>4. CASE r.step = 1
  <2>1. s.items = Slice(incident, M, r.offset, Limit)
    BY <1>4 DEF Filled
  <2>2. \A i \in w.due : Rank(incident, M, i) < r.offset => i \in w.seen
    BY <1>4 DEF WalkLoadFit, FirstIn
  <2> HIDE DEF M
  <2>3. \A i \in w.due : Rank(incident, M, i) < r.offset + Limit => i \in w.seen \cup s.items
    BY <1>1, <1>2, <2>1, <2>2 DEF Slice
  <2>4. r.offset > 0 => s.items # {}
    <3>1. Cardinality(s.items) = IF n <= r.offset THEN 0
                                 ELSE IF n <= r.offset + Limit THEN n - r.offset ELSE Limit
      BY <1>1, <1>2, <2>1, SliceSize
    <3>2. r.offset > 0 => Cardinality(s.items) # 0
      BY <1>1, <1>2, <1>3, <3>1
    <3> QED
      BY <1>2, <3>2, LoadNumbers
  <2>5. FirstIn(w, incident, r.filter, s.offset + Limit, w.seen \cup s.items)
    BY <1>2, <2>3 DEF FirstIn, M
  <2> QED
    BY <1>2, <1>3, <1>4, <2>4, <2>5 DEF WalkLoadFit, M
<1>5. CASE r.step = 2
  <2>1. s.items = r.items /\ s.total = n
    BY <1>5 DEF Filled
  <2>2. /\ \A i \in w.due : Rank(incident, M, i) < r.offset + Limit => i \in w.seen \cup r.items
        /\ r.offset > 0 => r.items # {}
    BY <1>5 DEF WalkLoadFit, FirstIn
  <2>3. FirstIn(w, incident, r.filter, s.offset + Limit, w.seen \cup s.items)
    BY <1>2, <2>1, <2>2 DEF FirstIn
  <2> HIDE DEF M
  <2>4. n <= r.offset + Limit => w.due \subseteq w.seen \cup r.items
    BY <1>1, <1>2, <2>2
  <2> QED
    BY <1>1, <1>2, <1>3, <1>5, <2>1, <2>2, <2>3, <2>4 DEF WalkLoadFit, M
<1> QED
  BY <1>4, <1>5

\* The answer is drawn.
LEMMA WalkSees ==
    ASSUME NEW t \in Table, NEW f, NEW w \in Walk, NEW r \in Load, r.step = 3,
           WalkLoadFit(w, t, f, r)
    PROVE  LET v == [due |-> w.due, seen |-> w.seen \cup r.items] IN
           /\ v \in Walk /\ v.due = w.due
           /\ WalkShownFit(v, t, f, r.offset, r.total)
           /\ r.offset > 0 => r.items # {}
<1> DEFINE v == [due |-> w.due, seen |-> w.seen \cup r.items]
<1>1. v \in Walk /\ v.due = w.due /\ v.seen = w.seen \cup r.items
  BY DEF Walk, Load
<1> HIDE DEF v
<1>2. FirstIn(v, t, f, r.offset + Limit, v.seen)
  BY <1>1 DEF WalkLoadFit, FirstIn
<1>3. WalkShownFit(v, t, f, r.offset, r.total)
  BY <1>1, <1>2 DEF WalkLoadFit, WalkShownFit
<1>4. r.offset > 0 => r.items # {}
  BY DEF WalkLoadFit
<1> QED
  BY <1>1, <1>3, <1>4 DEF v

LEMMA InitWalkFit == Init => WalkFit
<1> SUFFICES ASSUME Init PROVE WalkFit
  OBVIOUS
<1>1. /\ incident = [i \in Incidents |-> None]
      /\ filter = "OPEN_ONLY" /\ view \in {"list", "dashboard"}
      /\ newest \in (IF view = "list" THEN Loads ELSE {None})
      /\ load = [l \in Loads |-> IF l = newest THEN Sent(filter, 0) ELSE None]
      /\ shown = (IF view = "list" THEN Loading ELSE None)
      /\ pager = None /\ walk = [due |-> {}, seen |-> {}]
  BY DEF Init
<1>2. incident \in Table /\ filter \in Filters
  BY <1>1, FiltersAssumption DEF Table
<1>3. MatchesIn(incident, filter) = {}
  BY <1>1 DEF MatchesIn, IsMatch
<1>4. WalkLoadFit(walk, incident, filter, Sent(filter, 0))
  BY <1>1, <1>2, <1>3, WalkBegins
<1>5. \A l \in InFlight : l = newest /\ load[l] = Sent(filter, 0)
  BY <1>1 DEF InFlight
<1>6. ~PageShown
  BY <1>1, NotPages DEF PageShown
<1>7. InFlight # {} <=> view = "list"
  <2>1. Sent(filter, 0) # None
    BY <1>2, SentFact, NotNone, OffsetsFact
  <2>2. CASE view = "list"
    BY <1>1, <2>1, <2>2 DEF InFlight
  <2>3. CASE view # "list"
    <3>1. \A l \in Loads : load[l] = None
      BY <1>1, <2>3, NotNone
    <3> QED
      BY <2>3, <3>1 DEF InFlight
  <2> QED
    BY <2>2, <2>3
<1> QED
  BY <1>1, <1>3, <1>4, <1>5, <1>6, <1>7 DEF WalkFit

LEMMA NextWalkFit == TypeOK /\ PageFit /\ WalkFit /\ [Next]_vars => WalkFit'
<1> SUFFICES ASSUME TypeOK, PageFit, WalkFit, [Next]_vars, walk' # None
             PROVE  WalkFit'
  BY DEF WalkFit
<1>0. /\ load \in [Loads -> Load \cup {None}] /\ newest \in InFlight \cup {None}
      /\ incident \in Table /\ offset \in Offsets /\ offset \in Nat /\ filter \in Filters
      /\ None \notin Loads
      /\ \A l \in InFlight : l \in Loads /\ load[l] \in Load
      /\ walk # None => walk \in Walk
      /\ pager # None => pager.total \in Nat /\ pager.offset \in Nat
  BY Types, NotNone, OffsetsFact, CountsFact DEF InFlight, Walks, Walk, Pagination
<1>1. ASSUME NEW l \in Loads, Click(l) PROVE WalkFit'
  <2>1. offset' \in Offsets /\ filter' \in Filters /\ SendLoad(l, filter', offset')
        /\ incident' = incident /\ view = "list" /\ view' = view
    BY <1>1, ClickFact
  <2>2. /\ load'[l] = Sent(filter', offset') /\ InFlight' = InFlight \cup {l}
        /\ newest' = l /\ shown' = Loading
    BY <1>0, <2>1, SendFact
  <2>3. ~PageShown'
    BY <2>2, NotPages DEF PageShown
  <2>4. \/ walk' = Patient(walk)
        \/ walk' = Patient([due |-> Matches(filter'), seen |-> {}])
    BY <1>1, ClickFact
  <2>5. InFlight = {}
    BY <2>4 DEF Patient
  <2>6. CASE /\ filter' = filter /\ walk' = Patient(walk)
             /\ \/ offset' <= offset
                \/ /\ offset' = offset + Limit
                   /\ pager # None => pager.offset + Limit < pager.total
    <3>1. walk' = walk /\ walk # None
      BY <2>5, <2>6 DEF Patient
    <3>2. walk.due \subseteq MatchesIn(incident, filter) /\ PageShown
      BY <2>1, <2>5, <2>6, <3>1 DEF WalkFit
    <3>3. pager # None /\ pager.offset = offset /\ WalkShownFit(walk, incident, filter, offset, pager.total)
      BY <3>1, <3>2 DEF WalkFit
    <3>4. WalkLoadFit(walk, incident, filter, Sent(filter, offset'))
      BY <1>0, <2>1, <2>6, <3>1, <3>2, <3>3, WalkGoesOn
    <3> QED
      BY <2>1, <2>2, <2>3, <2>5, <2>6, <3>1, <3>2, <3>4 DEF WalkFit
  <2>7. CASE /\ offset' = 0
             /\ walk' = Patient([due |-> Matches(filter'), seen |-> {}])
    <3>1. Matches(filter') = MatchesIn(incident, filter')
      BY DEF Matches, MatchesIn
    <3>2. walk' = [due |-> MatchesIn(incident, filter'), seen |-> {}]
      BY <2>5, <2>7, <3>1 DEF Patient
    <3>3. WalkLoadFit(walk', incident, filter', Sent(filter', 0))
      BY <1>0, <2>1, <3>2, WalkBegins
    <3>4. walk'.due \subseteq MatchesIn(incident', filter')
      BY <2>1, <3>2
    <3> QED
      BY <2>1, <2>2, <2>3, <2>5, <2>7, <3>3, <3>4 DEF WalkFit
  <2> QED
    BY <1>1, <2>6, <2>7, ClickFact
<1>2. ASSUME NEW l \in Loads, ListIncidents(l) PROVE WalkFit'
  <2>1. UNCHANGED <<incident, view, offset, filter, shown, pager, newest, walk>>
    BY <1>2 DEF ListIncidents, history
  <2>2. /\ load[l] \in Load /\ load[l].step \in 1..2 /\ Filled(load[l], load'[l])
        /\ \A k \in Loads : k # l => load'[k] = load[k]
        /\ InFlight' = InFlight /\ l \in InFlight
    BY <1>0, <1>2, ListIncidentsFact
  <2>3. /\ walk # None /\ walk.due \subseteq MatchesIn(incident, filter)
        /\ l = newest /\ WalkLoadFit(walk, incident, filter, load[l])
        /\ \A k \in InFlight : k = newest
    BY <2>1, <2>2 DEF WalkFit
  <2>4. load[l].filter = filter
    BY <1>0, <2>3 DEF PageFit, NewestFit
  <2>5. WalkLoadFit(walk, incident, filter, load'[l])
    BY <1>0, <2>2, <2>3, <2>4, WalkReads
  <2>6. ~PageShown /\ ~PageShown'
    BY <2>1, <2>2, <2>3 DEF WalkFit, PageShown
  <2> QED
    BY <2>1, <2>2, <2>3, <2>5, <2>6 DEF WalkFit
<1>3. ASSUME NEW l \in Loads, Render(l) PROVE WalkFit'
  <2>1. /\ Settle(l) /\ load[l] \in Load /\ load[l].step = 3
        /\ shown' = Page(load[l]) /\ shown' \in Answer
        /\ pager' = [total |-> load[l].total, offset |-> load[l].offset]
        /\ pager' \in Pagination
        /\ walk' = IF walk = None THEN None
                   ELSE [due |-> walk.due, seen |-> walk.seen \cup load[l].items]
        /\ UNCHANGED <<incident, view, offset, filter>>
    BY <1>3, RenderFact
  <2>2. l \in InFlight /\ InFlight' = InFlight \ {l}
    BY <1>0, <2>1, SettleFact
  <2>3. /\ walk # None
        /\ walk' = [due |-> walk.due, seen |-> walk.seen \cup load[l].items]
    BY <2>1
  <2>4. /\ walk.due \subseteq MatchesIn(incident, filter)
        /\ l = newest /\ WalkLoadFit(walk, incident, filter, load[l])
        /\ InFlight' = {} /\ view = "list"
    BY <2>2, <2>3 DEF WalkFit
  <2>5. load[l].offset = offset
    BY <1>0, <2>4 DEF PageFit, NewestFit
  <2>6. /\ walk'.due = walk.due
        /\ WalkShownFit(walk', incident, filter, load[l].offset, load[l].total)
        /\ load[l].offset > 0 => load[l].items # {}
    BY <1>0, <2>1, <2>3, <2>4, WalkSees
  <2>7. /\ shown'.kind = "page" /\ shown'.offset = load[l].offset
        /\ shown'.items = load[l].items
    BY <2>1 DEF Page
  <2>8. /\ pager' # None /\ pager'.offset = load[l].offset /\ pager'.total = load[l].total
        /\ shown' # None
    BY <2>1, NotNone
  <2>9. PageShown'
    BY <2>7, <2>8 DEF PageShown
  <2> QED
    BY <2>1, <2>4, <2>5, <2>6, <2>7, <2>8, <2>9 DEF WalkFit
<1>4. ASSUME NEW l \in Loads, LoadFails(l) PROVE FALSE
  BY <1>4 DEF LoadFails
<1>5. ASSUME UNCHANGED <<page, newest, walk>>, incident' \in Table,
             Growing(incident, incident', filter)
      PROVE  WalkFit'
  <2>1. UNCHANGED <<view, offset, filter, load, shown, pager, newest, walk>>
    BY <1>5 DEF page
  <2>2. InFlight' = InFlight /\ (PageShown' <=> PageShown)
    BY <2>1 DEF InFlight, PageShown
  <2>3. walk \in Walk /\ walk.due \subseteq MatchesIn(incident, filter)
    BY <1>0, <2>1 DEF WalkFit
  <2>4. /\ walk.due \subseteq MatchesIn(incident', filter)
        /\ \A l \in InFlight : WalkLoadFit(walk, incident', filter, load[l])
    BY <1>0, <1>5, <2>1, <2>3, WalkGrows DEF WalkFit
  <2>5. PageShown => WalkShownFit(walk, incident', filter, offset, pager.total)
    BY <1>0, <1>5, <2>1, <2>3, WalkGrows DEF WalkFit
  <2> QED
    BY <2>1, <2>2, <2>4, <2>5 DEF WalkFit
<1>6. ASSUME NEW i \in Incidents, NEW t \in Starts, CreateIncident(i, t) PROVE WalkFit'
  <2>1. incident' \in Table /\ Growing(incident, incident', filter)
    BY <1>0, <1>6, CreateFact
  <2>2. UNCHANGED <<page, newest, walk>>
    BY <1>6 DEF CreateIncident, history
  <2> QED
    BY <1>5, <2>1, <2>2
<1>7. ASSUME NEW i \in Incidents, NEW row \in Row, UpdateIncident(i, row) PROVE WalkFit'
  <2>1. incident' \in Table /\ walk' = walk /\ Growing(incident, incident', filter)
    BY <1>0, <1>7, UpdateFact
  <2>2. UNCHANGED <<page, newest>>
    BY <1>7 DEF UpdateIncident
  <2> QED
    BY <1>5, <2>1, <2>2
<1>8. ASSUME DashboardSummary \/ DashboardDone \/ UNCHANGED vars PROVE WalkFit'
  <2>1. UNCHANGED <<incident, page, newest, walk>>
    BY <1>8 DEF DashboardSummary, DashboardDone, vars, history
  <2>2. Growing(incident, incident', filter)
    BY <2>1 DEF Growing
  <2> QED
    BY <1>0, <1>5, <2>1, <2>2
<1> HIDE DEF WalkFit
<1> QED
  BY <1>1, <1>2, <1>3, <1>4, <1>6, <1>7, <1>8 DEF Next

----------------------------------------------------------------------------
(* The theorems                                                            *)

LEMMA InitInv == Init => Inv
<1> SUFFICES ASSUME Init PROVE Inv
  OBVIOUS
<1>1. TypeOK /\ PageFit /\ WalkFit
  BY InitType, InitPageFit, InitWalkFit
<1>2. /\ view \in {"list", "dashboard"}
      /\ dashboard = (IF view = "dashboard" THEN NewSummary ELSE None)
      /\ filter = "OPEN_ONLY"
      /\ load = [l \in Loads |-> IF l = newest THEN Sent(filter, 0) ELSE None]
      /\ shown = (IF view = "list" THEN Loading ELSE None)
  BY DEF Init
<1>3. DashboardFit
  BY <1>2 DEF DashboardFit, NewSummary
<1>4. TotalFit
  BY <1>2 DEF TotalFit, LoadTotalFit, Sent, InFlight
<1>5. PageWithinTotal
  BY <1>2, NotPages DEF PageWithinTotal, PageShown
<1> QED
  BY <1>1, <1>3, <1>4, <1>5 DEF Inv, PageFit

LEMMA NextInv == Inv /\ [Next]_vars => Inv'
<1> SUFFICES ASSUME Inv, [Next]_vars PROVE Inv'
  OBVIOUS
<1>1. TypeOK /\ PageFit /\ DashboardFit /\ TotalFit /\ PageWithinTotal /\ WalkFit
  BY DEF Inv, PageFit
<1>2. TypeOK' /\ PageFit' /\ DashboardFit' /\ TotalFit' /\ PageWithinTotal' /\ WalkFit'
  BY <1>1, NextType, NextPageFit, NextDashboardFit, NextTotalFit, NextWalkFit
<1> QED
  BY <1>2 DEF Inv, PageFit

LEMMA Inductive == Spec => []Inv
  BY InitInv, NextInv, PTL DEF Spec

\* The page, its loads and the dashboard have their types; the load called the
\* newest is in flight.
THEOREM TypeCorrect == Spec => []TypeOK
<1>1. Inv => TypeOK
  BY DEF Inv
<1> QED
  BY <1>1, Inductive, PTL

\* A dashboard never shows more open incidents than incidents, and lists as
\* many recent ones as its total calls for.
THEOREM DashboardAgreesHolds == Spec => []DashboardAgrees
<1>1. Inv => DashboardAgrees
  <2> SUFFICES ASSUME Inv, dashboard # None, dashboard.step = 4 PROVE DashboardAgrees
    BY DEF DashboardAgrees
  <2>1. DashboardFit
    BY DEF Inv
  <2> QED
    BY <2>1 DEF DashboardFit, DashboardAgrees
<1> QED
  BY <1>1, Inductive, PTL

\* A page of the list of all incidents ends within the total shown beside it.
THEOREM PageWithinTotalHolds == Spec => []PageWithinTotal
<1>1. Inv => PageWithinTotal
  BY DEF Inv
<1> QED
  BY <1>1, Inductive, PTL

\* Once nothing is in flight, the page shown is the one the controls ask for,
\* unless an older load was answered after the newest.
THEOREM ShownFitsHolds == Spec => []ShownFits
<1>1. Inv => ShownFits
  <2> SUFFICES ASSUME Inv PROVE ShownFits
    OBVIOUS
  <2>1. InFlight = {} => newest = None
    BY Types DEF Inv
  <2> QED
    BY <2>1 DEF Inv, ShownFit, ShownFits
<1> QED
  BY <1>1, Inductive, PTL

\* "Loading" never stays with no answer awaited.
THEOREM LoadingAwaitedHolds == Spec => []LoadingAwaited
<1>1. Inv => LoadingAwaited
  BY DEF Inv
<1> QED
  BY <1>1, Inductive, PTL

\* A patient user comes to an empty page beyond the first only when incidents
\* left the matches or moved.
THEOREM PastEndCauseHolds == Spec => []PastEndCause
<1>1. Inv => PastEndCause
  <2> SUFFICES ASSUME Inv PROVE PastEndCause
    OBVIOUS
  <2>1. WalkFit
    BY DEF Inv
  <2> QED
    BY <2>1 DEF WalkFit, PastEndCause
<1> QED
  BY <1>1, Inductive, PTL

\* A patient user who goes on until Next is disabled has seen every incident
\* that matched when the filter was chosen.
THEOREM WalkCompleteHolds == Spec => []WalkComplete
<1>1. Inv => WalkComplete
  <2> SUFFICES ASSUME Inv, PageShown, walk # None, ~NextEnabled
               PROVE  walk.due \subseteq walk.seen
    BY DEF WalkComplete
  <2>1. pager # None /\ pager.offset = offset /\ view = "list"
        /\ (pager.total <= offset + Limit => walk.due \subseteq walk.seen)
    BY DEF Inv, WalkFit, WalkShownFit
  <2>2. pager.total \in Nat /\ offset \in Nat
    BY <2>1, Types, CountsFact, OffsetsFact DEF Inv, Pagination
  <2>3. ~(pager.offset + Limit < pager.total)
    BY <2>1 DEF NextEnabled
  <2>4. pager.total <= offset + Limit
    BY <2>1, <2>2, <2>3
  <2> QED
    BY <2>1, <2>4
<1> QED
  BY <1>1, Inductive, PTL

=============================================================================
