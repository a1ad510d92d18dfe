----------------------------- MODULE ReviewTables -----------------------------
(***************************************************************************)
(* The PostgreSQL schema of the reviewer assignment service, and the       *)
(* queries of internal/repository/postgres as operators over table         *)
(* contents.                                                               *)
(*                                                                         *)
(*   users              [User -> UserRow or Nil]   Nil: no such row        *)
(*   pull_requests      [PR -> PrRow or Nil]                               *)
(*   pr_reviewers       a set of pairs <<pr, user>> (its primary key)      *)
(*   teams              a set of names (UNIQUE; the SERIAL id is the name) *)
(*   pr_reassignment_history   for every PR, its events in id order        *)
(*                                                                         *)
(* User names, PR names and the three timestamps are left out.             *)
(***************************************************************************)
EXTENDS Naturals, Sequences, FiniteSets

CONSTANTS User,   \* user ids
          Team,   \* team names
          PR,     \* pull request ids
          Nil     \* SQL NULL, an absent row, nobody

Status == {"OPEN", "MERGED"}

UserRow == [team : Team, active : BOOLEAN]

PrRow == [author : User, status : Status]

Event == [old : User, new : User \cup {Nil}]

Row == User \cup Team \cup PR      \* what a row lock is taken on

ASSUME NilAssumption == Nil \notin Row \cup UserRow \cup PrRow

\* Ids of different tables never meet; distinct names keep the locks apart.
ASSUME RowAssumption ==
  /\ User \cap Team = {}
  /\ User \cap PR = {}
  /\ Team \cap PR = {}

ASSUME UserAssumption == IsFiniteSet(User)

-------------------------------------------------------------------------------
(* Queries. us, ps and rv stand for the rows a statement sees.             *)

ReviewersOf(rv, p) == {u \in User : <<p, u>> \in rv}

ActiveUsers(us) == {u \in User : us[u] # Nil /\ us[u].active}

\* Mutant of TeamCandidates: "is_active=true" is missing.
TeamCandidates_Inactive(us, t, author) ==
  {u \in User : us[u] # Nil /\ us[u].team = t /\ u # author}

\* Active members of team t but the author: selectCandidatesQuery and
\* selectReplacementCandidatesQuery have the same text.
TeamCandidates(us, t, author) ==
  {u \in ActiveUsers(us) : us[u].team = t /\ u # author}

\* Mutant of OtherTeamCandidates: "id <> $2" is missing.
OtherTeamCandidates_Author(us, t, author) ==
  {u \in ActiveUsers(us) : us[u].team # t}

\* Active users of every other team but the author: activeReplacementQuery.
OtherTeamCandidates(us, t, author) ==
  {u \in ActiveUsers(us) : us[u].team # t /\ u # author}

\* Open PRs that one of the given users reviews: selectImpactedPRsQuery.
ImpactedPRs(ps, rv, us) ==
  {p \in PR : /\ ps[p] # Nil
              /\ ps[p].status = "OPEN"
              /\ ReviewersOf(rv, p) \cap us # {}}

\* Mutants of PickRandom: the loop runs once too often, or once too seldom.
PickRandom_TooMany(S, n) ==
  {R \in SUBSET S : Cardinality(R) = IF n >= Cardinality(S) THEN Cardinality(S)
                                                            ELSE n + 1}
PickRandom_TooFew(S, n) ==
  {R \in SUBSET S : Cardinality(R) = IF n >= Cardinality(S) THEN Cardinality(S)
                                                            ELSE n - 1}

\* The sets pickRandom(s, n) can return.
PickRandom(S, n) ==
  {R \in SUBSET S : Cardinality(R) = IF n >= Cardinality(S) THEN Cardinality(S)
                                                            ELSE n}

-------------------------------------------------------------------------------
(* A database the service can be started on: the column types, the foreign *)
(* keys, and what earlier runs of the service left true of every PR.       *)

Database == [teams     : SUBSET Team,
             users     : [User -> UserRow \cup {Nil}],
             prs       : [PR -> PrRow \cup {Nil}],
             reviewers : SUBSET (PR \X User),
             history   : [PR -> Seq(Event)]]

ForeignKeysHold(d) ==
  /\ \A u \in User : d.users[u] # Nil => d.users[u].team \in d.teams
  /\ \A p \in PR : d.prs[p] # Nil => d.users[d.prs[p].author] # Nil
  /\ \A p \in PR, u \in User :
       <<p, u>> \in d.reviewers => d.prs[p] # Nil /\ d.users[u] # Nil
  /\ \A p \in PR : d.prs[p] = Nil => d.history[p] = <<>>

WellAssigned(ps, rv) ==
  \A p \in PR : ps[p] # Nil =>
     /\ ps[p].author \notin ReviewersOf(rv, p)
     /\ Cardinality(ReviewersOf(rv, p)) <= 2

===============================================================================
