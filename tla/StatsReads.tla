------------------------------ MODULE StatsReads ------------------------------
(***************************************************************************)
(* The reports of the service (internal/repository/postgres/stats.go, and  *)
(* GetUserReviews of user.go) while the writing half goes on working.      *)
(*                                                                         *)
(* A report is several queries on the pool, outside a transaction: each    *)
(* query sees the tables committed when it runs.  An action of the report  *)
(* is one query.  The writers are those of TeamLedger, whose steps the     *)
(* module ReviewTxLedger shows the transactions of ReviewTx to be.         *)
(*                                                                         *)
(* Groups and lists of rows are functions from the key of a row to what    *)
(* the report shows of it; the order of rows is left out, except that      *)
(* ORDER BY ... LIMIT decides which of them are there.                     *)
(***************************************************************************)
EXTENDS TeamLedger, FiniteSetsExt, SequencesExt

CONSTANTS CreatedAt,   \* [PR -> Nat]: created_at, set once when it is inserted
          Seeds,       \* committed tables a report may start on
          Requests,    \* the reports that may be asked for
          MaxWrites,   \* [Requests -> Nat], bound: commits during a report
          MaxMembers   \* bound: members of a team created meanwhile

\* The parameters of a summary and of the filter made of them: Nil is a nil
\* pointer, a parameter that was left out.
Filter == [from : Nat \cup {Nil}, to : Nat \cup {Nil},
           status : {"OPEN", "MERGED", Nil}, limit : Int \cup {Nil}]

\* What a client asks for; the user Nil is a parameter left out.
AnyRequest ==
       [kind : {"Stats"}]
  \cup [kind : {"StatsSummary"}, params : Filter]
  \cup [kind : {"ReviewerStats"}, user : User, limit : Int \cup {Nil}]
  \cup [kind : {"PRStats"}, pr : PR]
  \cup [kind : {"GetUserReviews"}, user : User \cup {Nil}]

ASSUME FiniteAssumption == IsFiniteSet(User) /\ IsFiniteSet(PR)
ASSUME NilAssumption == Nil \notin User \cup Team \cup Record \cup {"OPEN", "MERGED"}
ASSUME CreatedAtAssumption == CreatedAt \in [PR -> Nat]
ASSUME RequestsAssumption == Requests \subseteq AnyRequest
ASSUME SeedsAssumption ==
  \A s \in Seeds :
    /\ s.prs \in [PR -> Record \cup {Nil}] /\ s.team \in [User -> Team \cup {Nil}]
    /\ \A p \in PR : s.prs[p] # Nil =>
         /\ Sound(s.prs[p])
         /\ \A u \in {s.prs[p].author} \cup s.prs[p].reviewers : s.team[u] # Nil
ASSUME BoundsAssumption == MaxWrites \in [Requests -> Nat] /\ MaxMembers \in Nat

VARIABLES request,  \* the report being made
          parts,    \* results of the queries that have run, by field
          err,      \* the error the report ended with, or Nil
          past      \* tables committed since it was asked for, before the last

vars == <<ledger, team, request, parts, err, past>>

Tables == [prs |-> ledger, team |-> team]

\* All tables a query of this report can have seen.
Seen == Range(past) \cup {Tables}

-------------------------------------------------------------------------------
(* Queries, on the tables d = [prs, team] and the PRs that WHERE selects.  *)

Rows(d) == {p \in PR : d.prs[p] # Nil}

\* The rows of pr_reviewers that belong to the PRs in W.
Reviews(d, W) ==
  {x \in (Rows(d) \cap W) \X User : x[2] \in d.prs[x[1]].reviewers}

\* SELECT key, COUNT( * ) FROM S GROUP BY key
CountBy(S, key(_)) ==
  [k \in {key(x) : x \in S} |-> Cardinality({x \in S : key(x) = k})]

ByUser(d, W) == CountBy(Reviews(d, W), LAMBDA x : x[2])
ByPR(d) == CountBy(Reviews(d, PR), LAMBDA x : x[1])
ByStatus(d, W) == CountBy(Rows(d) \cap W, LAMBDA p : d.prs[p].status)

\* Mutant of ByTeam: teams joined on the author of the PR, counting PRs.
ByTeam_PerPR(d, W) ==
  CountBy({x[1] : x \in Reviews(d, W)}, LAMBDA p : d.team[d.prs[p].author])

ByTeam(d, W) == CountBy(Reviews(d, W), LAMBDA x : d.team[x[2]])

\* ORDER BY rank DESC LIMIT n: the rows of f that may be left.  Rows of the
\* same rank come in any order.
Limited(f, rank, n) ==
  LET all == DOMAIN f
      k   == IF n < Cardinality(all) THEN n ELSE Cardinality(all)
  IN {[x \in S |-> f[x]] : S \in {S \in kSubset(k, all) :
        \A x \in S, y \in all \ S : rank[x] >= rank[y]}}

\* The PRs u reviews, with their statuses.
ReviewedBy(d, u) ==
  [p \in {p \in Rows(d) : u \in d.prs[p].reviewers} |-> d.prs[p].status]

-------------------------------------------------------------------------------
(* buildPRFilter: a condition names the argument it compares with by its   *)
(* placeholder, a position in the list of arguments.                       *)

Given(x) == IF x = Nil THEN <<>> ELSE <<x>>

Args(f) == Given(f.from) \o Given(f.to) \o Given(f.status)

\* Mutant of Conditions: "pr.created_at <= $1".
Conditions_FirstPlaceholder(f) ==
  LET afterFrom == Len(Given(f.from))
      afterTo   == afterFrom + Len(Given(f.to))
  IN (IF f.from = Nil THEN {} ELSE {[op |-> ">=", at |-> 1]})
     \cup (IF f.to = Nil THEN {} ELSE {[op |-> "<=", at |-> 1]})
     \cup (IF f.status = Nil THEN {} ELSE {[op |-> "=", at |-> afterTo + 1]})

\* idx counts the arguments so far; after the status it is not used again.
Conditions(f) ==
  LET afterFrom == Len(Given(f.from))
      afterTo   == afterFrom + Len(Given(f.to))
  IN (IF f.from = Nil THEN {} ELSE {[op |-> ">=", at |-> 1]})
     \cup (IF f.to = Nil THEN {} ELSE {[op |-> "<=", at |-> afterFrom + 1]})
     \cup (IF f.status = Nil THEN {} ELSE {[op |-> "=", at |-> afterTo + 1]})

\* The PRs that satisfy the WHERE clause when args are bound.
Where(d, conditions, args) ==
  {p \in Rows(d) : \A c \in conditions :
     CASE c.op = ">=" -> CreatedAt[p] >= args[c.at]
       [] c.op = "<=" -> CreatedAt[p] <= args[c.at]
       [] c.op = "="  -> d.prs[p].status = args[c.at]}

\* The LIMIT placeholder is numbered after the filter's arguments, to which
\* the limit is appended.
TopReviewers(d, f) ==
  LET args == Append(Args(f), IF f.limit <= 0 THEN 10 ELSE f.limit)
      rows == ByUser(d, Where(d, Conditions(f), args))
  IN Limited(rows, rows, args[Len(Args(f)) + 1])

-------------------------------------------------------------------------------
(* Handlers and use cases: the limits, and the ids that must be there.     *)

GetStatsSummary(params) ==
  [params EXCEPT !.limit = IF @ # Nil /\ @ > 0 THEN @ ELSE 0]

SummaryStats(f) == [f EXCEPT !.limit = IF @ <= 0 THEN 10 ELSE @]

GetStatsReviewerUserId(limit) == IF limit # Nil /\ limit > 0 THEN limit ELSE 10

\* user_id left out: an error of the generated wrapper, answered 500, before
\* the use case could call it an invalid argument.
GetUsersGetReview(r) ==
  IF r.kind = "GetUserReviews" /\ r.user = Nil THEN "internal" ELSE Nil

-------------------------------------------------------------------------------
(* The reports.                                                            *)

StatsInit ==
  /\ \E s \in Seeds : ledger = s.prs /\ team = s.team
  /\ request \in Requests
  /\ parts = <<>>
  /\ err = GetUsersGetReview(request)
  /\ past = <<>>

\* The next of a report's queries runs and its result becomes a field of the
\* answer; one without a row it needs ends the report.
Query(kind, queries) ==
  LET next == queries[Cardinality(DOMAIN parts) + 1] IN
  /\ request.kind = kind
  /\ err = Nil
  /\ Cardinality(DOMAIN parts) < Len(queries)
  /\ \/ \E r \in next.results :
          /\ parts' = [x \in (DOMAIN parts) \cup {next.field} |->
                         IF x = next.field THEN r ELSE parts[x]]
          /\ UNCHANGED err
     \/ next.results = {} /\ err' = next.noRows /\ UNCHANGED parts
  /\ UNCHANGED <<ledger, team, request, past>>

Gives(field, results) == [field |-> field, results |-> results, noRows |-> Nil]

\* QueryRow: errors.Is(err, pgx.ErrNoRows) is told apart.
Needs(field, results, error) ==
  [field |-> field, results |-> results, noRows |-> error]

UserExists(u) == IF team[u] = Nil THEN {} ELSE {u}

\* Mutant of Stats: the statuses are counted first.
Stats_StatusFirst ==
  Query("Stats", <<Gives("ByStatus", {ByStatus(Tables, PR)}),
                   Gives("ByUser",   {ByUser(Tables, PR)}),
                   Gives("ByPR",     {ByPR(Tables)}),
                   Gives("ByTeam",   {ByTeam(Tables, PR)})>>)

Stats ==
  Query("Stats", <<Gives("ByUser",   {ByUser(Tables, PR)}),
                   Gives("ByPR",     {ByPR(Tables)}),
                   Gives("ByStatus", {ByStatus(Tables, PR)}),
                   Gives("ByTeam",   {ByTeam(Tables, PR)})>>)

\* Mutant of StatsSummary: the teams are counted first.
StatsSummary_TeamsFirst ==
  LET f == SummaryStats(GetStatsSummary(request.params))
      W == Where(Tables, Conditions(f), Args(f))
  IN Query("StatsSummary", <<Gives("TeamAssignments", {ByTeam(Tables, W)}),
                             Gives("TopReviewers",    TopReviewers(Tables, f)),
                             Gives("PRStatusCounts",  {ByStatus(Tables, W)})>>)

StatsSummary ==
  LET f == SummaryStats(GetStatsSummary(request.params))
      W == Where(Tables, Conditions(f), Args(f))
  IN Query("StatsSummary", <<Gives("TopReviewers",    TopReviewers(Tables, f)),
                             Gives("PRStatusCounts",  {ByStatus(Tables, W)}),
                             Gives("TeamAssignments", {ByTeam(Tables, W)})>>)

Counted(f, status) == IF status \in DOMAIN f THEN f[status] ELSE 0

\* Mutant of ReviewerStats: the recent PRs are read before the counters.
ReviewerStats_RecentFirst ==
  LET u   == request.user
      n   == GetStatsReviewerUserId(request.limit)
      prs == ReviewedBy(Tables, u)
      cnt == CountBy(DOMAIN prs, LAMBDA p : prs[p])
  IN Query("ReviewerStats",
       <<Needs("UserID", UserExists(u), "ErrUserNotFound"),
         Gives("RecentPRs", Limited(prs, CreatedAt, n)),
         Gives("AssignCnt", {Cardinality(DOMAIN prs)}),
         Gives("Counts", {[s \in {"OPEN", "MERGED"} |-> Counted(cnt, s)]})>>)

\* OpenPRCnt and MergedPRCnt are the field Counts.
ReviewerStats ==
  LET u   == request.user
      n   == GetStatsReviewerUserId(request.limit)
      prs == ReviewedBy(Tables, u)
      cnt == CountBy(DOMAIN prs, LAMBDA p : prs[p])
  IN Query("ReviewerStats",
       <<Needs("UserID", UserExists(u), "ErrUserNotFound"),
         Gives("AssignCnt", {Cardinality(DOMAIN prs)}),
         Gives("Counts", {[s \in {"OPEN", "MERGED"} |-> Counted(cnt, s)]}),
         Gives("RecentPRs", Limited(prs, CreatedAt, n))>>)

PRRow(p) == IF ledger[p] = Nil THEN {} ELSE {ledger[p].status}
PRReviewers(p) == IF ledger[p] = Nil THEN {} ELSE {ledger[p].reviewers}

\* Mutant of PRHistory: the columns are scanned in the wrong order.
PRHistory_Swapped(p) ==
  IF ledger[p] = Nil THEN {}
  ELSE LET h == ledger[p].history
       IN {[i \in DOMAIN h |-> [old |-> h[i].new, new |-> h[i].old]]}

\* In the order of the commits.  ORDER BY changed_at DESC only permutes it;
\* PrTimeline says how far the two orders are apart.
PRHistory(p) == IF ledger[p] = Nil THEN {} ELSE {ledger[p].history}

\* Mutants of PRStats: the row is read last, or the history before the
\* reviewers.
PRStats_RowLast ==
  Query("PRStats", <<Gives("Reviewers", PRReviewers(request.pr)),
                     Gives("Reassignments", PRHistory(request.pr)),
                     Needs("Status", PRRow(request.pr), "ErrPRNotFound")>>)
PRStats_HistoryFirst ==
  Query("PRStats", <<Needs("Status", PRRow(request.pr), "ErrPRNotFound"),
                     Gives("Reassignments", PRHistory(request.pr)),
                     Gives("Reviewers", PRReviewers(request.pr))>>)

\* TransferCount is the length of Reassignments.
PRStats ==
  Query("PRStats", <<Needs("Status", PRRow(request.pr), "ErrPRNotFound"),
                     Gives("Reviewers", PRReviewers(request.pr)),
                     Gives("Reassignments", PRHistory(request.pr))>>)

GetUserReviews ==
  Query("GetUserReviews", <<Gives("PRs", {ReviewedBy(Tables, request.user)})>>)

\* A query fails, or the deadline passes: the handler drops what it has.
QueryFails ==
  /\ err = Nil
  /\ err' = "internal"
  /\ UNCHANGED <<ledger, team, request, parts, past>>

-------------------------------------------------------------------------------
(* The writers: a step of TeamLedger commits while the report is made.     *)

Moved == {u \in User : team'[u] # team[u]}

Committed ==
  /\ Len(past) < MaxWrites[request]
  /\ past' = Append(past, Tables)
  /\ UNCHANGED <<request, parts, err>>

-------------------------------------------------------------------------------
StatsNext ==
  \/ Stats \/ StatsSummary \/ ReviewerStats \/ PRStats \/ GetUserReviews
  \/ QueryFails
  \/ \E p \in PR : (CreatePR(p) \/ MergePR(p) \/ ReassignReviewer(p)) /\ Committed
  \/ \E t \in Team : DeactivateTeam(t) /\ Committed
  \/ \E t \in Team : CreateTeam(t) /\ Cardinality(Moved) <= MaxMembers /\ Committed

StatsSpec == StatsInit /\ [][StatsNext]_vars

-------------------------------------------------------------------------------
(* Invariants.  A report is Made when its last field is there; the mapper  *)
(* hands every field over as it is, a list without rows as an empty one.   *)

StatsFields == {"ByUser", "ByPR", "ByStatus", "ByTeam"}
SummaryFields == {"TopReviewers", "PRStatusCounts", "TeamAssignments"}
ReviewerFields == {"UserID", "AssignCnt", "Counts", "RecentPRs"}
PRFields == {"Status", "Reviewers", "Reassignments"}

Fields(kind) ==
  CASE kind = "Stats"          -> StatsFields
    [] kind = "StatsSummary"   -> SummaryFields
    [] kind = "ReviewerStats"  -> ReviewerFields
    [] kind = "PRStats"        -> PRFields
    [] kind = "GetUserReviews" -> {"PRs"}

Made(kind) == request.kind = kind /\ DOMAIN parts = Fields(kind)

Total(f) == MapThenSumSet(LAMBDA k : f[k], DOMAIN f)

\* The tables keep their keys, and what a report shows of a PR has the types
\* of the API: a reassignment names the reviewer who left, the one who came
\* may be null.
TypeOK ==
  /\ \A p \in Rows(Tables) :
       /\ ledger[p] \in Record
       /\ \A u \in {ledger[p].author} \cup ledger[p].reviewers : team[u] # Nil
  /\ team \in [User -> Team \cup {Nil}]
  /\ request \in Requests
  /\ DOMAIN parts \subseteq Fields(request.kind)
  /\ err \in {Nil, "internal", "ErrUserNotFound", "ErrPRNotFound"}
  /\ Made("PRStats") =>
       /\ parts["Status"] \in {"OPEN", "MERGED"}
       /\ parts["Reviewers"] \subseteq User
       /\ parts["Reassignments"] \in Seq([old : User, new : User \cup {Nil}])

\* The number of recent PRs asked for, 10 when the parameter is left out.
ReviewerLimit ==
  IF request.limit = Nil \/ request.limit <= 0 THEN 10 ELSE request.limit

\* The three totals of assignments agree in a report during which nothing
\* was committed, and so do the counters of a reviewer: no join of stats.go
\* loses a row or counts one twice.
QuietTotalsAgree ==
  past = <<>> =>
    /\ Made("Stats") =>
         /\ Total(parts["ByUser"]) = Total(parts["ByPR"])
         /\ Total(parts["ByTeam"]) = Total(parts["ByPR"])
         /\ Total(parts["ByStatus"]) = Cardinality(Rows(Tables))
    /\ Made("ReviewerStats") =>
         /\ parts["AssignCnt"] = Total(parts["Counts"])
         /\ Cardinality(DOMAIN parts["RecentPRs"]) =
              IF parts["AssignCnt"] < ReviewerLimit THEN parts["AssignCnt"]
                                                    ELSE ReviewerLimit

\* What StatsFilter means, without placeholders.
InFilter(f, p) ==
  /\ f.from # Nil => CreatedAt[p] >= f.from
  /\ f.to # Nil => CreatedAt[p] <= f.to
  /\ f.status # Nil => ledger[p].status = f.status

\* Every placeholder of StatsSummary's three queries is bound to the
\* argument it is meant for, whichever of the filter's fields are set.
FilterIsExact ==
  Made("StatsSummary") /\ past = <<>> =>
    LET f == request.params
        n == IF f.limit = Nil \/ f.limit <= 0 THEN 10 ELSE f.limit
        W == {p \in Rows(Tables) : InFilter(f, p)}
        N == [u \in User |-> Cardinality({p \in W : u \in ledger[p].reviewers})]
        top == parts["TopReviewers"]
    IN /\ Total(parts["PRStatusCounts"]) = Cardinality(W)
       /\ Total(parts["TeamAssignments"]) = Total(N)
       /\ Cardinality(DOMAIN top) <= n
       /\ \A u \in DOMAIN top : top[u] = N[u]
       /\ \A u \in User \ DOMAIN top : N[u] > 0 =>
            /\ Cardinality(DOMAIN top) = n
            /\ \A v \in DOMAIN top : top[v] >= N[u]

\* Stats counts every PR that it shows with reviewers: the PRs are counted
\* after the reviewers, and no PR is ever deleted.
CountedPRsExist ==
  Made("Stats") => Cardinality(DOMAIN parts["ByPR"]) <= Total(parts["ByStatus"])

\* Over merged PRs the later numbers of a summary are never behind the
\* earlier ones: what is merged stays, and has at most two reviewers.
MergedTotalsGrow ==
  Made("StatsSummary") /\ request.params.status = "MERGED" =>
    /\ Total(parts["TopReviewers"]) <= Total(parts["TeamAssignments"])
    /\ Total(parts["TopReviewers"]) <= 2 * Total(parts["PRStatusCounts"])

\* A list of recent PRs that is not cut off shows all the merged PRs that
\* the same answer counts.
CountedMergedAreListed ==
  Made("ReviewerStats") =>
    LET recent == parts["RecentPRs"] IN
    Cardinality(DOMAIN recent) < ReviewerLimit =>
      parts["Counts"]["MERGED"]
        <= Cardinality({p \in DOMAIN recent : recent[p] = "MERGED"})

\* A report that calls a PR merged shows the reviewers and the history it
\* has for good: the status is read first.
MergedReportIsFinal ==
  Made("PRStats") /\ parts["Status"] = "MERGED" =>
    /\ parts["Reviewers"] = ledger[request.pr].reviewers
    /\ parts["Reassignments"] = ledger[request.pr].history

\* The reviewers before the changes in h that led to R.
Rewind(h, R) == FoldRight(LAMBDA e, S : (S \ {e.new}) \cup {e.old}, h, R)

\* The history in a PR's report goes at least as far as the reviewers in it:
\* the reported reviewers are those after the first k reported changes, and
\* whoever left since is in the rest.
HistoryExplainsReviewers ==
  Made("PRStats") =>
    \E s \in Seen :
      LET h == parts["Reassignments"]
          r == s.prs[request.pr]
      IN /\ r # Nil
         /\ r.history = h
         /\ \E k \in 0..Len(h) :
              Rewind(SubSeq(h, k + 1, Len(h)), r.reviewers) = parts["Reviewers"]

===============================================================================
