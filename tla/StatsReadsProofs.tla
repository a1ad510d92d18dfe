--------------------------- MODULE StatsReadsProofs ---------------------------
(***************************************************************************)
(* Proofs about StatsReads, for any tables, any report and any number of   *)
(* commits between its queries: what every report says.                    *)
(***************************************************************************)
EXTENDS StatsReads, DataLemmas

-------------------------------------------------------------------------------
(* The inductive invariant: the tables, how far the report has got, and    *)
(* for every kind of report what its parts say about the tables.           *)

\* What Tables may be.
Tables_ == [prs : [PR -> Record \cup {Nil}], team : [User -> Team \cup {Nil}]]

\* Every record is a sound one, and whom it names is there.
TablesOK ==
  /\ ledger \in [PR -> Record \cup {Nil}]
  /\ team \in [User -> Team \cup {Nil}]
  /\ \A p \in PR : ledger[p] # Nil =>
       /\ Sound(ledger[p])
       /\ \A u \in {ledger[p].author} \cup ledger[p].reviewers : team[u] # Nil
  /\ past \in Seq(Tables_)

\* The fields of an answer appear in the order of the queries.
Stages ==
  CASE request.kind = "Stats" ->
         {{}, {"ByUser"}, {"ByUser", "ByPR"}, {"ByUser", "ByPR", "ByStatus"},
          StatsFields}
    [] request.kind = "StatsSummary" ->
         {{}, {"TopReviewers"}, {"TopReviewers", "PRStatusCounts"},
          SummaryFields}
    [] request.kind = "ReviewerStats" ->
         {{}, {"UserID"}, {"UserID", "AssignCnt"},
          {"UserID", "AssignCnt", "Counts"}, ReviewerFields}
    [] request.kind = "PRStats" ->
         {{}, {"Status"}, {"Status", "Reviewers"}, PRFields}
    [] request.kind = "GetUserReviews" -> {{}, {"PRs"}}

\* How far the report has got.
Underway ==
  /\ request \in Requests
  /\ DOMAIN parts \in Stages
  /\ err \in {Nil, "internal", "ErrUserNotFound", "ErrPRNotFound"}

\* The query of this field has run.
Has(field) == field \in DOMAIN parts

\* Nothing was committed since the report was asked for.
Quiet == past = <<>>

\* The last changes of r's history lead from R to the reviewers of r.
Explains(r, R) ==
  \E k \in 0..Len(r.history) :
    Rewind(SubSeq(r.history, k + 1, Len(r.history)), r.reviewers) = R

\* A PR that was merged when its status was read has changed no more; the
\* reviewers read are explained by the record of now and, once the history
\* has been read, by a record the PR had meanwhile.
PRReport ==
  request.kind = "PRStats" =>
    LET r      == ledger[request.pr]
        merged == parts["Status"] = "MERGED"
    IN
    /\ Has("Status") =>
         /\ r # Nil
         /\ parts["Status"] \in {"OPEN", "MERGED"}
         /\ merged => r.status = "MERGED"
    /\ Has("Reviewers") =>
         /\ parts["Reviewers"] \in SUBSET User
         /\ merged => parts["Reviewers"] = r.reviewers
         /\ Explains(r, parts["Reviewers"])
    /\ Has("Reassignments") =>
         /\ parts["Reassignments"] \in Seq([old : User, new : User \cup {Nil}])
         /\ merged => parts["Reassignments"] = r.history
         /\ \E s \in Seen :
              /\ s.prs[request.pr] # Nil
              /\ s.prs[request.pr].history = parts["Reassignments"]
              /\ Explains(s.prs[request.pr], parts["Reviewers"])

\* Until something is committed the parts are those of the tables, and the
\* PRs counted by their reviewers are there for good.
StatsReport ==
  request.kind = "Stats" =>
    /\ Has("ByUser") /\ Quiet => parts["ByUser"] = ByUser(Tables, PR)
    /\ Has("ByPR") =>
         /\ Quiet => parts["ByPR"] = ByPR(Tables)
         /\ DOMAIN parts["ByPR"] \subseteq Rows(Tables)
    /\ Has("ByStatus") =>
         /\ Quiet => parts["ByStatus"] = ByStatus(Tables, PR)
         /\ Cardinality(DOMAIN parts["ByPR"]) <= Total(parts["ByStatus"])
    /\ Has("ByTeam") /\ Quiet => parts["ByTeam"] = ByTeam(Tables, PR)

\* The filter of a summary, after handler and use case, and what it selects.
TheFilter == SummaryStats(GetStatsSummary(request.params))
Selected == Where(Tables, Conditions(TheFilter), Args(TheFilter))

\* The same of a summary; over merged PRs, the reviews that the ranking counts
\* stay among those of the tables.
SummaryReport ==
  request.kind = "StatsSummary" =>
    LET merged == request.params.status = "MERGED"
        top    == Total(parts["TopReviewers"])
    IN
    /\ Has("TopReviewers") =>
         /\ Quiet => parts["TopReviewers"] \in TopReviewers(Tables, TheFilter)
         /\ merged => top \in Nat /\ top <= Cardinality(Reviews(Tables, Selected))
    /\ Has("PRStatusCounts") =>
         /\ Quiet => parts["PRStatusCounts"] = ByStatus(Tables, Selected)
         /\ merged => top <= 2 * Total(parts["PRStatusCounts"])
    /\ Has("TeamAssignments") =>
         /\ Quiet => parts["TeamAssignments"] = ByTeam(Tables, Selected)
         /\ merged => top <= Total(parts["TeamAssignments"])

\* The PRs that the user of the request reviews, and how many are listed.
TheReviews == ReviewedBy(Tables, request.user)
TheLimit == GetStatsReviewerUserId(request.limit)

\* The merged PRs u reviews.
MergedBy(u) ==
  {p \in PR : /\ ledger[p] # Nil /\ ledger[p].status = "MERGED"
              /\ u \in ledger[p].reviewers}

\* The counters ReviewerStats makes of the PRs in f.
StatusCounts(f) ==
  [s \in {"OPEN", "MERGED"} |-> Counted(CountBy(DOMAIN f, LAMBDA p : f[p]), s)]

\* The same of the report on a reviewer, whose merged PRs stay his.
ReviewerReport ==
  request.kind = "ReviewerStats" =>
    LET recent == parts["RecentPRs"] IN
    /\ Has("AssignCnt") /\ Quiet => parts["AssignCnt"] = Cardinality(DOMAIN TheReviews)
    /\ Has("Counts") =>
         /\ Quiet => parts["Counts"] = StatusCounts(TheReviews)
         /\ parts["Counts"]["MERGED"] \in 0..Cardinality(MergedBy(request.user))
    /\ Has("RecentPRs") =>
         /\ Quiet => recent \in Limited(TheReviews, CreatedAt, TheLimit)
         /\ Cardinality(DOMAIN recent) < TheLimit =>
              parts["Counts"]["MERGED"]
                <= Cardinality({p \in DOMAIN recent : recent[p] = "MERGED"})

StatsInv ==
  /\ TablesOK
  /\ Underway
  /\ PRReport
  /\ StatsReport
  /\ SummaryReport
  /\ ReviewerReport

-------------------------------------------------------------------------------
(* Records.                                                                *)

\* An entry of a history.
Event_ == [old : User, new : User \cup {Nil}]

\* Some users are finitely many.
LEMMA FiniteUsers ==
  ASSUME NEW S \in SUBSET User
  PROVE  IsFiniteSet(S) /\ Cardinality(S) \in Nat
BY FiniteAssumption, FS_Subset, FS_CardinalityType

\* And so are some PRs.
LEMMA FinitePRs ==
  ASSUME NEW S \in SUBSET PR
  PROVE  IsFiniteSet(S) /\ Cardinality(S) \in Nat
BY FiniteAssumption, FS_Subset, FS_CardinalityType

\* What the replacement of one reviewer makes of a record, and how it is
\* undone.
LEMMA ReplacedIs ==
  ASSUME NEW r \in Record, Sound(r), NEW old \in r.reviewers,
         NEW new, new \in Newcomers(r) \/ new = Nil,
         NEW q, q = Replaced(r, old, new)
  PROVE  /\ q \in Record /\ Sound(q)
         /\ q.author = r.author /\ q.status = r.status
         /\ q.history = Append(r.history, [old |-> old, new |-> new])
         /\ [old |-> old, new |-> new] \in Event_
         /\ (q.reviewers \ {new}) \cup {old} = r.reviewers
<1> DEFINE e == [old |-> old, new |-> new]
<1>1. /\ r.author \in User /\ r.status \in {"OPEN", "MERGED"}
      /\ r.reviewers \in SUBSET User /\ r.history \in Seq(Event_)
      /\ r.author \notin r.reviewers /\ Cardinality(r.reviewers) <= 2
  BY DEF Record, Sound, Event_
<1>2. /\ old \in User /\ new \in User \cup {Nil}
      /\ new \notin r.reviewers /\ new # r.author
  BY <1>1, NilAssumption DEF Newcomers
<1>3. e \in Event_
  BY <1>2 DEF Event_
<1>4. /\ q.author = r.author /\ q.status = r.status
      /\ q.reviewers = (r.reviewers \ {old}) \cup ({new} \ {Nil})
      /\ q.history = Append(r.history, e)
      /\ q = [author |-> q.author, status |-> q.status,
              reviewers |-> q.reviewers, history |-> q.history]
  BY DEF Replaced, Record
<1>5. q.reviewers \in SUBSET User /\ q.author \notin q.reviewers
  BY <1>1, <1>2, <1>4
<1> HIDE DEF e
<1>6. q.history \in Seq(Event_)
  BY <1>1, <1>3, <1>4
<1>7. q \in Record
  BY <1>1, <1>4, <1>5, <1>6 DEF Record, Event_
<1>8. Cardinality(q.reviewers) <= 2
  <2> DEFINE S == r.reviewers \ {old}
  <2>1. IsFiniteSet(r.reviewers) /\ Cardinality(r.reviewers) \in Nat
    BY <1>1, FiniteUsers
  <2>2. /\ IsFiniteSet(S) /\ Cardinality(S) \in Nat
        /\ Cardinality(S) = Cardinality(r.reviewers) - 1
    BY <2>1, FS_RemoveElement, FS_CardinalityType
  <2>3. q.reviewers = S \/ q.reviewers = S \cup {new}
    BY <1>4
  <2> HIDE DEF S
  <2>4. Cardinality(S \cup {new}) \in {Cardinality(S), Cardinality(S) + 1}
    BY <2>2, FS_AddElement
  <2>5. CASE q.reviewers = S
    BY <1>1, <2>1, <2>2, <2>5
  <2>6. CASE q.reviewers = S \cup {new}
    BY <1>1, <2>1, <2>2, <2>4, <2>6
  <2> QED BY <2>3, <2>5, <2>6
<1>9. (q.reviewers \ {new}) \cup {old} = r.reviewers
  BY <1>1, <1>2, <1>4, NilAssumption
<1> QED
  BY <1>3, <1>4, <1>5, <1>7, <1>8, <1>9 DEF Sound, e

\* The same, for any replacement.
LEMMA ChangedIs ==
  ASSUME NEW r \in Record, Sound(r), NEW q \in Changed(r)
  PROVE  /\ q \in Record /\ Sound(q)
         /\ q.author = r.author /\ q.status = r.status
<1>1. PICK old \in r.reviewers, new \in Newcomers(r) \cup {Nil} :
        q = Replaced(r, old, new)
  BY DEF Changed
<1>2. new \in Newcomers(r) \/ new = Nil
  OBVIOUS
<1>3. q \in Record /\ Sound(q)
  BY <1>1, <1>2, ReplacedIs
<1>4. q.author = r.author /\ q.status = r.status
  BY <1>1 DEF Replaced, Record
<1> QED
  BY <1>3, <1>4

\* What the next record q of a PR may be that has record r: the same, merged,
\* or with one or two reviewers replaced.
Grown(r, q) ==
  \/ q = r
  \/ r.status = "OPEN" /\ (q = [r EXCEPT !.status = "MERGED"] \/ q \in HandedOver(r))

\* It is a record like those before.
LEMMA GrownIs ==
  ASSUME NEW r \in Record, Sound(r), NEW q, Grown(r, q)
  PROVE  /\ q \in Record /\ Sound(q) /\ q.author = r.author
         /\ r.status = "MERGED" => q = r
<1>1. CASE q = r
  BY <1>1
<1>2. CASE q = [r EXCEPT !.status = "MERGED"] /\ r.status = "OPEN"
  BY <1>2 DEF Record, Sound
<1>3. CASE q \in HandedOver(r) /\ r.status = "OPEN"
  <2>2. \/ q \in Changed(r)
        \/ \E s \in Changed(r) : q \in Changed(s)
    BY <1>3 DEF HandedOver
  <2> QED BY <1>3, <2>2, ChangedIs
<1> QED
  BY <1>1, <1>2, <1>3 DEF Grown

-------------------------------------------------------------------------------
(* The writers.                                                            *)

\* The users a record names are there.
KnownIn(r, tm) == \A u \in {r.author} \cup r.reviewers : tm[u] # Nil

\* What a commit does to the tables.
Effect ==
  /\ ledger' \in [PR -> Record \cup {Nil}]
  /\ team' \in [User -> Team \cup {Nil}]
  /\ \A u \in User : team[u] # Nil => team'[u] # Nil
  /\ \A p \in PR : ledger'[p] # Nil => Sound(ledger'[p]) /\ KnownIn(ledger'[p], team')
  /\ \A p \in PR : ledger[p] # Nil =>
       ledger'[p] # Nil /\ Grown(ledger[p], ledger'[p])

\* A record that is there is a sound one, of users that are there.
LEMMA RecordIs ==
  ASSUME TablesOK, NEW p \in PR, ledger[p] # Nil
  PROVE  /\ ledger[p] \in Record /\ Sound(ledger[p]) /\ KnownIn(ledger[p], team)
         /\ ledger[p].author \in User /\ ledger[p].status \in {"OPEN", "MERGED"}
         /\ ledger[p].reviewers \in SUBSET User
         /\ ledger[p].history \in Seq(Event_)
BY DEF TablesOK, Record, KnownIn, Event_

\* A commit that changes one record, to a good one.
LEMMA OneRecord ==
  ASSUME TablesOK, NEW p \in PR, NEW q \in Record, Sound(q), KnownIn(q, team),
         ledger[p] = Nil \/ Grown(ledger[p], q),
         ledger' = [ledger EXCEPT ![p] = q], team' = team
  PROVE  Effect
<1>1. /\ ledger \in [PR -> Record \cup {Nil}] /\ team \in [User -> Team \cup {Nil}]
      /\ q # Nil
  BY NilAssumption DEF TablesOK
<1>2. ledger' \in [PR -> Record \cup {Nil}]
  BY <1>1
<1>3. ledger'[p] = q /\ \A o \in PR : o # p => ledger'[o] = ledger[o]
  BY <1>1
<1>4. \A o \in PR : ledger[o] # Nil => Sound(ledger[o]) /\ KnownIn(ledger[o], team)
  BY RecordIs
<1>5. ASSUME NEW o \in PR, ledger'[o] # Nil
      PROVE  Sound(ledger'[o]) /\ KnownIn(ledger'[o], team')
  <2>1. Sound(ledger'[o]) /\ KnownIn(ledger'[o], team)
    BY <1>3, <1>4, <1>5
  <2> QED BY <2>1 DEF KnownIn
<1>6. ASSUME NEW o \in PR, ledger[o] # Nil
      PROVE  ledger'[o] # Nil /\ Grown(ledger[o], ledger'[o])
  <2>1. CASE o = p
    BY <1>1, <1>3, <1>6, <2>1
  <2>2. CASE o # p
    BY <1>3, <1>6, <2>2 DEF Grown
  <2> QED BY <2>1, <2>2
<1> QED
  BY <1>1, <1>2, <1>5, <1>6 DEF Effect

\* CreatePR inserts a record of its own.
LEMMA CreateEffect ==
  ASSUME TablesOK, NEW p \in PR, CreatePR(p)
  PROVE  Effect
<1>1. PICK a \in User, R \in SUBSET User :
        LET r == [author |-> a, status |-> "OPEN", reviewers |-> R,
                  history |-> <<>>]
        IN /\ Sound(r)
           /\ Known(r)
           /\ ledger' = [ledger EXCEPT ![p] = r]
  BY DEF CreatePR
<1> DEFINE r == [author |-> a, status |-> "OPEN", reviewers |-> R, history |-> <<>>]
<1>2. r \in Record /\ Sound(r) /\ KnownIn(r, team)
  BY <1>1 DEF Record, Known, KnownIn
<1>3. ledger[p] = Nil /\ team' = team /\ ledger' = [ledger EXCEPT ![p] = r]
  BY <1>1 DEF CreatePR
<1> HIDE DEF r
<1> QED
  BY <1>2, <1>3, OneRecord

\* MergePR closes one.
LEMMA MergeEffect ==
  ASSUME TablesOK, NEW p \in PR, MergePR(p)
  PROVE  Effect
<1> DEFINE r == ledger[p]
<1>1. /\ ledger[p] # Nil /\ r.status = "OPEN" /\ team' = team
      /\ ledger' = [ledger EXCEPT ![p].status = "MERGED"]
  BY DEF MergePR, Merge, IsOpen
<1>2. r \in Record /\ Sound(r) /\ KnownIn(r, team)
  BY <1>1, RecordIs
<1>3. PICK q : q = [r EXCEPT !.status = "MERGED"]
  OBVIOUS
<1>4. Grown(r, q)
  BY <1>1, <1>3 DEF Grown
<1>5. q \in Record /\ Sound(q)
  BY <1>2, <1>4, GrownIs
<1>6. KnownIn(q, team)
  BY <1>2, <1>3 DEF KnownIn, Record
<1>7. ledger' = [ledger EXCEPT ![p] = q]
  BY <1>1, <1>3
<1> QED
  BY <1>1, <1>4, <1>5, <1>6, <1>7, OneRecord

\* ReassignReviewer replaces one reviewer.
LEMMA ReassignEffect ==
  ASSUME TablesOK, NEW p \in PR, ReassignReviewer(p)
  PROVE  Effect
<1> DEFINE r == ledger[p]
<1>1. ledger[p] # Nil /\ r.status = "OPEN" /\ team' = team
  BY DEF ReassignReviewer, Reassign, IsOpen
<1>2. r \in Record /\ Sound(r) /\ KnownIn(r, team)
  BY <1>1, RecordIs
<1>3. PICK old \in r.reviewers, new \in Newcomers(r) :
        ledger' = [ledger EXCEPT ![p] = Replaced(@, old, new)]
  BY DEF ReassignReviewer, Reassign
<1>4. PICK q : q = Replaced(r, old, new)
  OBVIOUS
<1>5. q \in Changed(r)
  BY <1>3, <1>4 DEF Changed
<1>6. Grown(r, q)
  BY <1>1, <1>5 DEF Grown, HandedOver
<1>7. q \in Record /\ Sound(q)
  BY <1>2, <1>6, GrownIs
<1>8. ledger' = [ledger EXCEPT ![p] = q]
  BY <1>3, <1>4
<1>9. ledger'[p] = q
  BY <1>8 DEF TablesOK
<1>10. KnownIn(q, team)
  BY <1>9 DEF Known, KnownIn, ReassignReviewer
<1> QED
  BY <1>1, <1>6, <1>7, <1>8, <1>10, OneRecord

\* Whoever is relieved of a review is replaced or removed.
LEMMA RelievedIs ==
  ASSUME NEW r, NEW S
  PROVE  Relieved(r, S) \subseteq Changed(r)
BY DEF Relieved, Changed

\* Handing the reviews of S over is a hand-over.
LEMMA ClearedIs ==
  ASSUME NEW r, NEW S, NEW q \in Cleared(r, S)
  PROVE  q \in HandedOver(r) /\ Known(q)
<1>1. /\ Known(q)
      /\ q \in Relieved(r, S) \/ \E s \in Relieved(r, S) : q \in Relieved(s, S)
  BY DEF Cleared
<1>2. CASE q \in Relieved(r, S)
  BY <1>1, <1>2, RelievedIs DEF HandedOver
<1>3. ASSUME NEW s \in Relieved(r, S), q \in Relieved(s, S)
      PROVE  q \in HandedOver(r)
  <2>1. s \in Changed(r) /\ q \in Changed(s)
    BY <1>3, RelievedIs
  <2> QED BY <2>1 DEF HandedOver
<1> QED
  BY <1>1, <1>2, <1>3

\* DeactivateTeam hands over the reviews of some users, in any number of PRs.
LEMMA DeactivateEffect ==
  ASSUME TablesOK, NEW t \in Team, DeactivateTeam(t)
  PROVE  Effect
<1>1. PICK S \in SUBSET {u \in User : team[u] = t} :
        \E hit \in SUBSET Impacted(S) :
          /\ \E l \in [hit -> UNION {Cleared(ledger[p], S) : p \in hit}] :
               /\ \A p \in hit : l[p] \in Cleared(ledger[p], S)
               /\ ledger' = [p \in PR |-> IF p \in hit THEN l[p] ELSE ledger[p]]
          /\ UNCHANGED team
  BY DEF DeactivateTeam
<1>2. PICK hit \in SUBSET Impacted(S) :
        /\ \E l \in [hit -> UNION {Cleared(ledger[p], S) : p \in hit}] :
             /\ \A p \in hit : l[p] \in Cleared(ledger[p], S)
             /\ ledger' = [p \in PR |-> IF p \in hit THEN l[p] ELSE ledger[p]]
        /\ UNCHANGED team
  BY <1>1
<1>3. /\ hit \subseteq PR /\ team' = team
      /\ \A p \in hit : ledger'[p] \in Cleared(ledger[p], S)
      /\ \A p \in PR \ hit : ledger'[p] = ledger[p]
      /\ ledger' = [p \in PR |-> ledger'[p]]
  BY <1>2 DEF Impacted
<1>4. ASSUME NEW p \in hit
      PROVE  /\ ledger'[p] \in Record /\ Sound(ledger'[p])
             /\ KnownIn(ledger'[p], team')
             /\ Grown(ledger[p], ledger'[p])
  <2>1. ledger[p] # Nil /\ ledger[p].status = "OPEN" /\ p \in PR
    BY <1>2, <1>4 DEF IsOpen, Impacted
  <2>2. PICK r : r = ledger[p]
    OBVIOUS
  <2>3. r \in Record /\ Sound(r)
    BY <2>1, <2>2, RecordIs
  <2>4. PICK q : q = ledger'[p]
    OBVIOUS
  <2>5. q \in HandedOver(r) /\ Known(q)
    BY <1>3, <2>2, <2>4, ClearedIs
  <2>6. Grown(r, q)
    BY <2>1, <2>2, <2>5 DEF Grown
  <2>7. q \in Record /\ Sound(q)
    BY <2>3, <2>6, GrownIs
  <2>8. KnownIn(q, team')
    BY <1>3, <2>5 DEF Known, KnownIn
  <2> QED BY <2>2, <2>4, <2>6, <2>7, <2>8
<1>5. ledger' \in [PR -> Record \cup {Nil}]
  <2>1. \A p \in PR : ledger'[p] \in Record \cup {Nil}
    BY <1>3, <1>4 DEF TablesOK
  <2> QED BY <1>3, <2>1
<1>6. ASSUME NEW p \in PR, ledger'[p] # Nil
      PROVE  Sound(ledger'[p]) /\ KnownIn(ledger'[p], team')
  <2>1. CASE p \in hit
    BY <1>4, <2>1
  <2>2. CASE p \notin hit
    <3>1. ledger'[p] = ledger[p]
      BY <1>3, <2>2
    <3>2. Sound(ledger[p]) /\ KnownIn(ledger[p], team)
      BY <1>6, <3>1, RecordIs
    <3> QED BY <1>3, <3>1, <3>2
  <2> QED BY <2>1, <2>2
<1>7. ASSUME NEW p \in PR, ledger[p] # Nil
      PROVE  ledger'[p] # Nil /\ Grown(ledger[p], ledger'[p])
  <2>1. CASE p \in hit
    BY <1>4, <2>1, NilAssumption
  <2>2. CASE p \notin hit
    BY <1>3, <1>7, <2>2 DEF Grown
  <2> QED BY <2>1, <2>2
<1> QED
  BY <1>3, <1>5, <1>6, <1>7 DEF Effect, TablesOK

\* CreateTeam takes users over.
LEMMA TeamEffect ==
  ASSUME TablesOK, NEW t \in Team, CreateTeam(t)
  PROVE  Effect
<1>1. PICK M : /\ ledger' = ledger
               /\ team' = [u \in User |-> IF u \in M THEN t ELSE team[u]]
  BY DEF CreateTeam
<1>2. /\ team' \in [User -> Team \cup {Nil}] /\ t # Nil
      /\ \A u \in User : team[u] # Nil => team'[u] # Nil
  BY <1>1, NilAssumption DEF TablesOK
<1>3. ASSUME NEW p \in PR, ledger[p] # Nil
      PROVE  /\ Sound(ledger[p]) /\ KnownIn(ledger[p], team')
             /\ Grown(ledger[p], ledger[p])
  <2>1. /\ Sound(ledger[p]) /\ KnownIn(ledger[p], team)
        /\ ledger[p].author \in User /\ ledger[p].reviewers \in SUBSET User
    BY <1>3, RecordIs
  <2>2. KnownIn(ledger[p], team')
    BY <1>2, <2>1 DEF KnownIn
  <2> QED BY <2>1, <2>2 DEF Grown
<1> QED
  BY <1>1, <1>2, <1>3 DEF Effect, TablesOK

\* The steps of all writers.
Writes ==
  /\ \/ \E p \in PR : CreatePR(p) \/ MergePR(p) \/ ReassignReviewer(p)
     \/ \E t \in Team : DeactivateTeam(t) \/ CreateTeam(t)
  /\ Committed

\* The report under way notices nothing but that the tables of before are past.
LEMMA WriterIs ==
  ASSUME TablesOK, Writes
  PROVE  /\ Effect
         /\ UNCHANGED <<request, parts, err>>
         /\ past' = Append(past, Tables)
<1>1. Effect
  BY CreateEffect, MergeEffect, ReassignEffect, DeactivateEffect, TeamEffect
     DEF Writes
<1> QED
  BY <1>1 DEF Writes, Committed

\* The tables stay as they have to be.
LEMMA WriterTables ==
  ASSUME TablesOK, Writes
  PROVE  /\ TablesOK' /\ past' # <<>> /\ Seen \subseteq Seen'
         /\ past' \in Seq(Tables_)
<1>1. Effect /\ past' = Append(past, Tables)
  BY WriterIs
<1>2. Tables \in Tables_ /\ past \in Seq(Tables_)
  BY DEF TablesOK, Tables, Tables_
<1>3. past' \in Seq(Tables_) /\ past' # <<>>
  BY <1>1, <1>2, AppendProperties
<1>4. TablesOK'
  BY <1>1, <1>3 DEF TablesOK, Effect, KnownIn, Tables_
<1>5. Range(past) \cup {Tables} = Range(past')
  <2>1. /\ Len(past) \in Nat /\ DOMAIN past = 1..Len(past)
        /\ DOMAIN past' = 1..(Len(past) + 1)
        /\ \A i \in 1..Len(past) : past'[i] = past[i]
        /\ past'[Len(past) + 1] = Tables
    BY <1>1, <1>2, AppendProperties, LenProperties
  <2> QED BY <2>1 DEF Range
<1> QED
  BY <1>3, <1>4, <1>5 DEF Seen

-------------------------------------------------------------------------------
(* The queries of a report.                                                *)

\* An answer without fields has none,
LEMMA NoFields == Cardinality({}) = 0
BY FS_EmptySet, Zenon

\* one with one has one,
LEMMA OneField ==
  ASSUME NEW a
  PROVE  IsFiniteSet({a}) /\ Cardinality({a}) = 1
BY FS_Singleton

\* and one with two different ones has two.
LEMMA TwoFields ==
  ASSUME NEW a, NEW b, a # b
  PROVE  IsFiniteSet({a, b}) /\ Cardinality({a, b}) = 2
<1> DEFINE S == {a}
<1>1. IsFiniteSet(S) /\ Cardinality(S) = 1 /\ b \notin S
  BY OneField
<1>2. {a, b} = S \cup {b}
  OBVIOUS
<1> HIDE DEF S
<1>3. IsFiniteSet(S \cup {b}) /\ Cardinality(S \cup {b}) = 1 + 1
  BY <1>1, FS_AddElement
<1> QED
  BY <1>2, <1>3

\* How a report may end.
Errors == {Nil, "internal", "ErrUserNotFound", "ErrPRNotFound"}

\* The answer gets a field.
Adds(field, r) ==
  /\ DOMAIN parts' = DOMAIN parts \cup {field}
  /\ parts'[field] = r
  /\ \A x \in DOMAIN parts : x # field => parts'[x] = parts[x]

\* A report makes its n-th query.
LEMMA QueryIs ==
  ASSUME NEW kind, NEW queries, Query(kind, queries),
         NEW n, Cardinality(DOMAIN parts) + 1 = n
  PROVE  /\ request.kind = kind /\ Cardinality(DOMAIN parts) < Len(queries)
         /\ UNCHANGED <<ledger, team, request, past>>
         /\ \/ \E r \in queries[n].results :
                 Adds(queries[n].field, r) /\ err' = Nil
            \/ parts' = parts /\ err' = queries[n].noRows
<1> DEFINE m == Cardinality(DOMAIN parts) + 1
           next == queries[m]
<1>1. /\ request.kind = kind /\ Cardinality(DOMAIN parts) < Len(queries)
      /\ UNCHANGED <<ledger, team, request, past>>
      /\ err = Nil
      /\ \/ \E r \in next.results :
              /\ parts' = [x \in (DOMAIN parts) \cup {next.field} |->
                             IF x = next.field THEN r ELSE parts[x]]
              /\ UNCHANGED err
         \/ next.results = {} /\ err' = next.noRows /\ UNCHANGED parts
  BY Zenon DEF Query
<1> HIDE DEF next
<1>2. ASSUME NEW r \in next.results,
             parts' = [x \in (DOMAIN parts) \cup {next.field} |->
                             IF x = next.field THEN r ELSE parts[x]]
      PROVE  Adds(next.field, r)
  BY <1>2 DEF Adds
<1>3. next = queries[n]
  BY DEF next
<1> QED
  BY <1>1, <1>2, <1>3, Zenon

\* What a query does to the report, when q is the next one.
Answers(q) ==
  /\ UNCHANGED <<ledger, team, request, past>>
  /\ \/ \E r \in q.results : Adds(q.field, r) /\ err' = Nil
     \/ parts' = parts /\ err' = q.noRows

\* The fields of an answer that is made of three queries, or of four.
OfThree(x, y, z) == {{}, {x}, {x, y}, {x, y, z}}
OfFour(x, y, z, w) == {{}, {x}, {x, y}, {x, y, z}, {x, y, z, w}}

\* They are told apart.
Distinct(x, y, z) == x # y /\ x # z /\ y # z

AskThree(q, x, y, z) ==
  /\ Len(q) = 3 /\ Distinct(x, y, z)
  /\ q[1].field = x /\ q[2].field = y /\ q[3].field = z

AskFour(q, x, y, z, w) ==
  /\ Len(q) = 4 /\ Distinct(x, y, z) /\ w \notin {x, y, z}
  /\ q[1].field = x /\ q[2].field = y /\ q[3].field = z /\ q[4].field = w

\* Three fields are that many.
LEMMA ThreeFields ==
  ASSUME NEW a, NEW b, NEW c, Distinct(a, b, c)
  PROVE  IsFiniteSet({a, b, c}) /\ Cardinality({a, b, c}) = 3
<1> DEFINE S == {a, b}
<1>1. IsFiniteSet(S) /\ Cardinality(S) = 2 /\ c \notin S
  BY TwoFields DEF Distinct
<1>2. {a, b, c} = S \cup {c}
  OBVIOUS
<1> HIDE DEF S
<1>3. IsFiniteSet(S \cup {c}) /\ Cardinality(S \cup {c}) = 2 + 1
  BY <1>1, FS_AddElement
<1> QED
  BY <1>2, <1>3

\* A report of three queries makes them one after another.
LEMMA ThreeQueries ==
  ASSUME NEW kind, NEW q, Query(kind, q),
         NEW x, NEW y, NEW z, AskThree(q, x, y, z),
         DOMAIN parts \in OfThree(x, y, z)
  PROVE  /\ request.kind = kind
         /\ \/ DOMAIN parts = {} /\ Answers(q[1])
            \/ DOMAIN parts = {x} /\ Answers(q[2])
            \/ DOMAIN parts = {x, y} /\ Answers(q[3])
<1> DEFINE n == Cardinality(DOMAIN parts) + 1
<1>1. Cardinality({}) = 0 /\ Cardinality({x}) = 1
  BY NoFields, OneField
<1>2. Cardinality({x, y}) = 2
  BY TwoFields, Zenon DEF AskThree, Distinct
<1>3. Cardinality({x, y, z}) = 3
  BY ThreeFields, Zenon DEF AskThree
<1>4. /\ request.kind = kind /\ Cardinality(DOMAIN parts) < 3
      /\ Answers(q[n])
  BY QueryIs, Zenon DEF Answers, AskThree
<1>5. \/ DOMAIN parts = {} \/ DOMAIN parts = {x} \/ DOMAIN parts = {x, y}
      \/ DOMAIN parts = {x, y, z}
  BY DEF OfThree
<1>6. CASE DOMAIN parts = {}
  <2>1. n = 1
    BY <1>1, <1>6
  <2> QED BY <1>4, <1>6, <2>1, Zenon
<1>7. CASE DOMAIN parts = {x}
  <2>1. n = 2
    BY <1>1, <1>7
  <2> QED BY <1>4, <1>7, <2>1, Zenon
<1>8. CASE DOMAIN parts = {x, y}
  <2>1. n = 3
    BY <1>2, <1>8
  <2> QED BY <1>4, <1>8, <2>1, Zenon
<1>9. DOMAIN parts # {x, y, z}
  <2>1. ~(3 < 3)
    OBVIOUS
  <2> QED BY <1>3, <1>4, <2>1, Zenon
<1> QED
  BY <1>5, <1>6, <1>7, <1>8, <1>9, Zenon

\* And so does one of four queries.
LEMMA FourQueries ==
  ASSUME NEW kind, NEW q, Query(kind, q),
         NEW x, NEW y, NEW z, NEW w, AskFour(q, x, y, z, w),
         DOMAIN parts \in OfFour(x, y, z, w)
  PROVE  /\ request.kind = kind
         /\ \/ DOMAIN parts = {} /\ Answers(q[1])
            \/ DOMAIN parts = {x} /\ Answers(q[2])
            \/ DOMAIN parts = {x, y} /\ Answers(q[3])
            \/ DOMAIN parts = {x, y, z} /\ Answers(q[4])
<1> DEFINE n == Cardinality(DOMAIN parts) + 1
<1>1. Cardinality({}) = 0 /\ Cardinality({x}) = 1
  BY NoFields, OneField
<1>2. Cardinality({x, y}) = 2
  BY TwoFields, Zenon DEF AskFour, Distinct
<1>3. Cardinality({x, y, z}) = 3
  BY ThreeFields, Zenon DEF AskFour
<1>4. Cardinality({x, y, z, w}) = 4
  <2> DEFINE S == {x, y, z}
  <2>1. IsFiniteSet(S) /\ Cardinality(S) = 3 /\ w \notin S
    BY ThreeFields DEF AskFour
  <2>2. {x, y, z, w} = S \cup {w}
    OBVIOUS
  <2> HIDE DEF S
  <2>3. Cardinality(S \cup {w}) = 3 + 1
    BY <2>1, FS_AddElement
  <2> QED BY <2>2, <2>3
<1>5. /\ request.kind = kind /\ Cardinality(DOMAIN parts) < 4
      /\ Answers(q[n])
  BY QueryIs, Zenon DEF Answers, AskFour
<1>6. \/ DOMAIN parts = {} \/ DOMAIN parts = {x} \/ DOMAIN parts = {x, y}
      \/ DOMAIN parts = {x, y, z} \/ DOMAIN parts = {x, y, z, w}
  BY DEF OfFour
<1>7. CASE DOMAIN parts = {}
  <2>1. n = 1
    BY <1>1, <1>7
  <2> QED BY <1>5, <1>7, <2>1, Zenon
<1>8. CASE DOMAIN parts = {x}
  <2>1. n = 2
    BY <1>1, <1>8
  <2> QED BY <1>5, <1>8, <2>1, Zenon
<1>9. CASE DOMAIN parts = {x, y}
  <2>1. n = 3
    BY <1>2, <1>9
  <2> QED BY <1>5, <1>9, <2>1, Zenon
<1>10. CASE DOMAIN parts = {x, y, z}
  <2>1. n = 4
    BY <1>3, <1>10
  <2> QED BY <1>5, <1>10, <2>1, Zenon
<1>11. DOMAIN parts # {x, y, z, w}
  <2>1. ~(4 < 4)
    OBVIOUS
  <2> QED BY <1>4, <1>5, <2>1, Zenon
<1> QED
  BY <1>6, <1>7, <1>8, <1>9, <1>10, <1>11, Zenon

\* PRStats asks for the row, the reviewers and the history of a PR.
LEMMA PRStatsIs ==
  ASSUME Underway, PRStats
  PROVE  /\ request.kind = "PRStats"
         /\ \/ DOMAIN parts = {}
               /\ Answers(Needs("Status", PRRow(request.pr), "ErrPRNotFound"))
            \/ DOMAIN parts = {"Status"}
               /\ Answers(Gives("Reviewers", PRReviewers(request.pr)))
            \/ DOMAIN parts = {"Status", "Reviewers"}
               /\ Answers(Gives("Reassignments", PRHistory(request.pr)))
<1>1. PICK q : q = <<Needs("Status", PRRow(request.pr), "ErrPRNotFound"),
                    Gives("Reviewers", PRReviewers(request.pr)),
                    Gives("Reassignments", PRHistory(request.pr))>>
  OBVIOUS
<1>2. Query("PRStats", q)
  BY <1>1 DEF PRStats
<1>3. Len(q) = 3
  BY <1>1
<1>4. /\ q[1] = Needs("Status", PRRow(request.pr), "ErrPRNotFound")
      /\ q[2] = Gives("Reviewers", PRReviewers(request.pr))
      /\ q[3] = Gives("Reassignments", PRHistory(request.pr))
  BY <1>1
<1>5. /\ q[1].field = "Status"
      /\ q[2].field = "Reviewers"
      /\ q[3].field = "Reassignments"
  BY <1>4 DEF Needs, Gives
<1>6. request.kind = "PRStats"
  BY <1>2, QueryIs
<1>7. DOMAIN parts \in OfThree("Status", "Reviewers", "Reassignments")
  BY <1>6 DEF Underway, Stages, OfThree, PRFields
<1>8. AskThree(q, "Status", "Reviewers", "Reassignments")
  BY <1>3, <1>5 DEF AskThree, Distinct
<1>9. \/ DOMAIN parts = {} /\ Answers(q[1])
      \/ DOMAIN parts = {"Status"} /\ Answers(q[2])
      \/ DOMAIN parts = {"Status", "Reviewers"} /\ Answers(q[3])
  BY <1>2, <1>7, <1>8, ThreeQueries
<1> QED
  BY <1>4, <1>6, <1>9, Zenon

\* Stats counts the reviews by user, by PR and by team, and the PRs by status
\* before the teams.
LEMMA StatsIs ==
  ASSUME Underway, Stats
  PROVE  /\ request.kind = "Stats"
         /\ \/ DOMAIN parts = {}
               /\ Answers(Gives("ByUser", {ByUser(Tables, PR)}))
            \/ DOMAIN parts = {"ByUser"}
               /\ Answers(Gives("ByPR", {ByPR(Tables)}))
            \/ DOMAIN parts = {"ByUser", "ByPR"}
               /\ Answers(Gives("ByStatus", {ByStatus(Tables, PR)}))
            \/ DOMAIN parts = {"ByUser", "ByPR", "ByStatus"}
               /\ Answers(Gives("ByTeam", {ByTeam(Tables, PR)}))
<1>1. PICK q : q = <<Gives("ByUser", {ByUser(Tables, PR)}),
                    Gives("ByPR", {ByPR(Tables)}),
                    Gives("ByStatus", {ByStatus(Tables, PR)}),
                    Gives("ByTeam", {ByTeam(Tables, PR)})>>
  OBVIOUS
<1>2. Query("Stats", q)
  BY <1>1 DEF Stats
<1>3. Len(q) = 4
  BY <1>1
<1>4. /\ q[1] = Gives("ByUser", {ByUser(Tables, PR)})
      /\ q[2] = Gives("ByPR", {ByPR(Tables)})
      /\ q[3] = Gives("ByStatus", {ByStatus(Tables, PR)})
      /\ q[4] = Gives("ByTeam", {ByTeam(Tables, PR)})
  BY <1>1
<1>5. /\ q[1].field = "ByUser"
      /\ q[2].field = "ByPR"
      /\ q[3].field = "ByStatus"
      /\ q[4].field = "ByTeam"
  BY <1>4 DEF Needs, Gives
<1>6. request.kind = "Stats"
  BY <1>2, QueryIs
<1>7. DOMAIN parts \in OfFour("ByUser", "ByPR", "ByStatus", "ByTeam")
  BY <1>6 DEF Underway, Stages, OfFour, StatsFields
<1>8. AskFour(q, "ByUser", "ByPR", "ByStatus", "ByTeam")
  BY <1>3, <1>5 DEF AskFour, Distinct
<1>9. \/ DOMAIN parts = {} /\ Answers(q[1])
      \/ DOMAIN parts = {"ByUser"} /\ Answers(q[2])
      \/ DOMAIN parts = {"ByUser", "ByPR"} /\ Answers(q[3])
      \/ DOMAIN parts = {"ByUser", "ByPR", "ByStatus"} /\ Answers(q[4])
  BY <1>2, <1>7, <1>8, FourQueries
<1> QED
  BY <1>4, <1>6, <1>9, Zenon

\* StatsSummary ranks the reviewers, and counts the PRs by status and the
\* reviews by team.
LEMMA SummaryIs ==
  ASSUME Underway, StatsSummary
  PROVE  /\ request.kind = "StatsSummary"
         /\ \/ DOMAIN parts = {}
               /\ Answers(Gives("TopReviewers", TopReviewers(Tables, TheFilter)))
            \/ DOMAIN parts = {"TopReviewers"}
               /\ Answers(Gives("PRStatusCounts", {ByStatus(Tables, Selected)}))
            \/ DOMAIN parts = {"TopReviewers", "PRStatusCounts"}
               /\ Answers(Gives("TeamAssignments", {ByTeam(Tables, Selected)}))
<1>1. PICK q : q = <<Gives("TopReviewers", TopReviewers(Tables, TheFilter)),
                    Gives("PRStatusCounts", {ByStatus(Tables, Selected)}),
                    Gives("TeamAssignments", {ByTeam(Tables, Selected)})>>
  OBVIOUS
<1>2. Query("StatsSummary", q)
  BY <1>1 DEF StatsSummary, TheFilter, Selected
<1>3. Len(q) = 3
  BY <1>1
<1>4. /\ q[1] = Gives("TopReviewers", TopReviewers(Tables, TheFilter))
      /\ q[2] = Gives("PRStatusCounts", {ByStatus(Tables, Selected)})
      /\ q[3] = Gives("TeamAssignments", {ByTeam(Tables, Selected)})
  BY <1>1
<1>5. /\ q[1].field = "TopReviewers"
      /\ q[2].field = "PRStatusCounts"
      /\ q[3].field = "TeamAssignments"
  BY <1>4 DEF Needs, Gives
<1>6. request.kind = "StatsSummary"
  BY <1>2, QueryIs
<1>7. DOMAIN parts \in OfThree("TopReviewers", "PRStatusCounts", "TeamAssignments")
  BY <1>6 DEF Underway, Stages, OfThree, SummaryFields
<1>8. AskThree(q, "TopReviewers", "PRStatusCounts", "TeamAssignments")
  BY <1>3, <1>5 DEF AskThree, Distinct
<1>9. \/ DOMAIN parts = {} /\ Answers(q[1])
      \/ DOMAIN parts = {"TopReviewers"} /\ Answers(q[2])
      \/ DOMAIN parts = {"TopReviewers", "PRStatusCounts"} /\ Answers(q[3])
  BY <1>2, <1>7, <1>8, ThreeQueries
<1> QED
  BY <1>4, <1>6, <1>9, Zenon

\* ReviewerStats looks for the user, counts the user's reviews, twice, and
\* lists the latest.
LEMMA ReviewerStatsIs ==
  ASSUME Underway, ReviewerStats
  PROVE  /\ request.kind = "ReviewerStats"
         /\ \/ DOMAIN parts = {}
               /\ Answers(Needs("UserID", UserExists(request.user), "ErrUserNotFound"))
            \/ DOMAIN parts = {"UserID"}
               /\ Answers(Gives("AssignCnt", {Cardinality(DOMAIN TheReviews)}))
            \/ DOMAIN parts = {"UserID", "AssignCnt"}
               /\ Answers(Gives("Counts", {StatusCounts(TheReviews)}))
            \/ DOMAIN parts = {"UserID", "AssignCnt", "Counts"}
               /\ Answers(Gives("RecentPRs", Limited(TheReviews, CreatedAt, TheLimit)))
<1>1. PICK q : q = <<Needs("UserID", UserExists(request.user), "ErrUserNotFound"),
                    Gives("AssignCnt", {Cardinality(DOMAIN TheReviews)}),
                    Gives("Counts", {StatusCounts(TheReviews)}),
                    Gives("RecentPRs", Limited(TheReviews, CreatedAt, TheLimit))>>
  OBVIOUS
<1>2. Query("ReviewerStats", q)
  BY <1>1 DEF ReviewerStats, StatusCounts, TheReviews, TheLimit
<1>3. Len(q) = 4
  BY <1>1
<1>4. /\ q[1] = Needs("UserID", UserExists(request.user), "ErrUserNotFound")
      /\ q[2] = Gives("AssignCnt", {Cardinality(DOMAIN TheReviews)})
      /\ q[3] = Gives("Counts", {StatusCounts(TheReviews)})
      /\ q[4] = Gives("RecentPRs", Limited(TheReviews, CreatedAt, TheLimit))
  BY <1>1
<1>5. /\ q[1].field = "UserID"
      /\ q[2].field = "AssignCnt"
      /\ q[3].field = "Counts"
      /\ q[4].field = "RecentPRs"
  BY <1>4 DEF Needs, Gives
<1>6. request.kind = "ReviewerStats"
  BY <1>2, QueryIs
<1>7. DOMAIN parts \in OfFour("UserID", "AssignCnt", "Counts", "RecentPRs")
  BY <1>6 DEF Underway, Stages, OfFour, ReviewerFields
<1>8. AskFour(q, "UserID", "AssignCnt", "Counts", "RecentPRs")
  BY <1>3, <1>5 DEF AskFour, Distinct
<1>9. \/ DOMAIN parts = {} /\ Answers(q[1])
      \/ DOMAIN parts = {"UserID"} /\ Answers(q[2])
      \/ DOMAIN parts = {"UserID", "AssignCnt"} /\ Answers(q[3])
      \/ DOMAIN parts = {"UserID", "AssignCnt", "Counts"} /\ Answers(q[4])
  BY <1>2, <1>7, <1>8, FourQueries
<1> QED
  BY <1>4, <1>6, <1>9, Zenon

\* GetUserReviews lists the reviews of a user.
LEMMA UserReviewsIs ==
  ASSUME Underway, GetUserReviews
  PROVE  /\ request.kind = "GetUserReviews" /\ DOMAIN parts = {}
         /\ Answers(Gives("PRs", {ReviewedBy(Tables, request.user)}))
<1>1. PICK a : a = Gives("PRs", {ReviewedBy(Tables, request.user)})
  OBVIOUS
<1>2. Query("GetUserReviews", <<a>>)
  BY <1>1 DEF GetUserReviews
<1>3. PICK q : q = <<a>>
  OBVIOUS
<1>4. PICK n : n = Cardinality(DOMAIN parts) + 1
  OBVIOUS
<1>5. /\ request.kind = "GetUserReviews" /\ Cardinality(DOMAIN parts) < Len(q)
      /\ Answers(q[n])
  BY <1>2, <1>3, <1>4, QueryIs DEF Answers
<1>6. DOMAIN parts = {} \/ DOMAIN parts = {"PRs"}
  BY <1>5 DEF Underway, Stages
<1>7. Len(q) = 1 /\ q[1] = a
  BY <1>3
<1>8. Cardinality({}) = 0 /\ Cardinality({"PRs"}) = 1
  BY NoFields, OneField
<1>9. DOMAIN parts = {} /\ n = 1
  BY <1>4, <1>5, <1>6, <1>7, <1>8
<1> QED
  BY <1>1, <1>5, <1>7, <1>9

-------------------------------------------------------------------------------
(* Rewinding a history.                                                    *)

\* What Rewind is defined by: g[s] are the reviewers before the changes whose
\* places in h are in s, for every s in D, the last change undone first.
RewoundBy(h, R, D, g) ==
  g = [s \in D |-> IF s = {} THEN R
                   ELSE (g[s \ {Min(s)}] \ {h[Min(s)].new}) \cup {h[Min(s)].old}]

\* A set of natural numbers has its least element.
LEMMA MinIs ==
  ASSUME NEW s \in SUBSET Nat, s # {}
  PROVE  Min(s) \in s /\ \A m \in s : Min(s) <= m
BY Least DEF Min

\* There are such reviewers for any places.
LEMMA SmallRewinds ==
  ASSUME NEW h, NEW R, NEW S \in SUBSET Nat, IsFiniteSet(S)
  PROVE  \A n \in Nat : \E g : RewoundBy(h, R, SmallSubsets(S, n), g)
<1> DEFINE D(n) == SmallSubsets(S, n)
           Bad == {n \in Nat : ~ \E g : RewoundBy(h, R, D(n), g)}
<1>1. ASSUME Bad # {} PROVE FALSE
  <2>1. PICK n \in Bad : \A m \in Bad : n <= m
    BY <1>1, Least
  <2>2. \A s \in D(n) : s \subseteq S /\ IsFiniteSet(s) /\ Cardinality(s) \in Nat
    BY FS_Subset, FS_CardinalityType DEF SmallSubsets
  <2>3. CASE n = 0
    <3> DEFINE g == [s \in D(0) |-> R]
    <3>1. \A s \in D(0) : s = {}
      BY <2>2, <2>3, FS_EmptySet DEF SmallSubsets
    <3>2. RewoundBy(h, R, D(0), g)
      BY <3>1 DEF RewoundBy
    <3> QED BY <2>1, <2>3, <3>2
  <2>4. CASE n # 0
    <3>1. n - 1 \in Nat /\ n - 1 \notin Bad
      BY <2>1, <2>4
    <3>2. PICK g : RewoundBy(h, R, D(n - 1), g)
      BY <3>1
    <3> DEFINE f == [s \in D(n) |->
                       IF s = {} THEN R
                       ELSE (g[s \ {Min(s)}] \ {h[Min(s)].new}) \cup {h[Min(s)].old}]
    <3>3. ASSUME NEW s \in D(n), s # {} PROVE s \ {Min(s)} \in D(n - 1)
      <4>1. Min(s) \in s
        BY <2>2, <3>3, MinIs
      <4>2. Cardinality(s \ {Min(s)}) = Cardinality(s) - 1
        BY <2>2, <4>1, FS_RemoveElement
      <4>3. Cardinality(s) <= n /\ n \in Nat /\ Cardinality(s) \in Nat /\ s \subseteq S
        BY <2>1, <2>2, <3>3 DEF SmallSubsets
      <4>4. Cardinality(s \ {Min(s)}) <= n - 1
        BY <4>2, <4>3
      <4> QED BY <4>3, <4>4 DEF SmallSubsets
    <3>4. D(n - 1) \subseteq D(n)
      <4>1. \A s \in SUBSET S : Cardinality(s) \in Nat
        BY FS_Subset, FS_CardinalityType
      <4> QED BY <2>1, <3>1, <4>1 DEF SmallSubsets
    <3>5. \A s \in D(n - 1) : f[s] = g[s]
      BY <3>2, <3>4 DEF RewoundBy
    <3>6. RewoundBy(h, R, D(n), f)
      <4> HIDE DEF D
      <4>1. \A s \in D(n) : s # {} => f[s \ {Min(s)}] = g[s \ {Min(s)}]
        BY <3>3, <3>5
      <4> QED BY <4>1 DEF RewoundBy
    <3> QED BY <2>1, <3>6
  <2> QED BY <2>3, <2>4
<1> QED
  BY <1>1

\* Rewind takes all places of the history.
LEMMA RewindIs ==
  ASSUME NEW T, NEW h \in Seq(T), NEW R
  PROVE  \E g : RewoundBy(h, R, SUBSET (DOMAIN h), g) /\ Rewind(h, R) = g[DOMAIN h]
<1> DEFINE S == DOMAIN h
           g == CHOOSE g : RewoundBy(h, R, SUBSET S, g)
<1>1. S \in SUBSET Nat /\ IsFiniteSet(S)
  <2>1. S = 1..Len(h) /\ Len(h) \in Nat
    BY LenProperties
  <2> QED BY <2>1, FS_Interval
<1> HIDE DEF S
<1>2. Cardinality(S) \in Nat /\ \A s \in SUBSET S : Cardinality(s) <= Cardinality(S)
  BY <1>1, FS_Subset, FS_CardinalityType
<1>3. SmallSubsets(S, Cardinality(S)) = SUBSET S
  BY <1>2 DEF SmallSubsets
<1>4. \E f : RewoundBy(h, R, SUBSET S, f)
  <2>1. \A n \in Nat : \E f : RewoundBy(h, R, SmallSubsets(S, n), f)
    BY <1>1, SmallRewinds
  <2>2. \E f : RewoundBy(h, R, SmallSubsets(S, Cardinality(S)), f)
    BY <1>2, <2>1
  <2> QED BY <1>3, <2>2, Zenon
<1>5. RewoundBy(h, R, SUBSET S, g)
  BY <1>4
<1>6. Rewind(h, R) = g[S]
  BY DEF Rewind, FoldRight, MapThenFoldSet, RewoundBy, S
<1> QED
  BY <1>5, <1>6 DEF S

\* Nothing is undone when nothing has changed.
LEMMA RewindEmpty ==
  ASSUME NEW R
  PROVE  Rewind(<<>>, R) = R
<1> DEFINE h == <<>>
<1>1. h \in Seq({}) /\ DOMAIN h = {}
  OBVIOUS
<1> HIDE DEF h
<1>2. PICK g : RewoundBy(h, R, SUBSET (DOMAIN h), g) /\ Rewind(h, R) = g[DOMAIN h]
  BY <1>1, RewindIs
<1>3. g[{}] = R
  BY <1>1, <1>2 DEF RewoundBy
<1> QED
  BY <1>1, <1>2, <1>3 DEF h

\* The last change is undone first.
LEMMA RewindAppend ==
  ASSUME NEW T, NEW h \in Seq(T), NEW e \in T, NEW R
  PROVE  Rewind(Append(h, e), R) = Rewind(h, (R \ {e.new}) \cup {e.old})
<1> DEFINE n == Len(h)
           S == 1..n
           long == Append(h, e)
           Q == (R \ {e.new}) \cup {e.old}
<1>1. /\ n \in Nat /\ DOMAIN h = S
      /\ long \in Seq(T) /\ DOMAIN long = S \cup {n + 1}
      /\ long[n + 1] = e /\ \A i \in S : long[i] = h[i]
  <2>1. /\ n \in Nat /\ DOMAIN h = S
        /\ long \in Seq(T) /\ Len(long) = n + 1 /\ DOMAIN long = 1..(n + 1)
        /\ long[n + 1] = e /\ \A i \in S : long[i] = h[i]
    BY AppendProperties, LenProperties
  <2>2. 1..(n + 1) = S \cup {n + 1}
    BY <2>1
  <2> QED BY <2>1, <2>2
<1>2. S \in SUBSET Nat /\ IsFiniteSet(S) /\ \A i \in S : i < n + 1
  <2>1. n \in Nat
    BY <1>1
  <2> HIDE DEF n
  <2>2. IsFiniteSet(1..n)
    BY <2>1, FS_Interval
  <2> QED BY <2>1, <2>2
<1> HIDE DEF long, S, Q, n
<1>3. PICK f : RewoundBy(long, R, SUBSET (DOMAIN long), f)
               /\ Rewind(long, R) = f[DOMAIN long]
  BY <1>1, RewindIs
<1>4. PICK g : RewoundBy(h, Q, SUBSET (DOMAIN h), g) /\ Rewind(h, Q) = g[DOMAIN h]
  BY <1>1, RewindIs
<1> DEFINE Bad == {m \in Nat : \E s \in SUBSET S :
                     Cardinality(s) = m /\ f[s \cup {n + 1}] # g[s]}
<1>5. \A s \in SUBSET S : IsFiniteSet(s) /\ Cardinality(s) \in Nat
  BY <1>2, FS_Subset, FS_CardinalityType
<1>6. ASSUME NEW s \in SUBSET S
      PROVE  /\ s \cup {n + 1} \in SUBSET (DOMAIN long)
             /\ Min(s \cup {n + 1}) = IF s = {} THEN n + 1 ELSE Min(s)
  <2>1. PICK t : t = s \cup {n + 1}
    OBVIOUS
  <2>2. t \in SUBSET Nat /\ t # {}
    BY <1>1, <1>2, <2>1
  <2>3. Min(t) \in t /\ \A m \in t : Min(t) <= m
    BY <2>2, MinIs
  <2>4. CASE s = {}
    BY <1>1, <2>1, <2>3, <2>4
  <2>5. CASE s # {}
    <3>1. Min(s) \in s /\ \A m \in s : Min(s) <= m
      BY <1>2, <2>5, MinIs
    <3>2. Min(t) <= Min(s) /\ Min(s) < n + 1 /\ Min(s) \in Nat /\ Min(t) \in Nat
      BY <1>2, <2>1, <2>2, <2>3, <3>1
    <3>3. Min(t) \in s
      BY <1>1, <2>1, <2>3, <3>2
    <3>4. Min(s) <= Min(t)
      BY <3>1, <3>3
    <3> QED BY <1>1, <2>1, <2>5, <3>2, <3>4
  <2> QED BY <2>4, <2>5
<1>7. ASSUME Bad # {} PROVE FALSE
  <2>1. PICK m \in Bad : \A k \in Bad : m <= k
    BY <1>7, Least
  <2>2. PICK s \in SUBSET S : Cardinality(s) = m /\ f[s \cup {n + 1}] # g[s]
    BY <2>1
  <2>3. CASE s = {}
    <3>1. f[{n + 1}] = (f[{}] \ {e.new}) \cup {e.old}
      <4>1. {n + 1} \in SUBSET (DOMAIN long) /\ Min({n + 1}) = n + 1
        BY <1>6, <2>3
      <4>2. PICK t : t = {n + 1}
        OBVIOUS
      <4>3. t \in SUBSET (DOMAIN long) /\ t # {} /\ Min(t) = n + 1 /\ t \ {n + 1} = {}
        BY <4>1, <4>2
      <4>4. f[t] = (f[t \ {n + 1}] \ {long[n + 1].new}) \cup {long[n + 1].old}
        BY <1>3, <4>3 DEF RewoundBy
      <4> QED BY <1>1, <4>2, <4>3, <4>4
    <3>2. f[{}] = R /\ g[{}] = Q
      BY <1>3, <1>4 DEF RewoundBy
    <3> QED BY <2>2, <2>3, <3>1, <3>2 DEF Q
  <2>4. CASE s # {}
    <3> DEFINE t == s \cup {n + 1}
               i == Min(s)
               r == s \ {i}
    <3>1. t \in SUBSET (DOMAIN long) /\ Min(t) = i /\ t # {}
      BY <1>6, <2>4
    <3>2. i \in s /\ i # n + 1 /\ long[i] = h[i]
      <4>1. i \in s
        BY <1>2, <2>4, MinIs
      <4>2. i \in S /\ i < n + 1 /\ i \in Nat
        BY <1>2, <4>1
      <4> QED BY <1>1, <4>1, <4>2
    <3>3. t \ {i} = r \cup {n + 1}
      BY <3>2
    <3>4. r \in SUBSET S /\ Cardinality(r) = m - 1
      BY <1>5, <2>2, <3>2, FS_RemoveElement
    <3> HIDE DEF t, i, r
    <3>5. f[t] = (f[t \ {i}] \ {h[i].new}) \cup {h[i].old}
      BY <1>3, <3>1, <3>2 DEF RewoundBy
    <3>6. g[s] = (g[r] \ {h[i].new}) \cup {h[i].old}
      BY <1>1, <1>4, <2>4 DEF RewoundBy, r, i
    <3>7. f[r \cup {n + 1}] = g[r]
      <4>1. m - 1 \in Nat /\ ~(m <= m - 1)
        BY <1>5, <2>1, <3>4
      <4>2. m - 1 \notin Bad
        BY <2>1, <4>1
      <4> QED BY <3>4, <4>1, <4>2
    <3> QED BY <2>2, <3>3, <3>5, <3>6, <3>7 DEF t
  <2> QED BY <2>3, <2>4
<1>8. f[S \cup {n + 1}] = g[S]
  BY <1>5, <1>7
<1> QED
  BY <1>1, <1>3, <1>4, <1>8 DEF long, Q

\* The reviewers of a record are those after all of its changes.
LEMMA ExplainsItself ==
  ASSUME NEW r \in Record
  PROVE  Explains(r, r.reviewers)
<1> DEFINE h == r.history
           n == Len(h)
<1>1. h \in Seq(Event_) /\ n \in Nat
  BY LenProperties DEF Record, Event_
<1> HIDE DEF h
<1>2. SubSeq(h, n + 1, n) = <<>>
  BY <1>1
<1>3. Rewind(SubSeq(h, n + 1, n), r.reviewers) = r.reviewers
  BY <1>2, RewindEmpty
<1>4. n \in 0..n
  BY <1>1
<1> QED
  BY <1>3, <1>4 DEF Explains, h

\* What explained a list of reviewers still does after another change.
LEMMA ExplainsReplaced ==
  ASSUME NEW r \in Record, Sound(r), NEW old \in r.reviewers,
         NEW new, new \in Newcomers(r) \/ new = Nil,
         NEW q, q = Replaced(r, old, new), NEW R, Explains(r, R)
  PROVE  Explains(q, R)
<1> DEFINE e == [old |-> old, new |-> new]
           h == r.history
           n == Len(h)
<1>1. /\ q.history = Append(h, e) /\ e \in Event_
      /\ (q.reviewers \ {new}) \cup {old} = r.reviewers
  BY ReplacedIs
<1>2. h \in Seq(Event_) /\ n \in Nat /\ e.new = new /\ e.old = old
  BY LenProperties DEF Record, Event_
<1> HIDE DEF e, h
<1>3. PICK k \in 0..n : Rewind(SubSeq(h, k + 1, n), r.reviewers) = R
  BY DEF Explains, h
<1> DEFINE t == SubSeq(h, k + 1, n)
<1>4. Append(h, e) \in Seq(Event_) /\ Len(Append(h, e)) = n + 1
  BY <1>1, <1>2, AppendProperties
<1>5. t \in Seq(Event_) /\ SubSeq(Append(h, e), k + 1, n + 1) = Append(t, e)
  <2>1. PICK m : m = n - k
    OBVIOUS
  <2>2. m \in Nat /\ n + 1 - k = m + 1 /\ k + (m + 1) = n + 1 /\ k \in Nat /\ k + m = n
    BY <1>2, <1>3, <2>1
  <2>3. /\ t \in Seq(Event_) /\ Len(t) = m /\ \A i \in 1..m : t[i] = h[k + i]
    BY <1>2, <2>1
  <2>4. PICK l : l = Append(h, e)
    OBVIOUS
  <2>5. /\ l \in Seq(Event_) /\ Len(l) = n + 1 /\ l[n + 1] = e
        /\ \A i \in 1..n : l[i] = h[i]
    BY <1>1, <1>2, <2>4, AppendProperties
  <2>6. PICK u : u = SubSeq(l, k + 1, n + 1)
    OBVIOUS
  <2>7. /\ u \in Seq(Event_) /\ Len(u) = m + 1
        /\ \A i \in 1..(m + 1) : u[i] = l[k + i]
    BY <1>2, <2>1, <2>5, <2>6
  <2> HIDE DEF t, n
  <2>8. PICK v : v = Append(t, e)
    OBVIOUS
  <2>9. /\ v \in Seq(Event_) /\ Len(v) = m + 1 /\ v[m + 1] = e
        /\ \A i \in 1..m : v[i] = t[i]
    BY <1>1, <2>2, <2>3, <2>8, AppendProperties
  <2>10. ASSUME NEW i \in 1..m PROVE u[i] = v[i]
    <3>1. PICK j : j = k + i
      OBVIOUS
    <3>2. j \in 1..n /\ i \in 1..(m + 1)
      BY <1>2, <2>2, <3>1
    <3>3. u[i] = l[j] /\ t[i] = h[j]
      BY <2>3, <2>7, <3>1, <3>2
    <3> QED BY <2>5, <2>9, <3>2, <3>3
  <2>11. u[m + 1] = v[m + 1]
    BY <2>2, <2>5, <2>7, <2>9
  <2>12. \A i \in 1..Len(u) : u[i] = v[i]
    BY <2>2, <2>7, <2>10, <2>11
  <2>13. u = v
    BY <2>7, <2>9, <2>12, SeqEqual
  <2> QED BY <2>3, <2>4, <2>6, <2>8, <2>13
<1> HIDE DEF t
<1>6. Rewind(Append(t, e), q.reviewers) = Rewind(t, r.reviewers)
  BY <1>1, <1>2, <1>5, RewindAppend
<1>7. k \in 0..(n + 1)
  BY <1>2, <1>3
<1> QED
  BY <1>1, <1>3, <1>4, <1>5, <1>6, <1>7 DEF Explains, t

\* The same, for whatever becomes of a record.
LEMMA ExplainsGrown ==
  ASSUME NEW r \in Record, Sound(r), NEW q, Grown(r, q), NEW R, Explains(r, R)
  PROVE  Explains(q, R)
<1>1. ASSUME NEW s \in Record, Sound(s), Explains(s, R), NEW c \in Changed(s)
      PROVE  Explains(c, R)
  <2>1. PICK old \in s.reviewers, new \in Newcomers(s) \cup {Nil} :
          c = Replaced(s, old, new)
    BY <1>1 DEF Changed
  <2>2. new \in Newcomers(s) \/ new = Nil
    OBVIOUS
  <2> QED BY <1>1, <2>1, <2>2, ExplainsReplaced
<1>2. CASE q = r
  BY <1>2
<1>3. CASE q = [r EXCEPT !.status = "MERGED"]
  <2>1. q.history = r.history /\ q.reviewers = r.reviewers
    BY <1>3 DEF Record
  <2> QED BY <2>1 DEF Explains
<1>4. CASE q \in Changed(r)
  BY <1>1, <1>4
<1>5. CASE \E s \in Changed(r) : q \in Changed(s)
  <2>1. PICK s \in Changed(r) : q \in Changed(s)
    BY <1>5
  <2>2. s \in Record /\ Sound(s)
    BY ChangedIs
  <2>3. Explains(s, R)
    BY <1>1
  <2> QED BY <1>1, <2>1, <2>2, <2>3
<1> QED
  BY <1>2, <1>3, <1>4, <1>5 DEF Grown, HandedOver

-------------------------------------------------------------------------------
(* How far the report has got.                                             *)

\* What comes with the request for a report.
LEMMA RequestIs ==
  ASSUME Underway
  PROVE  /\ request \in AnyRequest
         /\ request.kind = "PRStats" => request.pr \in PR
         /\ request.kind = "StatsSummary" => request.params \in Filter
         /\ request.kind = "ReviewerStats" =>
              request.user \in User /\ request.limit \in Int \cup {Nil}
         /\ request.kind \in {"Stats", "StatsSummary", "ReviewerStats", "PRStats",
                              "GetUserReviews"}
<1>1. request \in AnyRequest
  BY RequestsAssumption DEF Underway
<1> QED
  BY <1>1 DEF AnyRequest

\* The steps of all reports.
Reading == Stats \/ StatsSummary \/ ReviewerStats \/ PRStats \/ GetUserReviews

\* An answer that gets the next of its fields, or an error, is underway.
LEMMA AnswerUnderway ==
  ASSUME Underway, NEW q, Answers(q), q.noRows \in Errors,
         NEW S, NEW T, DOMAIN parts = S, T = S \cup {q.field},
         S \in Stages, T \in Stages
  PROVE  Underway' /\ UNCHANGED <<ledger, team, request, past>>
<1>1. UNCHANGED <<ledger, team, request, past>>
  BY DEF Answers
<1>2. DOMAIN parts' \in {S, T} /\ err' \in Errors
  BY DEF Answers, Adds, Errors
<1>3. Stages' = Stages
  BY <1>1 DEF Stages
<1> QED
  BY <1>1, <1>2, <1>3 DEF Underway, Errors

\* The fields of PRStats appear in the order of its queries.
LEMMA PRStatsUnderway ==
  ASSUME Underway, PRStats
  PROVE  Underway' /\ UNCHANGED <<ledger, team, request, past>>
<1>1. /\ request.kind = "PRStats"
      /\ Stages = {{}, {"Status"}, {"Status", "Reviewers"}, PRFields}
  BY PRStatsIs DEF Stages
<1>2. CASE DOMAIN parts = {}
  <2>1. PICK q : q = Needs("Status", PRRow(request.pr), "ErrPRNotFound")
    OBVIOUS
  <2>2. Answers(q)
    BY <1>2, <2>1, PRStatsIs
  <2>3. {"Status"} = {} \cup {q.field} /\ q.noRows \in Errors
    BY <2>1 DEF Needs, Errors
  <2> QED BY <1>1, <1>2, <2>2, <2>3, AnswerUnderway
<1>3. CASE DOMAIN parts = {"Status"}
  <2>1. PICK q : q = Gives("Reviewers", PRReviewers(request.pr))
    OBVIOUS
  <2>2. Answers(q)
    BY <1>3, <2>1, PRStatsIs
  <2>3. {"Status", "Reviewers"} = {"Status"} \cup {q.field} /\ q.noRows \in Errors
    BY <2>1 DEF Gives, Errors
  <2> QED BY <1>1, <1>3, <2>2, <2>3, AnswerUnderway
<1>4. CASE DOMAIN parts = {"Status", "Reviewers"}
  <2>1. PICK q : q = Gives("Reassignments", PRHistory(request.pr))
    OBVIOUS
  <2>2. Answers(q)
    BY <1>4, <2>1, PRStatsIs
  <2>3. PRFields = {"Status", "Reviewers"} \cup {q.field} /\ q.noRows \in Errors
    BY <2>1 DEF Gives, Errors, PRFields
  <2> QED BY <1>1, <1>4, <2>2, <2>3, AnswerUnderway
<1> QED
  BY <1>2, <1>3, <1>4, PRStatsIs

\* The fields of Stats appear in the order of its queries.
LEMMA StatsUnderway ==
  ASSUME Underway, Stats
  PROVE  Underway' /\ UNCHANGED <<ledger, team, request, past>>
<1>1. /\ request.kind = "Stats"
      /\ Stages = {{},
                   {"ByUser"},
                   {"ByUser", "ByPR"},
                   {"ByUser", "ByPR", "ByStatus"},
                   StatsFields}
  BY StatsIs DEF Stages
<1>2. CASE DOMAIN parts = {}
  <2>1. PICK q : q = Gives("ByUser", {ByUser(Tables, PR)})
    OBVIOUS
  <2>2. Answers(q)
    BY <1>2, <2>1, StatsIs
  <2>3. {"ByUser"} = {} \cup {q.field} /\ q.noRows \in Errors
    BY <2>1 DEF Gives, Errors
  <2> QED BY <1>1, <1>2, <2>2, <2>3, AnswerUnderway
<1>3. CASE DOMAIN parts = {"ByUser"}
  <2>1. PICK q : q = Gives("ByPR", {ByPR(Tables)})
    OBVIOUS
  <2>2. Answers(q)
    BY <1>3, <2>1, StatsIs
  <2>3. {"ByUser", "ByPR"} = {"ByUser"} \cup {q.field} /\ q.noRows \in Errors
    BY <2>1 DEF Gives, Errors
  <2> QED BY <1>1, <1>3, <2>2, <2>3, AnswerUnderway
<1>4. CASE DOMAIN parts = {"ByUser", "ByPR"}
  <2>1. PICK q : q = Gives("ByStatus", {ByStatus(Tables, PR)})
    OBVIOUS
  <2>2. Answers(q)
    BY <1>4, <2>1, StatsIs
  <2>3. /\ {"ByUser", "ByPR", "ByStatus"} = {"ByUser", "ByPR"} \cup {q.field}
        /\ q.noRows \in Errors
    BY <2>1 DEF Gives, Errors
  <2> QED BY <1>1, <1>4, <2>2, <2>3, AnswerUnderway
<1>5. CASE DOMAIN parts = {"ByUser", "ByPR", "ByStatus"}
  <2>1. PICK q : q = Gives("ByTeam", {ByTeam(Tables, PR)})
    OBVIOUS
  <2>2. Answers(q)
    BY <1>5, <2>1, StatsIs
  <2>3. /\ StatsFields = {"ByUser", "ByPR", "ByStatus"} \cup {q.field}
        /\ q.noRows \in Errors
    BY <2>1 DEF Gives, Errors, StatsFields
  <2> QED BY <1>1, <1>5, <2>2, <2>3, AnswerUnderway
<1> QED
  BY <1>2, <1>3, <1>4, <1>5, StatsIs

\* The fields of StatsSummary appear in the order of its queries.
LEMMA StatsSummaryUnderway ==
  ASSUME Underway, StatsSummary
  PROVE  Underway' /\ UNCHANGED <<ledger, team, request, past>>
<1>1. /\ request.kind = "StatsSummary"
      /\ Stages = {{}, {"TopReviewers"}, {"TopReviewers", "PRStatusCounts"},
                   SummaryFields}
  BY SummaryIs DEF Stages
<1>2. CASE DOMAIN parts = {}
  <2>1. PICK q : q = Gives("TopReviewers", TopReviewers(Tables, TheFilter))
    OBVIOUS
  <2>2. Answers(q)
    BY <1>2, <2>1, SummaryIs
  <2>3. {"TopReviewers"} = {} \cup {q.field} /\ q.noRows \in Errors
    BY <2>1 DEF Gives, Errors
  <2> QED BY <1>1, <1>2, <2>2, <2>3, AnswerUnderway
<1>3. CASE DOMAIN parts = {"TopReviewers"}
  <2>1. PICK q : q = Gives("PRStatusCounts", {ByStatus(Tables, Selected)})
    OBVIOUS
  <2>2. Answers(q)
    BY <1>3, <2>1, SummaryIs
  <2>3. /\ {"TopReviewers", "PRStatusCounts"} = {"TopReviewers"} \cup {q.field}
        /\ q.noRows \in Errors
    BY <2>1 DEF Gives, Errors
  <2> QED BY <1>1, <1>3, <2>2, <2>3, AnswerUnderway
<1>4. CASE DOMAIN parts = {"TopReviewers", "PRStatusCounts"}
  <2>1. PICK q : q = Gives("TeamAssignments", {ByTeam(Tables, Selected)})
    OBVIOUS
  <2>2. Answers(q)
    BY <1>4, <2>1, SummaryIs
  <2>3. /\ SummaryFields = {"TopReviewers", "PRStatusCounts"} \cup {q.field}
        /\ q.noRows \in Errors
    BY <2>1 DEF Gives, Errors, SummaryFields
  <2> QED BY <1>1, <1>4, <2>2, <2>3, AnswerUnderway
<1> QED
  BY <1>2, <1>3, <1>4, SummaryIs

\* The fields of ReviewerStats appear in the order of its queries.
LEMMA ReviewerStatsUnderway ==
  ASSUME Underway, ReviewerStats
  PROVE  Underway' /\ UNCHANGED <<ledger, team, request, past>>
<1>1. /\ request.kind = "ReviewerStats"
      /\ Stages = {{},
                   {"UserID"},
                   {"UserID", "AssignCnt"},
                   {"UserID", "AssignCnt", "Counts"},
                   ReviewerFields}
  BY ReviewerStatsIs DEF Stages
<1>2. CASE DOMAIN parts = {}
  <2>1. PICK q : q = Needs("UserID", UserExists(request.user), "ErrUserNotFound")
    OBVIOUS
  <2>2. Answers(q)
    BY <1>2, <2>1, ReviewerStatsIs
  <2>3. {"UserID"} = {} \cup {q.field} /\ q.noRows \in Errors
    BY <2>1 DEF Needs, Errors
  <2> QED BY <1>1, <1>2, <2>2, <2>3, AnswerUnderway
<1>3. CASE DOMAIN parts = {"UserID"}
  <2>1. PICK q : q = Gives("AssignCnt", {Cardinality(DOMAIN TheReviews)})
    OBVIOUS
  <2>2. Answers(q)
    BY <1>3, <2>1, ReviewerStatsIs
  <2>3. {"UserID", "AssignCnt"} = {"UserID"} \cup {q.field} /\ q.noRows \in Errors
    BY <2>1 DEF Gives, Errors
  <2> QED BY <1>1, <1>3, <2>2, <2>3, AnswerUnderway
<1>4. CASE DOMAIN parts = {"UserID", "AssignCnt"}
  <2>1. PICK q : q = Gives("Counts", {StatusCounts(TheReviews)})
    OBVIOUS
  <2>2. Answers(q)
    BY <1>4, <2>1, ReviewerStatsIs
  <2>3. /\ {"UserID", "AssignCnt", "Counts"} = {"UserID", "AssignCnt"} \cup {q.field}
        /\ q.noRows \in Errors
    BY <2>1 DEF Gives, Errors
  <2> QED BY <1>1, <1>4, <2>2, <2>3, AnswerUnderway
<1>5. CASE DOMAIN parts = {"UserID", "AssignCnt", "Counts"}
  <2>1. PICK q : q = Gives("RecentPRs", Limited(TheReviews, CreatedAt, TheLimit))
    OBVIOUS
  <2>2. Answers(q)
    BY <1>5, <2>1, ReviewerStatsIs
  <2>3. /\ ReviewerFields = {"UserID", "AssignCnt", "Counts"} \cup {q.field}
        /\ q.noRows \in Errors
    BY <2>1 DEF Gives, Errors, ReviewerFields
  <2> QED BY <1>1, <1>5, <2>2, <2>3, AnswerUnderway
<1> QED
  BY <1>2, <1>3, <1>4, <1>5, ReviewerStatsIs

\* And so do those of every report; the tables are left alone.
LEMMA ReadingUnderway ==
  ASSUME Underway, Reading
  PROVE  Underway' /\ UNCHANGED <<ledger, team, request, past>>
<1>1. CASE GetUserReviews
  <2>1. PICK q : q = Gives("PRs", {ReviewedBy(Tables, request.user)})
    OBVIOUS
  <2>2. request.kind = "GetUserReviews" /\ DOMAIN parts = {} /\ Answers(q)
    BY <1>1, <2>1, UserReviewsIs
  <2>3. {"PRs"} = {} \cup {q.field} /\ q.noRows \in Errors
    BY <2>1 DEF Gives, Errors
  <2>4. Stages = {{}, {"PRs"}}
    BY <2>2 DEF Stages
  <2> QED BY <2>2, <2>3, <2>4, AnswerUnderway
<1> QED
  BY <1>1, PRStatsUnderway, StatsUnderway, StatsSummaryUnderway,
     ReviewerStatsUnderway DEF Reading

-------------------------------------------------------------------------------
(* The report on a PR.                                                     *)

\* PRStats keeps what the report on a PR says: each query shows the record
\* that is in the tables now, and the fields before it stay.
LEMMA PRStatsPreserves ==
  ASSUME TablesOK, Underway, PRReport, PRStats
  PROVE  PRReport'
<1> DEFINE pr == request.pr
           r  == ledger[pr]
<1>1. /\ request.kind = "PRStats" /\ pr \in PR
      /\ UNCHANGED <<ledger, team, request, past>>
  BY PRStatsIs, RequestIs, PRStatsUnderway
<1>2. Seen' = Seen /\ Tables \in Seen /\ Tables.prs = ledger
  BY <1>1 DEF Seen, Tables
<1>3. r # Nil => /\ r \in Record /\ r.status \in {"OPEN", "MERGED"}
                 /\ r.reviewers \in SUBSET User /\ r.history \in Seq(Event_)
  BY <1>1, RecordIs
<1>4. CASE parts' = parts
  BY <1>1, <1>2, <1>4 DEF PRReport, Has
<1>5. CASE DOMAIN parts = {} /\ \E x \in PRRow(pr) : Adds("Status", x)
  <2>1. r # Nil /\ DOMAIN parts' = {"Status"} /\ parts'["Status"] = r.status
    BY <1>5 DEF PRRow, Adds
  <2> QED BY <1>1, <1>3, <2>1 DEF PRReport, Has
<1>6. CASE DOMAIN parts = {"Status"} /\ \E x \in PRReviewers(pr) : Adds("Reviewers", x)
  <2>1. /\ r # Nil /\ DOMAIN parts' = {"Status", "Reviewers"}
        /\ parts'["Status"] = parts["Status"] /\ parts'["Reviewers"] = r.reviewers
    BY <1>6 DEF PRReviewers, Adds
  <2>2. /\ parts["Status"] \in {"OPEN", "MERGED"}
        /\ parts["Status"] = "MERGED" => r.status = "MERGED"
    BY <1>1, <1>6 DEF PRReport, Has
  <2>3. Explains(r, r.reviewers)
    BY <1>3, <2>1, ExplainsItself
  <2> QED BY <1>1, <1>3, <2>1, <2>2, <2>3 DEF PRReport, Has
<1>7. CASE /\ DOMAIN parts = {"Status", "Reviewers"}
           /\ \E x \in PRHistory(pr) : Adds("Reassignments", x)
  <2>1. /\ r # Nil /\ DOMAIN parts' = PRFields
        /\ parts'["Status"] = parts["Status"]
        /\ parts'["Reviewers"] = parts["Reviewers"]
        /\ parts'["Reassignments"] = r.history
    BY <1>7 DEF PRHistory, Adds, PRFields
  <2>2. /\ parts["Status"] \in {"OPEN", "MERGED"}
        /\ parts["Status"] = "MERGED" => r.status = "MERGED"
        /\ parts["Reviewers"] \in SUBSET User
        /\ parts["Status"] = "MERGED" => parts["Reviewers"] = r.reviewers
        /\ Explains(r, parts["Reviewers"])
    BY <1>1, <1>7 DEF PRReport, Has
  <2>3. \E s \in Seen' : /\ s.prs[pr] # Nil
                         /\ s.prs[pr].history = parts'["Reassignments"]
                         /\ Explains(s.prs[pr], parts'["Reviewers"])
    BY <1>2, <2>1, <2>2
  <2> QED BY <1>1, <1>3, <2>1, <2>2, <2>3 DEF PRReport, Has, Event_
<1> QED
  <2>1. CASE DOMAIN parts = {} /\ Answers(Needs("Status", PRRow(pr), "ErrPRNotFound"))
    BY <1>4, <1>5, <2>1 DEF Answers, Needs
  <2>2. CASE DOMAIN parts = {"Status"} /\ Answers(Gives("Reviewers", PRReviewers(pr)))
    BY <1>4, <1>6, <2>2 DEF Answers, Gives
  <2>3. CASE /\ DOMAIN parts = {"Status", "Reviewers"}
             /\ Answers(Gives("Reassignments", PRHistory(pr)))
    BY <1>4, <1>7, <2>3 DEF Answers, Gives
  <2> QED BY <2>1, <2>2, <2>3, PRStatsIs

\* The writers keep it: a merged record stays what it is, and a change of
\* reviewers is in the history of the record.
LEMMA PRReportWriters ==
  ASSUME TablesOK, Underway, PRReport, Writes
  PROVE  PRReport'
<1> SUFFICES ASSUME request.kind = "PRStats"
             PROVE  PRReport'
  BY WriterIs DEF PRReport
<1> DEFINE pr == request.pr
           R  == parts["Reviewers"]
<1>1. PICK r, q : r = ledger[pr] /\ q = ledger'[pr]
  OBVIOUS
<1>2. /\ pr \in PR /\ Effect /\ UNCHANGED <<request, parts, err>>
      /\ Seen \subseteq Seen'
  BY RequestIs, WriterIs, WriterTables
<1>3. r # Nil => q # Nil /\ Grown(r, q) /\ r \in Record /\ Sound(r)
  BY <1>1, <1>2, RecordIs DEF Effect
<1>4. r # Nil /\ r.status = "MERGED" => q = r
  BY <1>3, GrownIs
<1>5. r # Nil /\ Explains(r, R) => Explains(q, R)
  BY <1>3, ExplainsGrown
<1> DEFINE merged == parts["Status"] = "MERGED"
<1>6. ASSUME "Status" \in DOMAIN parts
      PROVE  /\ r # Nil /\ parts["Status"] \in {"OPEN", "MERGED"}
             /\ merged => r.status = "MERGED"
  BY <1>1, <1>6 DEF PRReport, Has
<1>7. ASSUME "Reviewers" \in DOMAIN parts
      PROVE  /\ R \in SUBSET User /\ (merged => R = r.reviewers) /\ Explains(r, R)
  BY <1>1, <1>7 DEF PRReport, Has
<1>8. ASSUME "Reassignments" \in DOMAIN parts
      PROVE  /\ parts["Reassignments"] \in Seq(Event_)
             /\ merged => parts["Reassignments"] = r.history
             /\ \E s \in Seen : /\ s.prs[pr] # Nil
                              /\ s.prs[pr].history = parts["Reassignments"]
                              /\ Explains(s.prs[pr], R)
  BY <1>1, <1>8 DEF PRReport, Has, Event_
<1>9. \/ DOMAIN parts = {}
      \/ "Status" \in DOMAIN parts
  BY DEF Underway, Stages, PRFields
<1>10. ASSUME "Status" \in DOMAIN parts
       PROVE  q # Nil /\ (merged => q = r)
  BY <1>3, <1>4, <1>6, <1>10
<1>11. ASSUME DOMAIN parts = {} PROVE PRReport'
  BY <1>2, <1>11 DEF PRReport, Has
<1>12. ASSUME "Status" \in DOMAIN parts PROVE PRReport'
  <2>1. q # Nil /\ (merged => q.status = "MERGED")
    BY <1>6, <1>10, <1>12
  <2>2. "Reviewers" \in DOMAIN parts =>
          (merged => R = q.reviewers) /\ Explains(q, R)
    BY <1>5, <1>6, <1>7, <1>10, <1>12
  <2>3. "Reassignments" \in DOMAIN parts =>
          /\ merged => parts["Reassignments"] = q.history
          /\ \E s \in Seen' : /\ s.prs[pr] # Nil
                            /\ s.prs[pr].history = parts["Reassignments"]
                            /\ Explains(s.prs[pr], R)
    BY <1>2, <1>8, <1>10, <1>12
  <2> HIDE DEF R
  <2> QED BY <1>1, <1>2, <1>6, <1>7, <1>8, <1>12, <2>1, <2>2, <2>3
          DEF PRReport, Has, Event_, R
<1> QED
  BY <1>9, <1>11, <1>12

-------------------------------------------------------------------------------
(* Counting.                                                               *)

\* Rows and reviews are finitely many.
LEMMA RowsFinite ==
  ASSUME NEW d, NEW W
  PROVE  /\ Rows(d) \cap W \in SUBSET PR /\ Reviews(d, W) \in SUBSET (PR \X User)
         /\ IsFiniteSet(Rows(d) \cap W) /\ IsFiniteSet(Reviews(d, W))
<1>1. Rows(d) \cap W \in SUBSET PR
  BY DEF Rows
<1>2. Reviews(d, W) \in SUBSET (PR \X User)
  BY <1>1 DEF Reviews
<1>3. IsFiniteSet(PR \X User)
  BY FiniteAssumption, FS_Product
<1> QED
  BY <1>1, <1>2, <1>3, FinitePRs, FS_Subset

\* Whatever the reviews are grouped by, the groups add up to all of them, and
\* PRs grouped by status to all PRs.
LEMMA Totals ==
  ASSUME NEW d, NEW W
  PROVE  /\ Total(ByUser(d, W)) = Cardinality(Reviews(d, W))
         /\ Total(ByTeam(d, W)) = Cardinality(Reviews(d, W))
         /\ Total(ByPR(d)) = Cardinality(Reviews(d, PR))
         /\ Total(ByStatus(d, W)) = Cardinality(Rows(d) \cap W)
<1>1. \A f : Total(f) = Sum(f, DOMAIN f)
  BY DEF Total, Sum
<1>2. Total(ByUser(d, W)) = Cardinality(Reviews(d, W))
  <2>1. PICK S, f : S = Reviews(d, W) /\ f = ByUser(d, W)
    OBVIOUS
  <2> DEFINE key == [x \in S |-> x[2]]
  <2>2. f = [k \in {key[x] : x \in S} |-> Cardinality({x \in S : key[x] = k})]
    BY <2>1 DEF ByUser, CountBy
  <2> HIDE DEF key
  <2>3. IsFiniteSet(S)
    BY <2>1, RowsFinite
  <2>4. Sum(f, DOMAIN f) = Cardinality(S)
    BY <2>2, <2>3, CountsAddUp
  <2> QED BY <1>1, <2>1, <2>4
<1>3. Total(ByTeam(d, W)) = Cardinality(Reviews(d, W))
  <2>1. PICK S, f : S = Reviews(d, W) /\ f = ByTeam(d, W)
    OBVIOUS
  <2> DEFINE key == [x \in S |-> d.team[x[2]]]
  <2>2. f = [k \in {key[x] : x \in S} |-> Cardinality({x \in S : key[x] = k})]
    BY <2>1 DEF ByTeam, CountBy
  <2> HIDE DEF key
  <2>3. IsFiniteSet(S)
    BY <2>1, RowsFinite
  <2>4. Sum(f, DOMAIN f) = Cardinality(S)
    BY <2>2, <2>3, CountsAddUp
  <2> QED BY <1>1, <2>1, <2>4
<1>4. Total(ByPR(d)) = Cardinality(Reviews(d, PR))
  <2>1. PICK S, f : S = Reviews(d, PR) /\ f = ByPR(d)
    OBVIOUS
  <2> DEFINE key == [x \in S |-> x[1]]
  <2>2. f = [k \in {key[x] : x \in S} |-> Cardinality({x \in S : key[x] = k})]
    BY <2>1 DEF ByPR, CountBy
  <2> HIDE DEF key
  <2>3. IsFiniteSet(S)
    BY <2>1, RowsFinite
  <2>4. Sum(f, DOMAIN f) = Cardinality(S)
    BY <2>2, <2>3, CountsAddUp
  <2> QED BY <1>1, <2>1, <2>4
<1>5. Total(ByStatus(d, W)) = Cardinality(Rows(d) \cap W)
  <2>1. PICK S, f : S = Rows(d) \cap W /\ f = ByStatus(d, W)
    OBVIOUS
  <2> DEFINE key == [x \in S |-> d.prs[x].status]
  <2>2. f = [k \in {key[x] : x \in S} |-> Cardinality({x \in S : key[x] = k})]
    BY <2>1 DEF ByStatus, CountBy
  <2> HIDE DEF key
  <2>3. IsFiniteSet(S)
    BY <2>1, RowsFinite
  <2>4. Sum(f, DOMAIN f) = Cardinality(S)
    BY <2>2, <2>3, CountsAddUp
  <2> QED BY <1>1, <2>1, <2>4
<1> QED
  BY <1>2, <1>3, <1>4, <1>5

-------------------------------------------------------------------------------
(* The totals.                                                             *)

\* Stats keeps what the totals say.
LEMMA StatsPreserves ==
  ASSUME TablesOK, Underway, StatsReport, Stats
  PROVE  StatsReport'
<1>1. /\ request.kind = "Stats" /\ UNCHANGED <<ledger, team, request, past>>
  BY StatsIs, StatsUnderway
<1>2. Tables' = Tables /\ Quiet' = Quiet
  BY <1>1 DEF Tables, Quiet
<1>3. ByUser(Tables, PR)' = ByUser(Tables, PR) /\ ByPR(Tables)' = ByPR(Tables)
      /\ ByStatus(Tables, PR)' = ByStatus(Tables, PR)
      /\ ByTeam(Tables, PR)' = ByTeam(Tables, PR)
      /\ Rows(Tables)' = Rows(Tables)
  BY <1>2
<1>4. DOMAIN ByPR(Tables) \subseteq Rows(Tables)
  BY DEF ByPR, CountBy, Reviews
<1>5. Total(ByStatus(Tables, PR)) = Cardinality(Rows(Tables))
  <2>1. Rows(Tables) \cap PR = Rows(Tables)
    BY DEF Rows
  <2> QED BY <2>1, Totals
<1>6. CASE parts' = parts
  BY <1>1, <1>2, <1>3, <1>6 DEF StatsReport, Has
<1>7. CASE DOMAIN parts = {} /\ Adds("ByUser", ByUser(Tables, PR))
  <2>1. DOMAIN parts' = {"ByUser"} /\ parts'["ByUser"] = ByUser(Tables, PR)
    BY <1>7 DEF Adds
  <2> QED BY <1>2, <1>3, <2>1 DEF StatsReport, Has
<1>8. CASE DOMAIN parts = {"ByUser"} /\ Adds("ByPR", ByPR(Tables))
  <2>1. /\ DOMAIN parts' = {"ByUser", "ByPR"}
        /\ parts'["ByUser"] = parts["ByUser"] /\ parts'["ByPR"] = ByPR(Tables)
    BY <1>8 DEF Adds
  <2>2. Quiet => parts["ByUser"] = ByUser(Tables, PR)
    BY <1>1, <1>8 DEF StatsReport, Has
  <2> QED BY <1>2, <1>3, <1>4, <2>1, <2>2 DEF StatsReport, Has
<1>9. CASE DOMAIN parts = {"ByUser", "ByPR"} /\ Adds("ByStatus", ByStatus(Tables, PR))
  <2>1. /\ DOMAIN parts' = {"ByUser", "ByPR", "ByStatus"}
        /\ parts'["ByUser"] = parts["ByUser"] /\ parts'["ByPR"] = parts["ByPR"]
        /\ parts'["ByStatus"] = ByStatus(Tables, PR)
    BY <1>9 DEF Adds
  <2>2. /\ Quiet => parts["ByUser"] = ByUser(Tables, PR)
        /\ Quiet => parts["ByPR"] = ByPR(Tables)
        /\ DOMAIN parts["ByPR"] \subseteq Rows(Tables)
    BY <1>1, <1>9 DEF StatsReport, Has
  <2>3. Cardinality(DOMAIN parts'["ByPR"]) <= Total(parts'["ByStatus"])
    <3>1. Cardinality(DOMAIN parts["ByPR"]) <= Cardinality(Rows(Tables))
      <4>1. Rows(Tables) \in SUBSET PR
        BY DEF Rows
      <4>2. IsFiniteSet(Rows(Tables)) /\ DOMAIN parts["ByPR"] \in SUBSET Rows(Tables)
        BY <2>2, <4>1, FinitePRs
      <4> QED BY <4>2, FS_Subset
    <3> QED BY <1>5, <2>1, <3>1
  <2> QED BY <1>2, <1>3, <2>1, <2>2, <2>3 DEF StatsReport, Has
<1>10. CASE /\ DOMAIN parts = {"ByUser", "ByPR", "ByStatus"}
            /\ Adds("ByTeam", ByTeam(Tables, PR))
  <2>1. /\ DOMAIN parts' = StatsFields
        /\ parts'["ByUser"] = parts["ByUser"] /\ parts'["ByPR"] = parts["ByPR"]
        /\ parts'["ByStatus"] = parts["ByStatus"]
        /\ parts'["ByTeam"] = ByTeam(Tables, PR)
    BY <1>10 DEF Adds, StatsFields
  <2>2. /\ Quiet => parts["ByUser"] = ByUser(Tables, PR)
        /\ Quiet => parts["ByPR"] = ByPR(Tables)
        /\ Quiet => parts["ByStatus"] = ByStatus(Tables, PR)
        /\ DOMAIN parts["ByPR"] \subseteq Rows(Tables)
        /\ Cardinality(DOMAIN parts["ByPR"]) <= Total(parts["ByStatus"])
    BY <1>1, <1>10 DEF StatsReport, Has
  <2> QED BY <1>2, <1>3, <2>1, <2>2 DEF StatsReport, Has
<1>11. CASE DOMAIN parts = {} /\ Answers(Gives("ByUser", {ByUser(Tables, PR)}))
  BY <1>6, <1>7, <1>11 DEF Answers, Gives
<1>12. CASE DOMAIN parts = {"ByUser"} /\ Answers(Gives("ByPR", {ByPR(Tables)}))
  BY <1>6, <1>8, <1>12 DEF Answers, Gives
<1>13. CASE /\ DOMAIN parts = {"ByUser", "ByPR"}
            /\ Answers(Gives("ByStatus", {ByStatus(Tables, PR)}))
  BY <1>6, <1>9, <1>13 DEF Answers, Gives
<1>14. CASE /\ DOMAIN parts = {"ByUser", "ByPR", "ByStatus"}
            /\ Answers(Gives("ByTeam", {ByTeam(Tables, PR)}))
  BY <1>6, <1>10, <1>14 DEF Answers, Gives
<1> QED
  BY <1>11, <1>12, <1>13, <1>14, StatsIs

\* The writers keep it: they add PRs and remove none.
LEMMA StatsReportWriters ==
  ASSUME TablesOK, Underway, StatsReport, Writes
  PROVE  StatsReport'
<1>1. Effect /\ UNCHANGED <<request, parts>> /\ ~Quiet'
  BY WriterIs, WriterTables DEF Quiet
<1>2. Rows(Tables) \subseteq Rows(Tables)'
  BY <1>1 DEF Rows, Tables, Effect
<1> QED
  BY <1>1, <1>2 DEF StatsReport, Has

-------------------------------------------------------------------------------
(* The summary.                                                            *)

\* What the parameters of a summary select.
Selects(f, d, p) ==
  /\ f.from # Nil => CreatedAt[p] >= f.from
  /\ f.to # Nil => CreatedAt[p] <= f.to
  /\ f.status # Nil => d.prs[p].status = f.status

\* The placeholder of every condition names its argument, also when more
\* arguments follow.
LEMMA WhereIs ==
  ASSUME NEW f, NEW d, NEW args, \A i \in 1..Len(Args(f)) : args[i] = Args(f)[i]
  PROVE  Where(d, Conditions(f), args) = {p \in Rows(d) : Selects(f, d, p)}
<1>1. PICK a, b : a = Len(Given(f.from)) /\ b = a + Len(Given(f.to))
  OBVIOUS
<1>2. /\ f.from # Nil => args[1] = f.from
      /\ f.to # Nil => args[a + 1] = f.to
      /\ f.status # Nil => args[b + 1] = f.status
  <2>1. CASE f.from = Nil /\ f.to = Nil
    BY <1>1, <2>1 DEF Args, Given
  <2>2. CASE f.from = Nil /\ f.to # Nil
    BY <1>1, <2>2 DEF Args, Given
  <2>3. CASE f.from # Nil /\ f.to = Nil
    BY <1>1, <2>3 DEF Args, Given
  <2>4. CASE f.from # Nil /\ f.to # Nil
    BY <1>1, <2>4 DEF Args, Given
  <2> QED BY <2>1, <2>2, <2>3, <2>4
<1>3. ASSUME NEW p \in Rows(d)
      PROVE  (\A c \in Conditions(f) :
                CASE c.op = ">=" -> CreatedAt[p] >= args[c.at]
                  [] c.op = "<=" -> CreatedAt[p] <= args[c.at]
                  [] c.op = "="  -> d.prs[p].status = args[c.at])
             <=> Selects(f, d, p)
  <2>1. Conditions(f) =
              (IF f.from = Nil THEN {} ELSE {[op |-> ">=", at |-> 1]})
         \cup (IF f.to = Nil THEN {} ELSE {[op |-> "<=", at |-> a + 1]})
         \cup (IF f.status = Nil THEN {} ELSE {[op |-> "=", at |-> b + 1]})
    BY <1>1 DEF Conditions
  <2> DEFINE Good(c) == CASE c.op = ">=" -> CreatedAt[p] >= args[c.at]
                          [] c.op = "<=" -> CreatedAt[p] <= args[c.at]
                          [] c.op = "="  -> d.prs[p].status = args[c.at]
  <2>2. /\ Good([op |-> ">=", at |-> 1]) <=> CreatedAt[p] >= args[1]
        /\ Good([op |-> "<=", at |-> a + 1]) <=> CreatedAt[p] <= args[a + 1]
        /\ Good([op |-> "=", at |-> b + 1]) <=> d.prs[p].status = args[b + 1]
    OBVIOUS
  <2> HIDE DEF Good
  <2>3. (\A c \in Conditions(f) : Good(c)) <=>
          /\ f.from # Nil => Good([op |-> ">=", at |-> 1])
          /\ f.to # Nil => Good([op |-> "<=", at |-> a + 1])
          /\ f.status # Nil => Good([op |-> "=", at |-> b + 1])
    BY <2>1
  <2>4. (\A c \in Conditions(f) : Good(c)) <=> Selects(f, d, p)
    BY <1>2, <2>2, <2>3 DEF Selects
  <2> QED BY <2>4 DEF Good
<1> QED
  BY <1>3 DEF Where

\* The filter that the use case makes of the parameters.
LEMMA TheFilterIs ==
  ASSUME Underway, request.kind = "StatsSummary"
  PROVE  /\ TheFilter.from = request.params.from /\ TheFilter.to = request.params.to
         /\ TheFilter.status = request.params.status
         /\ TheFilter.limit \in Nat /\ TheFilter.limit > 0
         /\ TheFilter.limit = IF request.params.limit = Nil \/ request.params.limit <= 0
                              THEN 10 ELSE request.params.limit
<1>1. PICK f : f = request.params
  OBVIOUS
<1>2. f \in Filter
  BY <1>1, RequestIs
<1>3. PICK g : g = GetStatsSummary(f)
  OBVIOUS
<1>4. /\ g.from = f.from /\ g.to = f.to /\ g.status = f.status
      /\ g.limit = IF f.limit # Nil /\ f.limit > 0 THEN f.limit ELSE 0
      /\ g = [from |-> g.from, to |-> g.to, status |-> g.status, limit |-> g.limit]
  BY <1>2, <1>3 DEF GetStatsSummary, Filter
<1>5. /\ TheFilter.from = g.from /\ TheFilter.to = g.to /\ TheFilter.status = g.status
      /\ TheFilter.limit = IF g.limit <= 0 THEN 10 ELSE g.limit
  BY <1>1, <1>3, <1>4 DEF TheFilter, SummaryStats
<1>6. f.limit = Nil \/ f.limit \in Int
  BY <1>2 DEF Filter
<1> QED
  BY <1>1, <1>4, <1>5, <1>6

\* The filter selects what the parameters say.
LEMMA SelectedIs ==
  ASSUME Underway, request.kind = "StatsSummary"
  PROVE  /\ Selected = {p \in Rows(Tables) : Selects(request.params, Tables, p)}
         /\ Rows(Tables) \cap Selected = Selected /\ Selected \in SUBSET PR
         /\ IsFiniteSet(Selected)
<1>1. Selected = {p \in Rows(Tables) : Selects(TheFilter, Tables, p)}
  BY WhereIs DEF Selected
<1>2. \A p : Selects(TheFilter, Tables, p) <=> Selects(request.params, Tables, p)
  BY TheFilterIs DEF Selects
<1>3. Selected \in SUBSET PR
  BY <1>1 DEF Rows
<1> QED
  BY <1>1, <1>2, <1>3, FinitePRs

\* The rows a LIMIT leaves.
LEMMA LimitedIs ==
  ASSUME NEW f, IsFiniteSet(DOMAIN f), NEW rank, NEW n \in Nat,
         NEW g \in Limited(f, rank, n)
  PROVE  /\ DOMAIN g \in SUBSET (DOMAIN f) /\ \A x \in DOMAIN g : g[x] = f[x]
         /\ Cardinality(DOMAIN g) =
              IF n < Cardinality(DOMAIN f) THEN n ELSE Cardinality(DOMAIN f)
         /\ \A x \in DOMAIN g, y \in (DOMAIN f) \ DOMAIN g : rank[x] >= rank[y]
<1> DEFINE k == IF n < Cardinality(DOMAIN f) THEN n ELSE Cardinality(DOMAIN f)
<1>1. PICK S \in kSubset(k, DOMAIN f) :
        /\ \A x \in S, y \in (DOMAIN f) \ S : rank[x] >= rank[y]
        /\ g = [x \in S |-> f[x]]
  BY DEF Limited
<1> HIDE DEF k
<1>2. S \in SUBSET (DOMAIN f) /\ Cardinality(S) = k /\ DOMAIN g = S
  BY <1>1 DEF kSubset
<1> QED
  BY <1>1, <1>2 DEF k

\* The ranking of a summary has the reviewers of the selected PRs.
LEMMA TopIs ==
  ASSUME Underway, request.kind = "StatsSummary",
         NEW rows, rows = ByUser(Tables, Selected)
  PROVE  TopReviewers(Tables, TheFilter) = Limited(rows, rows, TheFilter.limit)
<1>1. PICK f, a, n : f = TheFilter /\ a = Args(f) /\ n = f.limit
  OBVIOUS
<1>2. n \in Nat /\ n > 0
  BY <1>1, TheFilterIs
<1>3. PICK T : a \in Seq(T) /\ n \in T
  <2> DEFINE T == {f.from, f.to, f.status, n}
  <2>1. f.from \in T /\ f.to \in T /\ f.status \in T /\ n \in T
    OBVIOUS
  <2> HIDE DEF T
  <2>2. \A x \in T : Given(x) \in Seq(T)
    BY DEF Given
  <2>3. a \in Seq(T)
    BY <1>1, <2>1, <2>2 DEF Args
  <2> QED BY <2>1, <2>3
<1>4. PICK args : args = Append(a, IF f.limit <= 0 THEN 10 ELSE f.limit)
  OBVIOUS
<1>5. args = Append(a, n)
  BY <1>1, <1>2, <1>4
<1>6. args[Len(a) + 1] = n /\ \A i \in 1..Len(a) : args[i] = a[i]
  BY <1>3, <1>5, AppendProperties
<1>7. Where(Tables, Conditions(f), args) = {p \in Rows(Tables) : Selects(f, Tables, p)}
  BY <1>1, <1>6, WhereIs
<1>8. Selected = {p \in Rows(Tables) : Selects(f, Tables, p)}
  BY <1>1, WhereIs DEF Selected
<1>9. Where(Tables, Conditions(f), args) = Selected
  BY <1>7, <1>8
<1> QED
  BY <1>1, <1>4, <1>6, <1>9 DEF TopReviewers

\* Every PR has at most two reviews.
LEMMA TwoReviewsEach ==
  ASSUME TablesOK, NEW W
  PROVE  Cardinality(Reviews(Tables, W)) <= 2 * Cardinality(Rows(Tables) \cap W)
<1>1. PICK S, K : S = Reviews(Tables, W) /\ K = Rows(Tables) \cap W
  OBVIOUS
<1>2. PICK key : key = [x \in S |-> x[1]]
  OBVIOUS
<1>3. PICK f : f = [k \in K |-> Cardinality({x \in S : key[x] = k})]
  OBVIOUS
<1> DEFINE two == [k \in K |-> 2]
<1>4. IsFiniteSet(S) /\ IsFiniteSet(K) /\ K \in SUBSET PR
  BY <1>1, RowsFinite
<1>5. \A x \in S : key[x] \in K
  BY <1>2, <1>1 DEF Reviews
<1>6. Sum(f, K) = Cardinality(S)
  <2>1. Counts(f, K, S, key)
    BY <1>3, <1>5 DEF Counts
  <2> QED BY <1>4, <2>1, SumOfCounts
<1>7. ASSUME NEW k \in K
      PROVE  f[k] \in Nat /\ f[k] <= 2
  <2>1. /\ k \in PR /\ ledger[k] # Nil
        /\ \A x : x \in S /\ x[1] = k <=> x \in {k} \X ledger[k].reviewers
    <3>1. k \in PR /\ ledger[k] # Nil /\ ledger[k].reviewers \in SUBSET User
      BY <1>1, <1>4, RecordIs DEF Rows, Tables
    <3> QED BY <1>1, <3>1 DEF Reviews, Tables
  <2>2. PICK R, T : R = ledger[k].reviewers /\ T = {x \in S : key[x] = k}
    OBVIOUS
  <2>3. R \in SUBSET User /\ Cardinality(R) <= 2
    BY <2>1, <2>2, RecordIs DEF Sound
  <2>4. T = {<<k, u>> : u \in R}
    BY <1>2, <2>1, <2>2
  <2> DEFINE g == [u \in R |-> <<k, u>>]
  <2>5. g \in Surjection(R, T)
    BY <2>4 DEF Surjection
  <2> HIDE DEF g
  <2>6. IsFiniteSet(R) /\ Cardinality(R) \in Nat
    BY <2>3, FiniteUsers
  <2>7. IsFiniteSet(T) /\ Cardinality(T) <= Cardinality(R)
    BY <2>5, <2>6, FS_Surjection
  <2>8. Cardinality(T) \in Nat
    BY <2>7, FS_CardinalityType
  <2>9. f[k] = Cardinality(T)
    BY <1>3, <2>2
  <2> QED BY <2>3, <2>6, <2>7, <2>8, <2>9
<1>8. \A k \in K : two[k] \in Nat /\ two[k] = 2
  OBVIOUS
<1> HIDE DEF two
<1>9. Sum(f, K) <= Sum(two, K)
  BY <1>4, <1>7, <1>8, SumLeq
<1>10. Sum(two, K) = 2 * Cardinality(K)
  BY <1>4, <1>8, SumConst
<1> QED
  BY <1>1, <1>6, <1>9, <1>10

\* A ranking adds up to no more than what is ranked.
LEMMA TopTotal ==
  ASSUME Underway, request.kind = "StatsSummary",
         NEW g \in TopReviewers(Tables, TheFilter)
  PROVE  /\ Total(g) \in Nat
         /\ Total(g) <= Cardinality(Reviews(Tables, Selected))
<1>1. PICK f, n : f = ByUser(Tables, Selected) /\ n = TheFilter.limit
  OBVIOUS
<1>2. n \in Nat
  BY <1>1, TheFilterIs
<1>3. g \in Limited(f, f, n)
  BY <1>1, TopIs
<1>4. IsFiniteSet(DOMAIN f) /\ \A k \in DOMAIN f : f[k] \in Nat
  <2>1. PICK S : S = Reviews(Tables, Selected)
    OBVIOUS
  <2> DEFINE key == [x \in S |-> x[2]]
  <2>2. f = [k \in {key[x] : x \in S} |-> Cardinality({x \in S : key[x] = k})]
    BY <1>1, <2>1 DEF ByUser, CountBy
  <2> HIDE DEF key
  <2>3. IsFiniteSet(S)
    BY <2>1, RowsFinite
  <2> QED BY <2>2, <2>3, CountsAddUp
<1>5. DOMAIN g \in SUBSET (DOMAIN f) /\ \A x \in DOMAIN g : g[x] = f[x]
  BY <1>2, <1>3, <1>4, LimitedIs
<1>6. /\ IsFiniteSet(DOMAIN g)
      /\ \A x \in DOMAIN g : g[x] \in Nat /\ f[x] \in Nat /\ g[x] <= f[x]
  BY <1>4, <1>5, FS_Subset
<1>7. Sum(g, DOMAIN g) \in Nat /\ Sum(g, DOMAIN g) <= Sum(f, DOMAIN g)
  BY <1>6, SumAdd, SumLeq
<1>8. Sum(f, DOMAIN g) <= Sum(f, DOMAIN f)
  BY <1>4, <1>5, SumSubset
<1>9. Sum(f, DOMAIN g) \in Nat /\ Sum(f, DOMAIN f) \in Nat
  BY <1>4, <1>6, SumAdd
<1>10. Total(g) = Sum(g, DOMAIN g) /\ Total(f) = Sum(f, DOMAIN f)
  BY DEF Total, Sum
<1>11. Total(f) = Cardinality(Reviews(Tables, Selected))
  BY <1>1, Totals
<1> QED
  BY <1>7, <1>8, <1>9, <1>10, <1>11

\* StatsSummary keeps what the summary says.
LEMMA SummaryPreserves ==
  ASSUME TablesOK, Underway, SummaryReport, StatsSummary
  PROVE  SummaryReport'
<1> DEFINE merged == request.params.status = "MERGED"
           all == Cardinality(Reviews(Tables, Selected))
<1>1. /\ request.kind = "StatsSummary" /\ UNCHANGED <<ledger, team, request, past>>
  BY SummaryIs, StatsSummaryUnderway
<1>2. /\ Tables' = Tables /\ Quiet' = Quiet /\ TheFilter' = TheFilter
      /\ merged' = merged
  BY <1>1 DEF Tables, Quiet, TheFilter
<1>3. Selected' = Selected
  BY <1>2 DEF Selected
<1>4. /\ TopReviewers(Tables, TheFilter)' = TopReviewers(Tables, TheFilter)
      /\ ByStatus(Tables, Selected)' = ByStatus(Tables, Selected)
      /\ ByTeam(Tables, Selected)' = ByTeam(Tables, Selected)
      /\ Reviews(Tables, Selected)' = Reviews(Tables, Selected)
  BY <1>2, <1>3
<1>5. /\ Total(ByStatus(Tables, Selected)) = Cardinality(Selected)
      /\ Total(ByTeam(Tables, Selected)) = all
      /\ all \in Nat /\ Cardinality(Selected) \in Nat
      /\ all <= 2 * Cardinality(Selected)
  <2>1. Rows(Tables) \cap Selected = Selected /\ IsFiniteSet(Selected)
    BY <1>1, SelectedIs
  <2>2. IsFiniteSet(Reviews(Tables, Selected))
    BY RowsFinite
  <2>3. /\ Total(ByStatus(Tables, Selected)) = Cardinality(Selected)
        /\ Total(ByTeam(Tables, Selected)) = all
    BY <2>1, Totals
  <2>4. all <= 2 * Cardinality(Selected)
    BY <2>1, TwoReviewsEach
  <2>5. all \in Nat /\ Cardinality(Selected) \in Nat
    BY <2>1, <2>2, FS_CardinalityType
  <2> QED BY <2>3, <2>4, <2>5
<1>6. CASE parts' = parts
  BY <1>1, <1>2, <1>3, <1>4, <1>6 DEF SummaryReport, Has
<1>7. ASSUME DOMAIN parts = {}, NEW g \in TopReviewers(Tables, TheFilter),
             Adds("TopReviewers", g)
      PROVE  SummaryReport'
  <2>1. DOMAIN parts' = {"TopReviewers"} /\ parts'["TopReviewers"] = g
    BY <1>7 DEF Adds
  <2>2. Total(g) \in Nat /\ Total(g) <= all
    BY <1>1, <1>7, TopTotal
  <2> QED BY <1>2, <1>4, <1>7, <2>1, <2>2 DEF SummaryReport, Has
<1>8. CASE /\ DOMAIN parts = {"TopReviewers"}
           /\ Adds("PRStatusCounts", ByStatus(Tables, Selected))
  <2> DEFINE top == Total(parts["TopReviewers"])
  <2>1. /\ DOMAIN parts' = {"TopReviewers", "PRStatusCounts"}
        /\ parts'["TopReviewers"] = parts["TopReviewers"]
        /\ parts'["PRStatusCounts"] = ByStatus(Tables, Selected)
    BY <1>8 DEF Adds
  <2>2. /\ Quiet => parts["TopReviewers"] \in TopReviewers(Tables, TheFilter)
        /\ merged => top \in Nat /\ top <= all
    BY <1>1, <1>8 DEF SummaryReport, Has
  <2>3. merged => top <= 2 * Total(ByStatus(Tables, Selected))
    <3> HIDE DEF all, top, merged
    <3>1. merged => top <= 2 * Cardinality(Selected)
      BY <1>5, <2>2
    <3> QED BY <1>5, <3>1
  <2>4. Total(parts'["TopReviewers"]) = top
    BY <2>1
  <2> HIDE DEF all, top, merged
  <2>5. /\ (Quiet' => parts'["TopReviewers"] \in TopReviewers(Tables, TheFilter)')
        /\ (Quiet' => parts'["PRStatusCounts"] = ByStatus(Tables, Selected)')
        /\ merged' => top \in Nat /\ top <= Cardinality(Reviews(Tables, Selected)')
        /\ merged' => top <= 2 * Total(parts'["PRStatusCounts"])
    BY <1>2, <1>4, <2>1, <2>2, <2>3 DEF all
  <2> QED BY <2>1, <2>4, <2>5 DEF SummaryReport, Has, merged
<1>9. CASE /\ DOMAIN parts = {"TopReviewers", "PRStatusCounts"}
           /\ Adds("TeamAssignments", ByTeam(Tables, Selected))
  <2> DEFINE top == Total(parts["TopReviewers"])
  <2>1. /\ DOMAIN parts' = SummaryFields
        /\ parts'["TopReviewers"] = parts["TopReviewers"]
        /\ parts'["PRStatusCounts"] = parts["PRStatusCounts"]
        /\ parts'["TeamAssignments"] = ByTeam(Tables, Selected)
    BY <1>9 DEF Adds, SummaryFields
  <2>2. /\ Quiet => parts["TopReviewers"] \in TopReviewers(Tables, TheFilter)
        /\ Quiet => parts["PRStatusCounts"] = ByStatus(Tables, Selected)
        /\ merged => top \in Nat /\ top <= all
        /\ merged => top <= 2 * Total(parts["PRStatusCounts"])
    BY <1>1, <1>9 DEF SummaryReport, Has
  <2>3. merged => top <= Total(ByTeam(Tables, Selected))
    BY <1>5, <2>2
  <2>4. Total(parts'["TopReviewers"]) = top
    BY <2>1
  <2> HIDE DEF all, top, merged
  <2>5. /\ (Quiet' => parts'["TopReviewers"] \in TopReviewers(Tables, TheFilter)')
        /\ (Quiet' => parts'["PRStatusCounts"] = ByStatus(Tables, Selected)')
        /\ (Quiet' => parts'["TeamAssignments"] = ByTeam(Tables, Selected)')
        /\ merged' => top \in Nat /\ top <= Cardinality(Reviews(Tables, Selected)')
        /\ merged' => top <= 2 * Total(parts'["PRStatusCounts"])
        /\ merged' => top <= Total(parts'["TeamAssignments"])
    BY <1>2, <1>4, <2>1, <2>2, <2>3 DEF all
  <2> QED BY <2>1, <2>4, <2>5 DEF SummaryReport, Has, merged
<1>10. CASE /\ DOMAIN parts = {}
            /\ Answers(Gives("TopReviewers", TopReviewers(Tables, TheFilter)))
  BY <1>6, <1>7, <1>10 DEF Answers, Gives
<1>11. CASE /\ DOMAIN parts = {"TopReviewers"}
            /\ Answers(Gives("PRStatusCounts", {ByStatus(Tables, Selected)}))
  BY <1>6, <1>8, <1>11 DEF Answers, Gives
<1>12. CASE /\ DOMAIN parts = {"TopReviewers", "PRStatusCounts"}
            /\ Answers(Gives("TeamAssignments", {ByTeam(Tables, Selected)}))
  BY <1>6, <1>9, <1>12 DEF Answers, Gives
<1> QED
  BY <1>10, <1>11, <1>12, SummaryIs

\* The writers keep it: over merged PRs the selection only grows, and what is
\* selected stays what it is.
LEMMA SummaryReportWriters ==
  ASSUME TablesOK, Underway, SummaryReport, Writes
  PROVE  SummaryReport'
<1> SUFFICES ASSUME request.kind = "StatsSummary"
             PROVE  SummaryReport'
  BY WriterIs DEF SummaryReport
<1> DEFINE merged == request.params.status = "MERGED"
           top == Total(parts["TopReviewers"])
           all == Cardinality(Reviews(Tables, Selected))
<1>1. Effect /\ UNCHANGED <<request, parts>> /\ ~Quiet' /\ Underway'
  <2>1. Effect /\ UNCHANGED <<request, parts, err>> /\ ~Quiet'
    BY WriterIs, WriterTables DEF Quiet
  <2> QED BY <2>1 DEF Underway, Stages
<1>2. ASSUME merged PROVE all \in Nat /\ all' \in Nat /\ all <= all'
  <2>1. /\ Selected = {p \in Rows(Tables) : Selects(request.params, Tables, p)}
        /\ Selected \in SUBSET PR
    BY SelectedIs
  <2>2. Selected' = {p \in Rows(Tables)' : Selects(request.params, Tables', p)}
    <3>1. \A f, d, args : (\A i \in 1..Len(Args(f)) : args[i] = Args(f)[i]) =>
            Where(d, Conditions(f), args) = {p \in Rows(d) : Selects(f, d, p)}
      BY WhereIs
    <3>2. PICK f, d : f = TheFilter' /\ d = Tables'
      OBVIOUS
    <3>3. Selected' = Where(d, Conditions(f), Args(f))
      BY <3>2 DEF Selected
    <3>4. Selected' = {p \in Rows(d) : Selects(f, d, p)}
      BY <3>1, <3>3
    <3>5. f = TheFilter
      BY <1>1, <3>2 DEF TheFilter
    <3>6. \A p : Selects(f, d, p) <=> Selects(request.params, d, p)
      BY <3>5, TheFilterIs DEF Selects
    <3> QED BY <3>2, <3>4, <3>6
  <2>3. ASSUME NEW p \in Selected
        PROVE  p \in PR /\ p \in Selected' /\ ledger'[p] = ledger[p] /\ ledger[p] # Nil
    <3>1. p \in PR /\ ledger[p] # Nil /\ Selects(request.params, Tables, p)
      BY <2>1, <2>3 DEF Rows, Tables
    <3>2. ledger[p].status = "MERGED"
      BY <1>2, <3>1, NilAssumption, SMT DEF Selects, Tables
    <3>3. ledger[p] \in Record /\ Sound(ledger[p]) /\ Grown(ledger[p], ledger'[p])
      BY <1>1, <3>1, RecordIs DEF Effect
    <3>4. ledger'[p] = ledger[p]
      BY <3>2, <3>3, GrownIs
    <3>5. Selects(request.params, Tables', p) /\ p \in Rows(Tables)'
      BY <3>1, <3>4 DEF Selects, Tables, Rows
    <3> QED BY <2>2, <3>1, <3>4, <3>5
  <2>4. Reviews(Tables, Selected) \in SUBSET (Reviews(Tables, Selected)')
    BY <2>3 DEF Reviews, Tables, Rows
  <2>5. IsFiniteSet(Reviews(Tables, Selected)')
    BY RowsFinite
  <2> QED BY <2>4, <2>5, FS_Subset, FS_CardinalityType
<1>3. merged /\ Has("TopReviewers") => top \in Nat /\ top <= all
  BY DEF SummaryReport
<1>4. merged /\ Has("TopReviewers") => top \in Nat /\ top <= all'
  <2> HIDE DEF merged, top, all
  <2> QED BY <1>2, <1>3
<1>5. /\ merged /\ Has("PRStatusCounts") => top <= 2 * Total(parts["PRStatusCounts"])
      /\ merged /\ Has("TeamAssignments") => top <= Total(parts["TeamAssignments"])
  BY DEF SummaryReport
<1>6. /\ merged' = merged /\ top' = top
      /\ \A x : (Has(x))' <=> Has(x)
  BY <1>1 DEF Has
<1> HIDE DEF merged, top, all
<1> QED
  BY <1>1, <1>4, <1>5, <1>6 DEF SummaryReport, merged, top, all

-------------------------------------------------------------------------------
(* The report on a reviewer.                                               *)

\* The counters of a reviewer count the PRs of each status.
LEMMA StatusCountsIs ==
  ASSUME NEW f, IsFiniteSet(DOMAIN f), NEW s \in {"OPEN", "MERGED"}
  PROVE  StatusCounts(f)[s] = Cardinality({p \in DOMAIN f : f[p] = s})
<1> DEFINE D == DOMAIN f
           cnt == CountBy(D, LAMBDA p : f[p])
<1>1. StatusCounts(f)[s] = IF s \in DOMAIN cnt THEN cnt[s] ELSE 0
  BY DEF StatusCounts, Counted
<1>2. cnt = [k \in {f[p] : p \in D} |-> Cardinality({p \in D : f[p] = k})]
  BY DEF CountBy
<1> HIDE DEF cnt
<1>3. CASE s \in DOMAIN cnt
  BY <1>1, <1>2, <1>3
<1>4. CASE s \notin DOMAIN cnt
  <2>1. {p \in D : f[p] = s} = {}
    BY <1>2, <1>4
  <2> QED BY <1>1, <1>4, <2>1, NoFields
<1> QED
  BY <1>3, <1>4

\* The reviews of a user.
LEMMA TheReviewsIs ==
  /\ DOMAIN TheReviews \in SUBSET PR /\ IsFiniteSet(DOMAIN TheReviews)
  /\ MergedBy(request.user) =
       {p \in DOMAIN TheReviews : TheReviews[p] = "MERGED"}
  /\ IsFiniteSet(MergedBy(request.user))
  /\ \A p \in DOMAIN TheReviews : /\ ledger[p] # Nil
                                  /\ TheReviews[p] = ledger[p].status
                                  /\ request.user \in ledger[p].reviewers
<1>1. TheReviews =
        [p \in {p \in Rows(Tables) : request.user \in ledger[p].reviewers} |->
           ledger[p].status]
  BY DEF TheReviews, ReviewedBy, Tables
<1>2. DOMAIN TheReviews \in SUBSET PR
  BY <1>1 DEF Rows
<1>3. MergedBy(request.user) \in SUBSET PR
  BY DEF MergedBy
<1>4. MergedBy(request.user) =
        {p \in DOMAIN TheReviews : TheReviews[p] = "MERGED"}
  BY <1>1 DEF MergedBy, Rows, Tables
<1> QED
  BY <1>1, <1>2, <1>3, <1>4, FinitePRs DEF Rows, Tables

\* The number of PRs that are listed.
LEMMA TheLimitIs ==
  ASSUME Underway, request.kind = "ReviewerStats"
  PROVE  TheLimit \in Nat /\ TheLimit = ReviewerLimit
<1>1. request.limit \in Int \cup {Nil}
  BY RequestIs
<1>2. TheLimit = IF request.limit # Nil /\ request.limit > 0 THEN request.limit ELSE 10
  BY DEF TheLimit, GetStatsReviewerUserId
<1>3. ReviewerLimit =
        IF request.limit = Nil \/ request.limit <= 0 THEN 10 ELSE request.limit
  BY DEF ReviewerLimit
<1> QED
  BY <1>1, <1>2, <1>3

\* ReviewerStats keeps what the report on a reviewer says.
LEMMA ReviewerPreserves ==
  ASSUME TablesOK, Underway, ReviewerReport, ReviewerStats
  PROVE  ReviewerReport'
<1> DEFINE u == request.user
           merged == Cardinality(MergedBy(u))
           cut(recent) == Cardinality({p \in DOMAIN recent : recent[p] = "MERGED"})
<1>1. /\ request.kind = "ReviewerStats" /\ UNCHANGED <<ledger, team, request, past>>
  BY ReviewerStatsIs, ReviewerStatsUnderway
<1>2. /\ Tables' = Tables /\ Quiet' = Quiet /\ TheReviews' = TheReviews
      /\ TheLimit' = TheLimit /\ merged' = merged
  BY <1>1 DEF Tables, Quiet, TheReviews, TheLimit, MergedBy
<1>3. /\ StatusCounts(TheReviews)["MERGED"] = merged /\ merged \in Nat
  BY TheReviewsIs, StatusCountsIs, FS_CardinalityType
<1>4. CASE parts' = parts
  BY <1>1, <1>2, <1>4 DEF ReviewerReport, Has
<1>5. CASE DOMAIN parts = {} /\ \E r \in UserExists(u) : Adds("UserID", r)
  <2>1. DOMAIN parts' = {"UserID"}
    BY <1>5 DEF Adds
  <2> QED BY <2>1 DEF ReviewerReport, Has
<1>6. CASE /\ DOMAIN parts = {"UserID"}
           /\ Adds("AssignCnt", Cardinality(DOMAIN TheReviews))
  <2>1. /\ DOMAIN parts' = {"UserID", "AssignCnt"}
        /\ parts'["AssignCnt"] = Cardinality(DOMAIN TheReviews)
    BY <1>6 DEF Adds
  <2> QED BY <1>2, <2>1 DEF ReviewerReport, Has
<1>7. CASE /\ DOMAIN parts = {"UserID", "AssignCnt"}
           /\ Adds("Counts", StatusCounts(TheReviews))
  <2>1. /\ DOMAIN parts' = {"UserID", "AssignCnt", "Counts"}
        /\ parts'["AssignCnt"] = parts["AssignCnt"]
        /\ parts'["Counts"] = StatusCounts(TheReviews)
    BY <1>7 DEF Adds
  <2>2. Quiet => parts["AssignCnt"] = Cardinality(DOMAIN TheReviews)
    BY <1>1, <1>7 DEF ReviewerReport, Has
  <2>3. parts'["Counts"]["MERGED"] \in 0..merged
    BY <1>3, <2>1
  <2> QED BY <1>2, <2>1, <2>2, <2>3 DEF ReviewerReport, Has
<1>8. ASSUME DOMAIN parts = {"UserID", "AssignCnt", "Counts"},
             NEW g \in Limited(TheReviews, CreatedAt, TheLimit),
             Adds("RecentPRs", g)
      PROVE  ReviewerReport'
  <2>1. /\ DOMAIN parts' = ReviewerFields
        /\ parts'["AssignCnt"] = parts["AssignCnt"]
        /\ parts'["Counts"] = parts["Counts"]
        /\ parts'["RecentPRs"] = g
    BY <1>8 DEF Adds, ReviewerFields
  <2>2. /\ Quiet => parts["AssignCnt"] = Cardinality(DOMAIN TheReviews)
        /\ Quiet => parts["Counts"] = StatusCounts(TheReviews)
        /\ parts["Counts"]["MERGED"] \in 0..merged
    BY <1>1, <1>8 DEF ReviewerReport, Has
  <2>3. ASSUME Cardinality(DOMAIN g) < TheLimit
        PROVE  parts["Counts"]["MERGED"] <= cut(g)
    <3>1. PICK f, n : f = TheReviews /\ n = TheLimit
      OBVIOUS
    <3>2. IsFiniteSet(DOMAIN f) /\ n \in Nat /\ g \in Limited(f, CreatedAt, n)
      BY <1>1, <1>8, <3>1, TheReviewsIs, TheLimitIs
    <3>3. /\ DOMAIN g \in SUBSET (DOMAIN f) /\ \A x \in DOMAIN g : g[x] = f[x]
          /\ Cardinality(DOMAIN g) =
               IF n < Cardinality(DOMAIN f) THEN n ELSE Cardinality(DOMAIN f)
      BY <3>2, LimitedIs
    <3>4. ~(n < n)
      BY <3>2
    <3>5. Cardinality(DOMAIN g) = Cardinality(DOMAIN f)
      BY <2>3, <3>1, <3>3, <3>4
    <3>6. DOMAIN g = DOMAIN f
      BY <3>2, <3>3, <3>5, FS_Subset
    <3>7. {p \in DOMAIN g : g[p] = "MERGED"} = MergedBy(u)
      BY <3>1, <3>3, <3>6, TheReviewsIs
    <3> QED BY <1>3, <2>2, <3>7
  <2>4. Cardinality(DOMAIN g) < TheLimit' => parts'["Counts"]["MERGED"] <= cut(g)
    BY <1>2, <2>1, <2>3
  <2> QED BY <1>2, <1>8, <2>1, <2>2, <2>4 DEF ReviewerReport, Has
<1>9. CASE /\ DOMAIN parts = {}
           /\ Answers(Needs("UserID", UserExists(u), "ErrUserNotFound"))
  BY <1>4, <1>5, <1>9 DEF Answers, Needs
<1>10. CASE /\ DOMAIN parts = {"UserID"}
            /\ Answers(Gives("AssignCnt", {Cardinality(DOMAIN TheReviews)}))
  BY <1>4, <1>6, <1>10 DEF Answers, Gives
<1>11. CASE /\ DOMAIN parts = {"UserID", "AssignCnt"}
            /\ Answers(Gives("Counts", {StatusCounts(TheReviews)}))
  BY <1>4, <1>7, <1>11 DEF Answers, Gives
<1>12. CASE /\ DOMAIN parts = {"UserID", "AssignCnt", "Counts"}
            /\ Answers(Gives("RecentPRs", Limited(TheReviews, CreatedAt, TheLimit)))
  BY <1>4, <1>8, <1>12 DEF Answers, Gives
<1> QED
  BY <1>9, <1>10, <1>11, <1>12, ReviewerStatsIs

\* The writers keep it: what is merged keeps its reviewers.
LEMMA ReviewerReportWriters ==
  ASSUME TablesOK, Underway, ReviewerReport, Writes
  PROVE  ReviewerReport'
<1> SUFFICES ASSUME request.kind = "ReviewerStats"
             PROVE  ReviewerReport'
  BY WriterIs DEF ReviewerReport
<1> DEFINE m == Cardinality(MergedBy(request.user))
<1>1. Effect /\ UNCHANGED <<request, parts>> /\ ~Quiet' /\ TheLimit' = TheLimit
  BY WriterIs, WriterTables DEF Quiet, TheLimit
<1>2. m \in Nat /\ m' \in Nat /\ m <= m'
  <2>1. ASSUME NEW p \in MergedBy(request.user) PROVE p \in (MergedBy(request.user))'
    <3>1. /\ p \in PR /\ ledger[p] # Nil /\ ledger[p].status = "MERGED"
          /\ request.user \in ledger[p].reviewers
      BY <2>1 DEF MergedBy
    <3>2. /\ ledger[p] \in Record /\ Sound(ledger[p])
          /\ Grown(ledger[p], ledger'[p])
      BY <1>1, <3>1, RecordIs DEF Effect
    <3>3. ledger'[p] = ledger[p]
      BY <3>1, <3>2, GrownIs
    <3> QED BY <1>1, <3>1, <3>3 DEF MergedBy
  <2>2. (MergedBy(request.user))' \in SUBSET PR
    BY DEF MergedBy
  <2>3. IsFiniteSet((MergedBy(request.user))')
    BY <2>2, FinitePRs
  <2> QED BY <2>1, <2>3, FS_Subset, FS_CardinalityType
<1>3. Has("Counts") => parts["Counts"]["MERGED"] \in 0..m
  BY DEF ReviewerReport
<1>4. Has("Counts") => parts["Counts"]["MERGED"] \in 0..m'
  <2> HIDE DEF m
  <2> QED BY <1>2, <1>3
<1> QED
  BY <1>1, <1>4 DEF ReviewerReport, Has

-------------------------------------------------------------------------------
(* The invariant.                                                          *)

\* Nothing a report says changes when nothing it speaks of does.
LEMMA Kept ==
  ASSUME StatsInv, UNCHANGED <<ledger, team, request, parts, past>>
  PROVE  TablesOK' /\ PRReport' /\ StatsReport' /\ SummaryReport' /\ ReviewerReport'
<1>1. /\ ledger' = ledger /\ team' = team /\ request' = request /\ parts' = parts
      /\ past' = past /\ Tables' = Tables /\ Seen' = Seen /\ Quiet' = Quiet
      /\ TheFilter' = TheFilter /\ TheReviews' = TheReviews /\ TheLimit' = TheLimit
      /\ MergedBy(request.user)' = MergedBy(request.user)
  BY DEF Tables, Seen, Quiet, TheFilter, TheReviews, TheLimit, MergedBy
<1>2. Selected' = Selected
  BY <1>1 DEF Selected
<1>3. TablesOK'
  BY <1>1 DEF StatsInv, TablesOK
<1>4. PRReport'
  BY <1>1 DEF StatsInv, PRReport, Has
<1>5. StatsReport'
  BY <1>1 DEF StatsInv, StatsReport, Has
<1>6. SummaryReport'
  BY <1>1, <1>2 DEF StatsInv, SummaryReport, Has
<1>7. ReviewerReport'
  BY <1>1 DEF StatsInv, ReviewerReport, Has
<1> QED
  BY <1>3, <1>4, <1>5, <1>6, <1>7

\* A report that has just been asked for says nothing yet.
LEMMA StatsInitInv ==
  ASSUME StatsInit
  PROVE  StatsInv
<1>1. PICK s \in Seeds : ledger = s.prs /\ team = s.team
  BY DEF StatsInit
<1>2. /\ request \in Requests /\ parts = <<>> /\ past = <<>>
      /\ err = GetUsersGetReview(request)
  BY DEF StatsInit
<1>3. DOMAIN parts = {}
  BY <1>2
<1>4. TablesOK
  BY <1>1, <1>2, SeedsAssumption DEF TablesOK
<1>5. request \in AnyRequest
  BY <1>2, RequestsAssumption
<1>6. request.kind \in {"Stats", "StatsSummary", "ReviewerStats", "PRStats",
                        "GetUserReviews"}
  BY <1>5 DEF AnyRequest
<1>7. {} \in Stages
  BY <1>6 DEF Stages
<1>8. Underway
  BY <1>2, <1>3, <1>7 DEF Underway, GetUsersGetReview
<1> QED
  BY <1>3, <1>4, <1>8
     DEF StatsInv, PRReport, StatsReport, SummaryReport, ReviewerReport, Has

\* A query of a report is about that kind of report only.
LEMMA OtherReports ==
  ASSUME StatsInv, request' = request
  PROVE  /\ request.kind # "PRStats" => PRReport'
         /\ request.kind # "Stats" => StatsReport'
         /\ request.kind # "StatsSummary" => SummaryReport'
         /\ request.kind # "ReviewerStats" => ReviewerReport'
BY DEF PRReport, StatsReport, SummaryReport, ReviewerReport

\* A query keeps it.
LEMMA ReadingInv ==
  ASSUME StatsInv, Reading
  PROVE  StatsInv'
<1> USE DEF StatsInv
<1>1. Underway' /\ UNCHANGED <<ledger, team, request, past>>
  BY ReadingUnderway
<1>2. TablesOK'
  BY <1>1 DEF TablesOK
<1>3. CASE Stats
  <2>1. request.kind = "Stats" /\ StatsReport'
    BY <1>3, StatsIs, StatsPreserves
  <2> QED BY <1>1, <1>2, <2>1, OtherReports
<1>4. CASE StatsSummary
  <2>1. request.kind = "StatsSummary" /\ SummaryReport'
    BY <1>4, SummaryIs, SummaryPreserves
  <2> QED BY <1>1, <1>2, <2>1, OtherReports
<1>5. CASE ReviewerStats
  <2>1. request.kind = "ReviewerStats" /\ ReviewerReport'
    BY <1>5, ReviewerStatsIs, ReviewerPreserves
  <2> QED BY <1>1, <1>2, <2>1, OtherReports
<1>6. CASE PRStats
  <2>1. request.kind = "PRStats" /\ PRReport'
    BY <1>6, PRStatsIs, PRStatsPreserves
  <2> QED BY <1>1, <1>2, <2>1, OtherReports
<1>7. CASE GetUserReviews
  <2>1. request.kind = "GetUserReviews"
    BY <1>7, UserReviewsIs
  <2> QED BY <1>1, <1>2, <2>1, OtherReports
<1> QED
  BY <1>3, <1>4, <1>5, <1>6, <1>7 DEF Reading

\* A failing query keeps it.
LEMMA FailingInv ==
  ASSUME StatsInv, QueryFails
  PROVE  StatsInv'
<1>1. UNCHANGED <<ledger, team, request, parts, past>> /\ err' = "internal"
  BY DEF QueryFails
<1>2. Underway'
  BY <1>1 DEF StatsInv, Underway, Stages
<1> QED
  BY <1>1, <1>2, Kept DEF StatsInv

\* A commit keeps it.
LEMMA WriterInv ==
  ASSUME StatsInv, Writes
  PROVE  StatsInv'
<1> USE DEF StatsInv
<1>1. TablesOK' /\ UNCHANGED <<request, parts, err>>
  BY WriterIs, WriterTables
<1>2. Underway'
  BY <1>1 DEF Underway, Stages
<1> QED
  BY <1>1, <1>2, PRReportWriters, StatsReportWriters, SummaryReportWriters,
     ReviewerReportWriters

\* Every step keeps it.
LEMMA StatsStepInv ==
  ASSUME StatsInv, [StatsNext]_vars
  PROVE  StatsInv'
<1>1. CASE Reading
  BY <1>1, ReadingInv
<1>2. CASE QueryFails
  BY <1>2, FailingInv
<1>3. CASE Writes
  BY <1>3, WriterInv
<1>4. CASE UNCHANGED vars
  <2>1. UNCHANGED <<ledger, team, request, parts, past>> /\ err' = err
    BY <1>4 DEF vars
  <2>2. Underway'
    BY <2>1 DEF StatsInv, Underway, Stages
  <2> QED BY <2>1, <2>2, Kept DEF StatsInv
<1> QED
  BY <1>1, <1>2, <1>3, <1>4 DEF StatsNext, Reading, Writes

\* Whatever the tables, the report and the commits between its queries are,
\* every state satisfies the invariant.
THEOREM StatsHolds == StatsSpec => []StatsInv
<1>1. StatsInit => StatsInv
  BY StatsInitInv
<1>2. StatsInv /\ [StatsNext]_vars => StatsInv'
  BY StatsStepInv
<1> QED
  BY <1>1, <1>2, PTL DEF StatsSpec

-------------------------------------------------------------------------------
(* What the reports of the service promise.                                *)

\* The tables keep their keys, the answer gets its fields in the order of
\* the queries, and what it shows of a PR has the types of the API.
THEOREM TypeOKHolds == StatsSpec => []TypeOK
<1>1. ASSUME StatsInv PROVE TypeOK
  <2>1. TablesOK /\ Underway /\ PRReport
    BY <1>1 DEF StatsInv
  <2>2. \A p \in Rows(Tables) :
          /\ ledger[p] \in Record
          /\ \A u \in {ledger[p].author} \cup ledger[p].reviewers : team[u] # Nil
    BY <2>1, RecordIs DEF Rows, Tables, KnownIn
  <2>3. team \in [User -> Team \cup {Nil}]
    BY <2>1 DEF TablesOK
  <2>4. DOMAIN parts \subseteq Fields(request.kind)
    BY <2>1, RequestIs
       DEF Underway, Stages, Fields, StatsFields, SummaryFields, ReviewerFields,
           PRFields
  <2>5. ASSUME Made("PRStats")
        PROVE  /\ parts["Status"] \in {"OPEN", "MERGED"}
               /\ parts["Reviewers"] \subseteq User
               /\ parts["Reassignments"] \in Seq([old : User, new : User \cup {Nil}])
    BY <2>1, <2>5 DEF PRReport, Has, Made, Fields, PRFields
  <2> QED BY <2>1, <2>2, <2>3, <2>4, <2>5 DEF TypeOK, Underway
<1> QED
  BY <1>1, StatsHolds, PTL

\* A report that calls a PR merged shows the reviewers and the history it
\* has for good, whatever was committed between PRStats's queries.
THEOREM MergedReportIsFinalHolds == StatsSpec => []MergedReportIsFinal
<1>1. StatsInv => MergedReportIsFinal
  BY DEF StatsInv, PRReport, Has, MergedReportIsFinal, Made, Fields, PRFields
<1> QED
  BY <1>1, StatsHolds, PTL

\* The reported history leads to the reviewers of a record the PR had while
\* the report was made, and undoing the last of its changes gives the
\* reviewers that are reported.
THEOREM HistoryExplainsReviewersHolds == StatsSpec => []HistoryExplainsReviewers
<1>1. ASSUME StatsInv, Made("PRStats") PROVE HistoryExplainsReviewers
  <2>1. PICK s \in Seen :
          /\ s.prs[request.pr] # Nil
          /\ s.prs[request.pr].history = parts["Reassignments"]
          /\ Explains(s.prs[request.pr], parts["Reviewers"])
    BY <1>1 DEF StatsInv, PRReport, Has, Made, Fields, PRFields
  <2> QED BY <2>1 DEF HistoryExplainsReviewers, Explains
<1>2. StatsInv => HistoryExplainsReviewers
  BY <1>1 DEF HistoryExplainsReviewers
<1> QED
  BY <1>2, StatsHolds, PTL

\* Stats counts every PR that it shows with reviewers.
THEOREM CountedPRsExistHolds == StatsSpec => []CountedPRsExist
<1>1. StatsInv => CountedPRsExist
  BY DEF StatsInv, StatsReport, Has, CountedPRsExist, Made, Fields, StatsFields
<1> QED
  BY <1>1, StatsHolds, PTL

\* Over merged PRs the numbers of StatsSummary's later queries are never
\* behind those of the earlier ones.
THEOREM MergedTotalsGrowHolds == StatsSpec => []MergedTotalsGrow
<1>1. StatsInv => MergedTotalsGrow
  BY DEF StatsInv, SummaryReport, Has, MergedTotalsGrow, Made, Fields, SummaryFields
<1> QED
  BY <1>1, StatsHolds, PTL

\* ReviewerStats lists every merged PR that it counts, unless the list is
\* cut off.
THEOREM CountedMergedAreListedHolds == StatsSpec => []CountedMergedAreListed
<1>1. ASSUME StatsInv, Made("ReviewerStats") PROVE CountedMergedAreListed
  <2>1. TheLimit = ReviewerLimit
    BY <1>1, TheLimitIs DEF StatsInv, Made
  <2> QED
    BY <1>1, <2>1
       DEF StatsInv, ReviewerReport, Has, CountedMergedAreListed, Made, Fields,
           ReviewerFields
<1>2. StatsInv => CountedMergedAreListed
  BY <1>1 DEF CountedMergedAreListed
<1> QED
  BY <1>2, StatsHolds, PTL

\* The counters of a reviewer add up to the PRs that are counted.
LEMMA StatusCountsTotal ==
  ASSUME TablesOK, Underway, request.kind = "ReviewerStats"
  PROVE  Total(StatusCounts(TheReviews)) = Cardinality(DOMAIN TheReviews)
<1>1. PICK S, K, key, f : /\ S = DOMAIN TheReviews /\ K = {"OPEN", "MERGED"}
                          /\ key = TheReviews /\ f = StatusCounts(TheReviews)
  OBVIOUS
<1>2. IsFiniteSet(S) /\ IsFiniteSet(K) /\ S \in SUBSET PR
  BY <1>1, TheReviewsIs, TwoFields
<1>3. \A x \in S : key[x] \in K
  <2>1. ASSUME NEW p \in S PROVE key[p] \in K
    <3>1. p \in PR /\ ledger[p] # Nil /\ key[p] = ledger[p].status
      <4>1. p \in DOMAIN TheReviews /\ key[p] = TheReviews[p]
        BY <1>1, <2>1
      <4>2. ledger[p] # Nil /\ TheReviews[p] = ledger[p].status
        BY <4>1, TheReviewsIs, Zenon
      <4>3. p \in PR
        BY <1>2, <2>1
      <4> QED BY <4>1, <4>2, <4>3
    <3> QED BY <1>1, <3>1, RecordIs
  <2> QED BY <2>1
<1>4. \A k \in K : f[k] = Cardinality({x \in S : key[x] = k})
  <2>1. ASSUME NEW k \in {"OPEN", "MERGED"}
        PROVE  StatusCounts(key)[k] = Cardinality({x \in DOMAIN key : key[x] = k})
    <3>1. IsFiniteSet(DOMAIN key)
      BY <1>1, <1>2
    <3> QED BY <3>1, StatusCountsIs, Zenon
  <2> QED BY <1>1, <2>1
<1>5. Counts(f, K, S, key)
  BY <1>3, <1>4 DEF Counts
<1>6. Sum(f, K) = Cardinality(S)
  BY <1>2, <1>5, SumOfCounts
<1>7. DOMAIN f = K
  BY <1>1 DEF StatusCounts
<1>8. Total(f) = Sum(f, DOMAIN f)
  BY DEF Total, Sum
<1> QED
  BY <1>1, <1>6, <1>7, <1>8

\* No join of stats.go loses a row or counts one twice: in a report during
\* which nothing was committed the totals agree.
THEOREM QuietTotalsAgreeHolds == StatsSpec => []QuietTotalsAgree
<1>1. ASSUME StatsInv, Quiet, Made("Stats")
      PROVE  /\ Total(parts["ByUser"]) = Total(parts["ByPR"])
             /\ Total(parts["ByTeam"]) = Total(parts["ByPR"])
             /\ Total(parts["ByStatus"]) = Cardinality(Rows(Tables))
  <2>1. /\ parts["ByUser"] = ByUser(Tables, PR) /\ parts["ByPR"] = ByPR(Tables)
        /\ parts["ByStatus"] = ByStatus(Tables, PR)
        /\ parts["ByTeam"] = ByTeam(Tables, PR)
    BY <1>1 DEF StatsInv, StatsReport, Has, Made, Fields, StatsFields
  <2>2. Rows(Tables) \cap PR = Rows(Tables)
    BY DEF Rows
  <2> QED BY <2>1, <2>2, Totals
<1>2. ASSUME StatsInv, Quiet, Made("ReviewerStats")
      PROVE  /\ parts["AssignCnt"] = Total(parts["Counts"])
             /\ Cardinality(DOMAIN parts["RecentPRs"]) =
                  IF parts["AssignCnt"] < ReviewerLimit THEN parts["AssignCnt"]
                                                        ELSE ReviewerLimit
  <2>1. /\ TablesOK /\ Underway /\ request.kind = "ReviewerStats"
        /\ parts["AssignCnt"] = Cardinality(DOMAIN TheReviews)
        /\ parts["Counts"] = StatusCounts(TheReviews)
        /\ parts["RecentPRs"] \in Limited(TheReviews, CreatedAt, TheLimit)
    BY <1>2 DEF StatsInv, ReviewerReport, Has, Made, Fields, ReviewerFields
  <2>2. PICK f, n : f = TheReviews /\ n = TheLimit
    OBVIOUS
  <2>3. /\ IsFiniteSet(DOMAIN f) /\ Cardinality(DOMAIN f) \in Nat
        /\ n \in Nat /\ n = ReviewerLimit
    BY <2>1, <2>2, TheReviewsIs, TheLimitIs, FS_CardinalityType
  <2>4. PICK g : g = parts["RecentPRs"] /\ g \in Limited(f, CreatedAt, n)
    BY <2>1, <2>2
  <2>5. Cardinality(DOMAIN g) =
          IF n < Cardinality(DOMAIN f) THEN n ELSE Cardinality(DOMAIN f)
    BY <2>3, <2>4, LimitedIs
  <2>6. Cardinality(DOMAIN g) =
          IF Cardinality(DOMAIN f) < n THEN Cardinality(DOMAIN f) ELSE n
    BY <2>3, <2>5
  <2>7. parts["AssignCnt"] = Total(parts["Counts"])
    BY <2>1, StatusCountsTotal
  <2> QED BY <2>1, <2>2, <2>3, <2>4, <2>6, <2>7
<1>3. StatsInv => QuietTotalsAgree
  BY <1>1, <1>2 DEF QuietTotalsAgree, Quiet
<1> QED
  BY <1>3, StatsHolds, PTL

\* Grouped by user, the reviews of some PRs have the numbers of these PRs
\* that the users review.
LEMMA ByUserIs ==
  ASSUME NEW W \in SUBSET Rows(Tables), NEW rows, rows = ByUser(Tables, W),
         NEW N, N = [u \in User |-> Cardinality({p \in W : u \in ledger[p].reviewers})]
  PROVE  /\ DOMAIN rows \in SUBSET User
         /\ \A u \in DOMAIN rows : rows[u] = N[u]
         /\ \A u \in User : N[u] \in Nat /\ (N[u] > 0 => u \in DOMAIN rows)
         /\ Total(N) = Cardinality(Reviews(Tables, W))
<1>1. PICK S, key : S = Reviews(Tables, W) /\ key = [x \in S |-> x[2]]
  OBVIOUS
<1> DEFINE P(u) == {p \in W : u \in ledger[p].reviewers}
           Q(u) == {x \in S : key[x] = u}
<1>2. rows = [u \in {key[x] : x \in S} |-> Cardinality(Q(u))]
  BY <1>1 DEF ByUser, CountBy
<1>3. W \in SUBSET PR
  BY DEF Rows
<1>4. \A x : x \in S <=> x \in W \X User /\ x[2] \in ledger[x[1]].reviewers
  BY <1>1 DEF Reviews, Tables, Rows
<1>5. \A x \in S : key[x] = x[2] /\ key[x] \in User
  BY <1>1, <1>4
<1>6. ASSUME NEW u \in User
      PROVE  /\ IsFiniteSet(P(u)) /\ IsFiniteSet(Q(u))
             /\ Cardinality(P(u)) = Cardinality(Q(u)) /\ Cardinality(P(u)) \in Nat
  <2>1. PICK A, B : A = P(u) /\ B = Q(u)
    OBVIOUS
  <2>2. IsFiniteSet(A) /\ Cardinality(A) \in Nat
    <3>1. A \in SUBSET PR
      BY <1>3, <2>1
    <3> QED BY <3>1, FinitePRs
  <2> DEFINE f == [p \in A |-> <<p, u>>]
  <2>3. f \in Bijection(A, B)
    <3>1. \A x : x \in B <=> \E p \in A : x = <<p, u>>
      BY <1>4, <1>5, <2>1
    <3>2. f \in Injection(A, B)
      BY <3>1 DEF Injection, IsInjective
    <3>3. \A x \in B : \E p \in A : f[p] = x
      BY <3>1
    <3>4. f \in Surjection(A, B)
      BY <3>2, <3>3 DEF Surjection, Injection
    <3> QED BY <3>2, <3>4 DEF Bijection
  <2> HIDE DEF f
  <2>4. IsFiniteSet(B) /\ Cardinality(B) = Cardinality(A)
    BY <2>2, <2>3, FS_Bijection DEF ExistsBijection
  <2> QED BY <2>1, <2>2, <2>4
<1>7. \A u \in User : N[u] = Cardinality(P(u))
  OBVIOUS
<1> HIDE DEF P
<1>8. Counts(N, User, S, key)
  BY <1>5, <1>6, <1>7 DEF Counts
<1>9. IsFiniteSet(S)
  BY <1>1, RowsFinite
<1>10. Sum(N, User) = Cardinality(S)
  BY <1>8, <1>9, FiniteAssumption, SumOfCounts
<1>11. Total(N) = Sum(N, DOMAIN N) /\ DOMAIN N = User
  BY DEF Total, Sum
<1>12. DOMAIN rows = {key[x] : x \in S}
  BY <1>2
<1>13. DOMAIN rows \in SUBSET User
  BY <1>5, <1>12
<1>14. \A u \in DOMAIN rows : rows[u] = N[u]
  BY <1>2, <1>6, <1>7, <1>13
<1>15. ASSUME NEW u \in User, N[u] > 0 PROVE u \in DOMAIN rows
  <2>1. N[u] = Cardinality(Q(u))
    BY <1>6, <1>7
  <2>2. CASE Q(u) = {}
    <3>1. N[u] = 0
      BY <2>1, <2>2, NoFields
    <3> QED BY <1>15, <3>1
  <2>3. CASE Q(u) # {}
    BY <1>12, <2>3
  <2> QED BY <2>2, <2>3
<1> QED
  BY <1>1, <1>6, <1>7, <1>10, <1>11, <1>13, <1>14, <1>15

\* Every placeholder of StatsSummary's three queries is bound to the argument
\* it is meant for: the totals are those of the PRs in the filter, and the
\* ranking has the best of the reviewers, up to the limit.
THEOREM FilterIsExactHolds == StatsSpec => []FilterIsExact
<1>1. ASSUME StatsInv, Made("StatsSummary"), Quiet
      PROVE  FilterIsExact
  <2> DEFINE f == request.params
             W_ == {p \in Rows(Tables) : InFilter(f, p)}
             N_ == [u \in User |-> Cardinality({p \in W_ : u \in ledger[p].reviewers})]
             n_ == IF f.limit = Nil \/ f.limit <= 0 THEN 10 ELSE f.limit
  <2>1. /\ TablesOK /\ Underway /\ request.kind = "StatsSummary"
        /\ parts["TopReviewers"] \in TopReviewers(Tables, TheFilter)
        /\ parts["PRStatusCounts"] = ByStatus(Tables, Selected)
        /\ parts["TeamAssignments"] = ByTeam(Tables, Selected)
    BY <1>1 DEF StatsInv, SummaryReport, Has, Made, Fields, SummaryFields
  <2>2. Selected = W_
    <3>1. \A p : InFilter(f, p) <=> Selects(f, Tables, p)
      BY DEF InFilter, Selects, Tables
    <3> QED BY <2>1, <3>1, SelectedIs
  <2>3. PICK W, N, n, rows, top :
          /\ W = W_ /\ N = N_ /\ n = n_ /\ rows = ByUser(Tables, W)
          /\ top = parts["TopReviewers"]
    OBVIOUS
  <2>4. /\ n = TheFilter.limit /\ n \in Nat
        /\ top \in Limited(rows, rows, n)
    BY <2>1, <2>2, <2>3, TheFilterIs, TopIs
  <2>5. W \in SUBSET Rows(Tables)
    BY <2>3
  <2>6. N = [u \in User |-> Cardinality({p \in W : u \in ledger[p].reviewers})]
    BY <2>3
  <2>7. Total(parts["PRStatusCounts"]) = Cardinality(W)
    <3>1. Rows(Tables) \cap W = W
      BY <2>5
    <3> QED BY <2>1, <2>2, <2>3, <3>1, Totals
  <2>8. Total(parts["TeamAssignments"]) = Cardinality(Reviews(Tables, W))
    BY <2>1, <2>2, <2>3, Totals
  <2> HIDE DEF W_, N_, n_
  <2>9. /\ DOMAIN rows \in SUBSET User
        /\ \A u \in DOMAIN rows : rows[u] = N[u]
        /\ \A u \in User : N[u] \in Nat /\ (N[u] > 0 => u \in DOMAIN rows)
        /\ Total(N) = Cardinality(Reviews(Tables, W))
    BY <2>3, <2>5, <2>6, ByUserIs
  <2>10. IsFiniteSet(DOMAIN rows) /\ Cardinality(DOMAIN rows) \in Nat
    BY <2>9, FiniteUsers
  <2>11. /\ DOMAIN top \in SUBSET (DOMAIN rows)
         /\ \A x \in DOMAIN top : top[x] = rows[x]
         /\ Cardinality(DOMAIN top) =
              IF n < Cardinality(DOMAIN rows) THEN n ELSE Cardinality(DOMAIN rows)
         /\ \A x \in DOMAIN top, y \in (DOMAIN rows) \ DOMAIN top : rows[x] >= rows[y]
    BY <2>4, <2>10, LimitedIs
  <2>12. Cardinality(DOMAIN top) <= n
    BY <2>4, <2>10, <2>11
  <2>13. \A u \in DOMAIN top : top[u] = N[u]
    BY <2>9, <2>11
  <2>14. ASSUME NEW u \in User \ DOMAIN top, N[u] > 0
         PROVE  /\ Cardinality(DOMAIN top) = n
                /\ \A v \in DOMAIN top : top[v] >= N[u]
    <3>1. u \in DOMAIN rows /\ u \notin DOMAIN top
      BY <2>9, <2>14
    <3>2. Cardinality(DOMAIN top) # Cardinality(DOMAIN rows)
      BY <2>10, <2>11, <3>1, FS_Subset
    <3> QED BY <2>9, <2>11, <3>1, <3>2
  <2>15. /\ Total(parts["TeamAssignments"]) = Total(N)
    BY <2>8, <2>9
  <2> QED
    BY <2>3, <2>7, <2>12, <2>13, <2>14, <2>15 DEF FilterIsExact, W_, N_, n_
<1>2. StatsInv => FilterIsExact
  BY <1>1 DEF FilterIsExact, Quiet
<1> QED
  BY <1>2, StatsHolds, PTL

===============================================================================
