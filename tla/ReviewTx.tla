------------------------------- MODULE ReviewTx -------------------------------
(***************************************************************************)
(* The writing half of the service: the six operations of                  *)
(* internal/repository/postgres that change tables, run by concurrent      *)
(* handlers ("clients") against one PostgreSQL database at READ COMMITTED, *)
(* the level BeginTx(ctx, pgx.TxOptions{}) asks for.                       *)
(*                                                                         *)
(* An action is one SQL statement together with the Go code up to the next *)
(* statement whose outcome another transaction can influence.  Statements  *)
(* that only touch rows this transaction has locked or written are part of *)
(* the action before them.                                                 *)
(*                                                                         *)
(* A statement sees the committed tables overlaid with its own             *)
(* transaction's writes.  FOR UPDATE, UPDATE and the two kinds of INSERT   *)
(* that can conflict wait for the row lock and then look at the latest     *)
(* committed row again.  COMMIT publishes the writes and drops the locks;  *)
(* every error path ends in the deferred tx.Rollback, which drops both.    *)
(***************************************************************************)
EXTENDS ReviewTables

CONSTANTS Client,       \* handlers that can be in flight at the same time
          Request,      \* the requests clients may send
          Seeds,        \* contents of the database the service starts on
          Timeouts,     \* usecase timeout > 0: a request may run out of time
          MaxRequests   \* bound: how many requests are sent in all

Member == [id : User, active : BOOLEAN]

AnyRequest ==
       [op : {"CreatePR"}, pr : PR, user : User]
  \cup [op : {"MergePR"}, pr : PR]
  \cup [op : {"ReassignReviewer"}, pr : PR, user : User]
  \cup [op : {"SetUserActive"}, user : User, active : BOOLEAN]
  \cup [op : {"CreateTeam"}, team : Team, members : Seq(Member)]
  \cup [op : {"DeactivateTeam"}, team : Team]

ASSUME RequestAssumption == Request \subseteq AnyRequest
ASSUME SeedAssumption ==
  \A d \in Seeds : /\ d \in Database
                   /\ ForeignKeysHold(d)
                   /\ WellAssigned(d.prs, d.reviewers)
ASSUME TimeoutsAssumption == Timeouts \in BOOLEAN
ASSUME MaxRequestsAssumption == MaxRequests \in Nat

VARIABLES teams, users, prs, reviewers, history,   \* committed tables
          tx,      \* every client's transaction in flight
          resp,    \* every client's last answer: entities.Err..., "ok", ...
          issued   \* number of requests sent, for the bound

tables == <<teams, users, prs, reviewers, history>>
vars == <<teams, users, prs, reviewers, history, tx, resp, issued>>

\* What a client waits for next; most are named after the query constant.
Label ==
  {"idle", "selectAuthorQuery", "insertPRQuery", "selectCandidatesQuery",
   "selectPRForUpdateQuery", "selectReviewerTeamQuery",
   "selectReplacementCandidatesQuery", "setUserActiveQuery", "updated",
   "insertTeamQuery", "upsertUserQuery", "selectTeamIDForDeactivate",
   "deactivateUsersQuery", "selectImpactedPRsQuery", "lockImpacted",
   "selectPRStatusQuery", "activeReplacementQuery", "commit",
   "selectTeamIDQuery"}

Answer ==
  {"ok", "ErrUserNotFound", "ErrInvalidArgument", "ErrTeamExists",
   "ErrTeamNotFound", "ErrPRExists", "ErrPRNotFound", "ErrPRMerged",
   "ErrNotAssigned", "ErrNoCandidate", "internal"}

(* A transaction in flight: the request, the row locks it holds, the Go    *)
(* variables that live across statements, and its uncommitted writes.      *)
Idle ==
  [pc |-> "idle", req |-> Nil, locks |-> {},
   at       |-> Nil,   \* the row a scan stands at, then the PR of the loop
   todo     |-> {},    \* the rows it has still to visit
   team     |-> Nil,   \* authorTeamID, teamID
   snapshot |-> {},    \* teams as of the start of setUserActiveQuery
   seen     |-> {},    \* reviewers, existing
   deactivated |-> {},
   impacted |-> {},
   members  |-> <<>>,  \* of team.Members, those still to upsert
   wTeams |-> {},
   wUsers |-> [u \in User |-> Nil],
   wPrs   |-> [p \in PR |-> Nil],
   wAdd   |-> {},
   wDel   |-> {},
   wLog   |-> [p \in PR |-> <<>>]]

Transaction ==
  [pc : Label, req : AnyRequest \cup {Nil}, locks : SUBSET Row,
   at : Row \cup {Nil}, todo : SUBSET Row, team : Team \cup {Nil},
   snapshot : SUBSET Team, seen : SUBSET User, deactivated : SUBSET User,
   impacted : SUBSET PR, members : Seq(Member),
   wTeams : SUBSET Team, wUsers : [User -> UserRow \cup {Nil}],
   wPrs : [PR -> PrRow \cup {Nil}], wAdd : SUBSET (PR \X User),
   wDel : SUBSET (PR \X User), wLog : [PR -> Seq(Event)]]

Init ==
  \E d \in Seeds :
    /\ teams = d.teams
    /\ users = d.users
    /\ prs = d.prs
    /\ reviewers = d.reviewers
    /\ history = d.history
    /\ tx = [c \in Client |-> Idle]
    /\ resp = [c \in Client |-> Nil]
    /\ issued = 0

-------------------------------------------------------------------------------
(* What a transaction sees, and what it waits for.                         *)

UsersSeenBy(c) ==
  [u \in User |-> IF tx[c].wUsers[u] # Nil THEN tx[c].wUsers[u] ELSE users[u]]

PrsSeenBy(c) ==
  [p \in PR |-> IF tx[c].wPrs[p] # Nil THEN tx[c].wPrs[p] ELSE prs[p]]

ReviewersSeenBy(c) == (reviewers \ tx[c].wDel) \cup tx[c].wAdd

LockedByOther(c, row) == \E d \in Client \ {c} : row \in tx[d].locks

\* Another transaction has an uncommitted version of the PR's row.
WrittenByOther(c, p) == \E d \in Client \ {c} : tx[d].wPrs[p] # Nil

\* The row the next statement of c has to lock (a set: none or one).
Wanted(c) ==
  CASE tx[c].pc = "selectPRForUpdateQuery" -> {tx[c].req.pr}
    [] tx[c].pc = "insertPRQuery"          -> {tx[c].req.pr}
    [] tx[c].pc = "updated"                -> {tx[c].req.user}
    [] tx[c].pc = "insertTeamQuery"        -> {tx[c].req.team}
    [] tx[c].pc = "upsertUserQuery"        -> {Head(tx[c].members).id}
    [] tx[c].pc \in {"deactivateUsersQuery", "lockImpacted"} -> {tx[c].at}
    [] OTHER -> {}

\* d keeps c waiting.  A lock on a PR row stops an INSERT of the same id
\* only while the row is being written, and a SELECT ... FOR UPDATE only
\* when the row is visible.
WaitsFor(c, d) ==
  /\ c # d
  /\ Wanted(c) \cap tx[d].locks # {}
  /\ tx[c].pc = "insertPRQuery" => tx[d].wPrs[tx[c].req.pr] # Nil
  /\ tx[c].pc = "selectPRForUpdateQuery" => prs[tx[c].req.pr] # Nil

\* c is in a set of clients each of which waits for another one of the set.
InCycle(c) ==
  \E S \in SUBSET Client :
    /\ c \in S
    /\ \A d \in S : \E e \in S : WaitsFor(d, e)
    /\ \A d \in S : \E e \in S : WaitsFor(e, d)

\* The entry insertReassignmentHistory(pr, old, new) appends; a mutant swaps
\* the arguments.
Logged_Swapped(old, new) == [old |-> new, new |-> old]

Logged(old, new) == [old |-> old, new |-> new]

\* The row a scan visits next: any of those left, Nil when there is none.
NextRow(S) == IF S = {} THEN {Nil} ELSE S

-------------------------------------------------------------------------------
(* How a request ends.  Finish keeps nothing of the transaction, so with   *)
(* the tables unchanged it is the deferred Rollback.                       *)

\* Mutant of Finish: the deferred Rollback is missing, the locks stay.
Finish_KeepsLocks(c, answer) ==
  /\ tx' = [tx EXCEPT ![c] = [Idle EXCEPT !.locks = tx[c].locks]]
  /\ resp' = [resp EXCEPT ![c] = answer]
  /\ UNCHANGED issued

Finish(c, answer) ==
  /\ tx' = [tx EXCEPT ![c] = Idle]
  /\ resp' = [resp EXCEPT ![c] = answer]
  /\ UNCHANGED issued

Fail(c, err) == Finish(c, err) /\ UNCHANGED tables

\* Effect of COMMIT on the tables.
Publish(c) ==
  /\ teams' = teams \cup tx[c].wTeams
  /\ users' = UsersSeenBy(c)
  /\ prs' = PrsSeenBy(c)
  /\ reviewers' = ReviewersSeenBy(c)
  /\ history' = [p \in PR |-> history[p] \o tx[c].wLog[p]]

\* A statement that succeeds without ending the request.
Proceed(c, next) ==
  /\ tx' = [tx EXCEPT ![c] = next]
  /\ UNCHANGED <<teams, users, prs, reviewers, history, resp, issued>>

-------------------------------------------------------------------------------
(* A request arrives and its transaction begins.                           *)

FirstStatement ==
  [CreatePR         |-> "selectAuthorQuery",
   MergePR          |-> "selectPRForUpdateQuery",
   ReassignReviewer |-> "selectPRForUpdateQuery",
   SetUserActive    |-> "setUserActiveQuery",
   CreateTeam       |-> "insertTeamQuery",
   DeactivateTeam   |-> "selectTeamIDForDeactivate"]

Begin(c, r) ==
  /\ tx[c].pc = "idle"
  /\ issued < MaxRequests
  /\ tx' = [tx EXCEPT ![c].pc = FirstStatement[r.op], ![c].req = r]
  /\ resp' = [resp EXCEPT ![c] = Nil]
  /\ issued' = issued + 1
  /\ UNCHANGED tables

Receive(c) == \E r \in Request : Begin(c, r)

-------------------------------------------------------------------------------
(* CreatePR                                                                *)

SelectAuthor(c) ==
  LET author == users[tx[c].req.user] IN
  /\ tx[c].pc = "selectAuthorQuery"
  /\ \/ author = Nil /\ Fail(c, "ErrUserNotFound")
     \/ author # Nil /\ ~author.active /\ Fail(c, "ErrInvalidArgument")
     \/ /\ author # Nil /\ author.active
        /\ Proceed(c, [tx[c] EXCEPT !.pc = "insertPRQuery",
                                    !.team = author.team])

\* Mutant of InsertPR: ON CONFLICT DO UPDATE.
InsertPR_Upsert(c) ==
  LET p == tx[c].req.pr IN
  /\ tx[c].pc = "insertPRQuery"
  /\ ~WrittenByOther(c, p)
  /\ Proceed(c, [tx[c] EXCEPT
       !.pc = "selectCandidatesQuery",
       !.locks = @ \cup {p},
       !.wPrs[p] = [author |-> tx[c].req.user, status |-> "OPEN"]])

InsertPR(c) ==
  LET p == tx[c].req.pr IN
  /\ tx[c].pc = "insertPRQuery"
  /\ ~WrittenByOther(c, p)
  /\ \/ prs[p] # Nil /\ Fail(c, "ErrPRExists")
     \/ /\ prs[p] = Nil
        /\ Proceed(c, [tx[c] EXCEPT
             !.pc = "selectCandidatesQuery",
             !.locks = @ \cup {p},
             !.wPrs[p] = [author |-> tx[c].req.user, status |-> "OPEN"]])

\* Select the candidates, draw two and insert them.
SelectCandidates(c) ==
  LET p == tx[c].req.pr IN
  /\ tx[c].pc = "selectCandidatesQuery"
  /\ \E R \in PickRandom(TeamCandidates(users, tx[c].team, tx[c].req.user), 2) :
       Proceed(c, [tx[c] EXCEPT !.pc = "commit",
                                !.seen = R,
                                !.wAdd = @ \cup ({p} \X R)])

-------------------------------------------------------------------------------
(* MergePR and ReassignReviewer                                            *)

\* Mutant of SelectPRForMerge: no FOR UPDATE.
SelectPRForMerge_Unlocked(c) ==
  LET p == tx[c].req.pr IN
  /\ tx[c].pc = "selectPRForUpdateQuery"
  /\ tx[c].req.op = "MergePR"
  /\ \/ prs[p] = Nil /\ Fail(c, "ErrPRNotFound")
     \/ /\ prs[p] # Nil
        /\ Proceed(c, [tx[c] EXCEPT
             !.pc = "commit",
             !.seen = ReviewersOf(reviewers, p),
             !.wPrs[p] = IF prs[p].status = "MERGED" THEN Nil
                         ELSE [prs[p] EXCEPT !.status = "MERGED"]])

SelectPRForMerge(c) ==
  LET p == tx[c].req.pr IN
  /\ tx[c].pc = "selectPRForUpdateQuery"
  /\ tx[c].req.op = "MergePR"
  /\ \/ prs[p] = Nil /\ Fail(c, "ErrPRNotFound")
     \/ /\ prs[p] # Nil /\ ~LockedByOther(c, p)
        /\ Proceed(c, [tx[c] EXCEPT
             !.pc = "commit",
             !.locks = @ \cup {p},
             !.seen = ReviewersOf(reviewers, p),
             !.wPrs[p] = IF prs[p].status = "MERGED" THEN Nil
                         ELSE [prs[p] EXCEPT !.status = "MERGED"]])

\* Mutant of SelectPRForReassign: no FOR UPDATE.
SelectPRForReassign_Unlocked(c) ==
  LET p == tx[c].req.pr IN
  /\ tx[c].pc = "selectPRForUpdateQuery"
  /\ tx[c].req.op = "ReassignReviewer"
  /\ \/ prs[p] = Nil /\ Fail(c, "ErrPRNotFound")
     \/ prs[p] # Nil /\ prs[p].status = "MERGED" /\ Fail(c, "ErrPRMerged")
     \/ /\ prs[p] # Nil /\ prs[p].status # "MERGED"
        /\ tx[c].req.user \notin ReviewersOf(reviewers, p)
        /\ Fail(c, "ErrNotAssigned")
     \/ /\ prs[p] # Nil /\ prs[p].status # "MERGED"
        /\ tx[c].req.user \in ReviewersOf(reviewers, p)
        /\ Proceed(c, [tx[c] EXCEPT !.pc = "selectReviewerTeamQuery",
                                    !.seen = ReviewersOf(reviewers, p)])

SelectPRForReassign(c) ==
  LET p == tx[c].req.pr IN
  /\ tx[c].pc = "selectPRForUpdateQuery"
  /\ tx[c].req.op = "ReassignReviewer"
  /\ \/ prs[p] = Nil /\ Fail(c, "ErrPRNotFound")
     \/ /\ prs[p] # Nil /\ ~LockedByOther(c, p)
        /\ \/ prs[p].status = "MERGED" /\ Fail(c, "ErrPRMerged")
           \/ /\ prs[p].status # "MERGED"
              /\ tx[c].req.user \notin ReviewersOf(reviewers, p)
              /\ Fail(c, "ErrNotAssigned")
           \/ /\ prs[p].status # "MERGED"
              /\ tx[c].req.user \in ReviewersOf(reviewers, p)
              /\ Proceed(c, [tx[c] EXCEPT
                   !.pc = "selectReviewerTeamQuery",
                   !.locks = @ \cup {p},
                   !.seen = ReviewersOf(reviewers, p)])

\* Mutant of SelectReviewerTeam: looks up the author's team.
SelectReviewerTeam_Author(c) ==
  LET author == users[prs[tx[c].req.pr].author] IN
  /\ tx[c].pc = "selectReviewerTeamQuery"
  /\ Proceed(c, [tx[c] EXCEPT !.pc = "selectReplacementCandidatesQuery",
                              !.team = author.team])

SelectReviewerTeam(c) ==
  LET old == users[tx[c].req.user] IN
  /\ tx[c].pc = "selectReviewerTeamQuery"
  /\ \/ old = Nil /\ Fail(c, "ErrUserNotFound")
     \/ old # Nil /\ Proceed(c, [tx[c] EXCEPT
                       !.pc = "selectReplacementCandidatesQuery",
                       !.team = old.team])

\* Select the candidates, draw one, swap the rows and log the change.
SelectReplacement(c) ==
  LET p == tx[c].req.pr
      old == tx[c].req.user
      candidates ==
        TeamCandidates(users, tx[c].team, prs[p].author) \ tx[c].seen
  IN
  /\ tx[c].pc = "selectReplacementCandidatesQuery"
  /\ \/ candidates = {} /\ Fail(c, "ErrNoCandidate")
     \/ \E new \in candidates :
          /\ {new} \in PickRandom(candidates, 1)
          /\ Proceed(c, [tx[c] EXCEPT
               !.pc = "commit",
               !.seen = (@ \ {old}) \cup {new},
               !.wDel = @ \cup {<<p, old>>},
               !.wAdd = @ \cup {<<p, new>>},
               !.wLog[p] = Append(@, Logged(old, new))])

-------------------------------------------------------------------------------
(* SetUserActive: one statement outside a transaction.  Its UPDATE waits   *)
(* for the row and takes the latest version; the join with teams still     *)
(* uses the snapshot of the start, so a team committed since is not found. *)

StartSetUserActive(c) ==
  /\ tx[c].pc = "setUserActiveQuery"
  /\ \/ users[tx[c].req.user] = Nil /\ Fail(c, "ErrUserNotFound")
     \/ /\ users[tx[c].req.user] # Nil
        /\ Proceed(c, [tx[c] EXCEPT !.pc = "updated", !.snapshot = teams])

UpdateUserActive(c) ==
  LET u == tx[c].req.user IN
  /\ tx[c].pc = "updated"
  /\ ~LockedByOther(c, u)
  /\ users' = [users EXCEPT ![u].active = tx[c].req.active]
  /\ \/ users[u].team \in tx[c].snapshot /\ Finish(c, "ok")
     \/ users[u].team \notin tx[c].snapshot /\ Finish(c, "ErrUserNotFound")
     \/ Timeouts /\ Finish(c, "internal")
  /\ UNCHANGED <<teams, prs, reviewers, history>>

-------------------------------------------------------------------------------
(* CreateTeam                                                              *)

AfterMember(rest) == IF rest = <<>> THEN "commit" ELSE "upsertUserQuery"

InsertTeam(c) ==
  LET t == tx[c].req.team IN
  /\ tx[c].pc = "insertTeamQuery"
  /\ ~LockedByOther(c, t)
  /\ \/ t \in teams /\ Fail(c, "ErrTeamExists")
     \/ /\ t \notin teams
        /\ Proceed(c, [tx[c] EXCEPT !.pc = AfterMember(tx[c].req.members),
                                    !.locks = @ \cup {t},
                                    !.members = tx[c].req.members,
                                    !.wTeams = @ \cup {t}])

\* Mutant of UpsertUser: the loop does not advance.
UpsertUser_SameMember(c) ==
  LET m == Head(tx[c].members) IN
  /\ tx[c].pc = "upsertUserQuery"
  /\ ~LockedByOther(c, m.id)
  /\ Proceed(c, [tx[c] EXCEPT
       !.pc = AfterMember(Tail(tx[c].members)),
       !.locks = @ \cup {m.id},
       !.wUsers[m.id] = [team |-> tx[c].req.team, active |-> m.active]])

\* Mutant of UpsertUser: ON CONFLICT DO NOTHING.
UpsertUser_KeepsOld(c) ==
  LET m == Head(tx[c].members) IN
  /\ tx[c].pc = "upsertUserQuery"
  /\ ~LockedByOther(c, m.id)
  /\ Proceed(c, [tx[c] EXCEPT
       !.pc = AfterMember(Tail(tx[c].members)),
       !.locks = @ \cup {m.id},
       !.members = Tail(@),
       !.wUsers[m.id] = IF users[m.id] # Nil THEN users[m.id]
                        ELSE [team |-> tx[c].req.team, active |-> m.active]])

UpsertUser(c) ==
  LET m == Head(tx[c].members) IN
  /\ tx[c].pc = "upsertUserQuery"
  /\ ~LockedByOther(c, m.id)
  /\ Proceed(c, [tx[c] EXCEPT
       !.pc = AfterMember(Tail(tx[c].members)),
       !.locks = @ \cup {m.id},
       !.members = Tail(@),
       !.wUsers[m.id] = [team |-> tx[c].req.team, active |-> m.active]])

\* The answer is read back after the commit, outside the transaction.
GetTeam(c) ==
  /\ tx[c].pc = "selectTeamIDQuery"
  /\ \/ tx[c].req.team \in teams /\ Finish(c, "ok")
     \/ tx[c].req.team \notin teams /\ Finish(c, "ErrTeamNotFound")
  /\ UNCHANGED tables

-------------------------------------------------------------------------------
(* DeactivateTeam                                                          *)

\* Look the team up and start the UPDATE: teams are never deleted, so the
\* two statements may share a snapshot.
SelectTeamForDeactivate(c) ==
  LET t == tx[c].req.team
      rows == {u \in ActiveUsers(users) : users[u].team = t}
  IN
  /\ tx[c].pc = "selectTeamIDForDeactivate"
  /\ \/ t \notin teams /\ Fail(c, "ErrTeamNotFound")
     \/ /\ t \in teams
        /\ \E r \in NextRow(rows) :
             Proceed(c, [tx[c] EXCEPT
               !.pc = IF r = Nil THEN "commit" ELSE "deactivateUsersQuery",
               !.team = t,
               !.at = r,
               !.todo = rows \ {r}])

\* UPDATE one user: lock the row, check WHERE again on its latest version.
DeactivateUser(c) ==
  LET u == tx[c].at
      match == users[u].team = tx[c].team /\ users[u].active
      hit == IF match THEN tx[c].deactivated \cup {u} ELSE tx[c].deactivated
  IN
  /\ tx[c].pc = "deactivateUsersQuery"
  /\ ~LockedByOther(c, u)
  /\ \E r \in NextRow(tx[c].todo) :
       Proceed(c, [tx[c] EXCEPT
         !.pc = CASE r # Nil  -> "deactivateUsersQuery"
                  [] r = Nil /\ hit = {} -> "commit"
                  [] r = Nil /\ hit # {} -> "selectImpactedPRsQuery",
         !.locks = @ \cup {u},
         !.at = r,
         !.todo = @ \ {r},
         !.deactivated = hit,
         !.wUsers[u] = IF match THEN [users[u] EXCEPT !.active = FALSE]
                                ELSE @])

\* Mutant of AfterPR: the loop ends after the first PR.
AfterPR_First(S) == "commit"

\* What follows when the PRs in S are left to clean up.
AfterPR(S) == IF S = {} THEN "commit" ELSE "selectPRStatusQuery"

SelectImpactedPRs(c) ==
  LET rows == ImpactedPRs(prs, reviewers, tx[c].deactivated) IN
  /\ tx[c].pc = "selectImpactedPRsQuery"
  /\ \E r \in NextRow(rows) :
       Proceed(c, [tx[c] EXCEPT
         !.pc = IF r = Nil THEN "commit" ELSE "lockImpacted",
         !.at = r,
         !.todo = rows \ {r}])

\* Mutant of LockImpacted: no FOR UPDATE.
LockImpacted_Unlocked(c) ==
  /\ tx[c].pc = "lockImpacted"
  /\ \E r \in NextRow(tx[c].todo) :
       LET hit == tx[c].impacted \cup {tx[c].at} IN
       Proceed(c, [tx[c] EXCEPT
         !.pc = IF r # Nil THEN "lockImpacted" ELSE AfterPR(hit),
         !.at = r,
         !.todo = @ \ {r},
         !.impacted = hit])

\* FOR UPDATE on one row of the scan: a PR merged meanwhile is skipped, its
\* lock is kept; the EXISTS part is not evaluated again.
LockImpacted(c) ==
  LET p == tx[c].at
      hit == IF prs[p].status = "OPEN" THEN tx[c].impacted \cup {p}
                                       ELSE tx[c].impacted
  IN
  /\ tx[c].pc = "lockImpacted"
  /\ ~LockedByOther(c, p)
  /\ \E r \in NextRow(tx[c].todo) :
       Proceed(c, [tx[c] EXCEPT
         !.pc = IF r # Nil THEN "lockImpacted" ELSE AfterPR(hit),
         !.locks = @ \cup {p},
         !.at = r,
         !.todo = @ \ {r},
         !.impacted = hit])

\* Mutant of BeginPR: the test contains(deactivated, r) is missing.
BeginPR_Everybody(c) ==
  /\ tx[c].pc = "selectPRStatusQuery"
  /\ \E p \in tx[c].impacted :
       LET existing == ReviewersOf(ReviewersSeenBy(c), p)
           leaving == IF PrsSeenBy(c)[p].status = "OPEN" THEN existing ELSE {}
       IN Proceed(c, [tx[c] EXCEPT
            !.pc = IF leaving = {} THEN AfterPR(tx[c].impacted \ {p})
                                   ELSE "activeReplacementQuery",
            !.at = p,
            !.seen = existing,
            !.todo = leaving,
            !.impacted = @ \ {p}])

\* Next turn of the loop over impacted: check the status, read the reviewers.
BeginPR(c) ==
  /\ tx[c].pc = "selectPRStatusQuery"
  /\ \E p \in tx[c].impacted :
       LET existing == ReviewersOf(ReviewersSeenBy(c), p)
           leaving == IF PrsSeenBy(c)[p].status = "OPEN"
                      THEN existing \cap tx[c].deactivated ELSE {}
       IN Proceed(c, [tx[c] EXCEPT
            !.pc = IF leaving = {} THEN AfterPR(tx[c].impacted \ {p})
                                   ELSE "activeReplacementQuery",
            !.at = p,
            !.seen = existing,
            !.todo = leaving,
            !.impacted = @ \ {p}])

\* pickReplacement: a member of the pool; Nil, not ok, when it is empty.
PickReplacement(us, t, author, existing) ==
  LET pool == OtherTeamCandidates(us, t, author) \ existing
  IN {new \in NextRow(pool) : new # Nil => {new} \in PickRandom(pool, 1)}

\* One deactivated reviewer of the PR: delete, pickReplacement, insert, log.
ReplaceReviewer(c) ==
  LET p == tx[c].at
      author == PrsSeenBy(c)[p].author
  IN
  /\ tx[c].pc = "activeReplacementQuery"
  /\ \E r \in tx[c].todo :
       LET existing == tx[c].seen \ {r} IN
       \E new \in PickReplacement(UsersSeenBy(c), tx[c].team, author, existing) :
         LET inserted == {new} \ {Nil} IN
         Proceed(c, [tx[c] EXCEPT
           !.pc = IF tx[c].todo # {r} THEN "activeReplacementQuery"
                                      ELSE AfterPR(tx[c].impacted),
           !.todo = @ \ {r},
           !.seen = existing \cup inserted,
           !.wDel = @ \cup {<<p, r>>},
           !.wAdd = (@ \ {<<p, r>>}) \cup ({p} \X inserted),
           !.wLog[p] = Append(@, Logged(r, new))])

-------------------------------------------------------------------------------
(* The end of a transaction                                                *)

Commit(c) ==
  /\ tx[c].pc = "commit"
  /\ Publish(c)
  /\ \/ tx[c].req.op # "CreateTeam" /\ Finish(c, "ok")
     \/ /\ tx[c].req.op = "CreateTeam"
        /\ tx' = [tx EXCEPT ![c] = [Idle EXCEPT !.pc = "selectTeamIDQuery",
                                                !.req = tx[c].req]]
        /\ UNCHANGED <<resp, issued>>

\* The deadline passes while COMMIT is on its way: it takes effect, the
\* handler answers an error.
CommitLost(c) ==
  /\ Timeouts
  /\ tx[c].pc = "commit"
  /\ Publish(c)
  /\ Finish(c, "internal")

\* The deadline of withTimeout passes at any other moment.
Expire(c) ==
  /\ Timeouts
  /\ tx[c].pc # "idle"
  /\ Fail(c, "internal")

\* PostgreSQL aborts one of the transactions of a deadlock.
DeadlockAbort(c) == InCycle(c) /\ Fail(c, "internal")

\* The bound on requests is used up.
Quiesce ==
  /\ issued = MaxRequests
  /\ \A c \in Client : tx[c].pc = "idle"
  /\ UNCHANGED vars

-------------------------------------------------------------------------------
Statement(c) ==
  \/ SelectAuthor(c) \/ InsertPR(c) \/ SelectCandidates(c)
  \/ SelectPRForMerge(c) \/ SelectPRForReassign(c)
  \/ SelectReviewerTeam(c) \/ SelectReplacement(c)
  \/ StartSetUserActive(c) \/ UpdateUserActive(c)
  \/ InsertTeam(c) \/ UpsertUser(c) \/ GetTeam(c)
  \/ SelectTeamForDeactivate(c) \/ DeactivateUser(c)
  \/ SelectImpactedPRs(c) \/ LockImpacted(c)
  \/ BeginPR(c) \/ ReplaceReviewer(c)
  \/ Commit(c)

Next ==
  \/ \E c \in Client : \/ Receive(c) \/ Statement(c)
                       \/ CommitLost(c) \/ Expire(c) \/ DeadlockAbort(c)
  \/ Quiesce

Spec == Init /\ [][Next]_vars

\* A handler goes on as long as the database answers it; a freed lock is
\* given to a waiter; the deadlock detector runs.  Requests are bounded, so
\* weak fairness stands for PostgreSQL's first-come-first-served lock queue.
Fairness ==
  \A c \in Client : WF_vars(Statement(c)) /\ WF_vars(DeadlockAbort(c))

FairSpec == Spec /\ Fairness

-------------------------------------------------------------------------------
(* Invariants                                                              *)

\* Every variable holds values of its type: in particular no NOT NULL
\* column of a committed row is ever NULL.
TypeOK ==
  /\ [teams |-> teams, users |-> users, prs |-> prs,
      reviewers |-> reviewers, history |-> history] \in Database
  /\ tx \in [Client -> Transaction]
  /\ resp \in [Client -> Answer \cup {Nil}]
  /\ issued \in 0..MaxRequests

\* A PR never has more than two reviewers and never its author among them
\* (TODO.md: up to two active reviewers, the author excluded), whichever
\* creations, reassignments and team deactivations ran and overlapped.
AtMostTwoNeverAuthor == WellAssigned(prs, reviewers)

\* What CreatePR, MergePR and ReassignReviewer are about to answer as
\* pr.Reviewers is what their COMMIT leaves in pr_reviewers: no concurrent
\* request gets in between the SELECT and the COMMIT.
AnswerIsCurrent ==
  \A c \in Client :
    tx[c].pc = "commit" /\ tx[c].req.op \in {"CreatePR", "MergePR",
                                             "ReassignReviewer"} =>
      tx[c].seen = ReviewersOf(ReviewersSeenBy(c), tx[c].req.pr)

\* When DeactivateTeam reaches COMMIT, no PR it locked keeps a reviewer it
\* has deactivated, unless that PR was merged first.
ImpactedCleaned ==
  \A c \in Client :
    tx[c].pc = "commit" /\ tx[c].req.op = "DeactivateTeam" =>
      \A p \in tx[c].locks \cap PR :
        prs[p].status = "OPEN" =>
          ReviewersOf(ReviewersSeenBy(c), p) \cap tx[c].deactivated = {}

\* Deadlocks come from the operations that lock several rows, CreateTeam
\* and DeactivateTeam.  A request about one PR or one user is never the
\* victim of one.
DeadlocksAreBulk ==
  \A c \in Client :
    InCycle(c) => tx[c].req.op \in {"CreateTeam", "DeactivateTeam"}

-------------------------------------------------------------------------------
(* Action properties                                                       *)

\* Once a PR is merged its row, its reviewers and its history stay as they
\* are: neither a reassignment nor a team deactivation that started on the
\* open PR may commit on the merged one (TODO.md, rule 3).
MergedFrozen ==
  [][\A p \in PR : prs[p] # Nil /\ prs[p].status = "MERGED" =>
       /\ prs'[p] = prs[p]
       /\ ReviewersOf(reviewers', p) = ReviewersOf(reviewers, p)
       /\ history'[p] = history[p]]_vars

\* No lost update: a committed row of users or pull_requests, or a PR's
\* reviewers, never change under a transaction that has written the row and
\* goes on.
NoLostUpdate ==
  [][\A c \in Client : tx'[c].locks # {} =>
       /\ \A u \in User : tx[c].wUsers[u] # Nil => users'[u] = users[u]
       /\ \A p \in PR : p \in tx[c].locks =>
            /\ prs'[p] = prs[p]
            /\ ReviewersOf(reviewers', p) = ReviewersOf(reviewers, p)
     ]_vars

-------------------------------------------------------------------------------
(* What requests that do not overlap achieve, and overlapping ones may not *)

\* c's transaction commits in this step.
Commits(c) == tx[c].pc = "commit" /\ tx'[c].pc # "commit"

\* A user who becomes a reviewer is active when the assignment appears
\* (TODO.md: a user with isActive = false must not be assigned to a review).
AssignsActive ==
  [][\A p \in PR, u \in User :
       <<p, u>> \in reviewers' \ reviewers => u \in ActiveUsers(users')]_vars

\* New reviewers come from the author's team when a PR is created, from the
\* replaced reviewer's team in a reassignment, and from any other team than
\* the one that is deactivated (TODO.md, rules 1 and 2; team.go:113).
AssignsFromTeam ==
  [][\A c \in Client, p \in PR, u \in User :
       Commits(c) /\ <<p, u>> \in reviewers' \ reviewers =>
         CASE tx[c].req.op = "DeactivateTeam" ->
                users[u].team # tx[c].req.team
           [] tx[c].req.op \in {"CreatePR", "ReassignReviewer"} ->
                users[u].team = users[tx[c].req.user].team
           [] OTHER -> FALSE]_vars

\* A new PR gets two reviewers, or all candidates when there are fewer
\* (TODO.md, rules 1 and 4).
FullyStaffed ==
  [][\A p \in PR : prs[p] = Nil /\ prs'[p] # Nil =>
       LET a == prs'[p].author
           n == Cardinality(TeamCandidates(users, users[a].team, a))
       IN Cardinality(ReviewersOf(reviewers', p)) = IF n < 2 THEN n ELSE 2]_vars

\* After a successful DeactivateTeam no open PR is reviewed by a member of
\* the team (openapi.yml: deactivate all members of the team and reassign or
\* remove the reviewers).
DeactivatedTeamReviewsNothing ==
  [][\A c \in Client :
       /\ tx[c].req # Nil /\ tx[c].req.op = "DeactivateTeam"
       /\ tx[c].pc # "idle" /\ tx'[c].pc = "idle" /\ resp'[c] = "ok"
       => \A p \in PR : prs'[p] # Nil /\ prs'[p].status = "OPEN" =>
            \A u \in ReviewersOf(reviewers', p) :
              users'[u].team # tx[c].req.team]_vars

\* SetUserActive answers ErrUserNotFound only for a user who does not exist
\* (entities/errors.go: returned when a user does not exist).
NotFoundMeansAbsent ==
  [][\A c \in Client :
       /\ tx[c].req # Nil /\ tx[c].req.op = "SetUserActive"
       /\ tx[c].pc # "idle" /\ tx'[c].pc = "idle"
       /\ resp'[c] = "ErrUserNotFound"
       => users[tx[c].req.user] = Nil]_vars

-------------------------------------------------------------------------------
(* Liveness                                                                *)

\* Every request is answered, though transactions wait for each other's
\* locks and may deadlock.
Answered == \A c \in Client : tx[c].pc # "idle" ~> tx[c].pc = "idle"

===============================================================================
