---------------------------- MODULE ServiceApiProofs ----------------------------
(***************************************************************************)
(* Proofs about ServiceApi, for any set of clients, any calls they make    *)
(* and any number of repetitions: what an answer says is so, a merge stays *)
(* as it was answered, and a call repeated after a 500 is applied once.    *)
(***************************************************************************)
EXTENDS ServiceApi, ReviewTxLedgerProofs

-------------------------------------------------------------------------------
(* Teams and their members, underneath the API.  CreateTeam keeps its team *)
(* locked and out of the table until it commits, and by then has a row of  *)
(* every member it was sent; nobody else moves a user to another team.     *)

\* The ids of the members in a request of CreateTeam.
Sent(r) == {r.members[i].id : i \in DOMAIN r.members}

\* t has inserted its team, but not committed it.
Enrolling(t) ==
  t.pc \in {"upsertUserQuery", "commit"} /\ t.req.op = "CreateTeam"

\* The members t has still to upsert.
Awaited(t) == {t.members[i].id : i \in DOMAIN t.members}

Enrolled(t, us, ts) ==
  /\ t.wTeams = IF Enrolling(t) THEN {t.req.team} ELSE {}
  /\ Enrolling(t) =>
       /\ t.req.team \in t.locks \ ts
       /\ Awaited(t) \subseteq Sent(t.req)
       /\ \A u \in Sent(t.req) : t.wUsers[u] # Nil \/ u \in Awaited(t)
       /\ t.pc = "commit" => Awaited(t) = {}
  /\ \A u \in User : t.wUsers[u] # Nil =>
       \/ /\ Enrolling(t) /\ u \in Sent(t.req)
          /\ t.wUsers[u].team = t.req.team
       \/ /\ t.req.op = "DeactivateTeam"
          /\ us[u] # Nil /\ t.wUsers[u].team = us[u].team

TeamInv ==
  /\ \A u \in User : users[u] # Nil => users[u].team \in teams
  /\ \A c \in Client : Enrolled(tx[c], users, teams)

-------------------------------------------------------------------------------
(* The client's side: h is http[c], t is tx[c].                            *)

\* c's attempt is under way and may still change a table.
Pending(t) == IF t.pc \in {"idle", "selectTeamIDQuery"} THEN 0 ELSE 1

Exchange ==
  [call : Calls \cup {Nil}, tries : 0..MaxTries, times : 0..MaxTries,
   status : {Nil, 200, 201, 400, 404, 409, 500},
   shown : (SUBSET User) \cup {Nil}, known : SUBSET Team]

\* A call that makes a request of the repository.
Valid(call) == call.op # "GetTeamGet" /\ Asked(call) # Nil

\* What is said of a call, whatever the tables hold.
Spoken(h, t) ==
  /\ h.call = Nil => h = NoCall /\ t.pc = "idle"
  /\ h.call # Nil => (h.status = Nil <=> t.pc # "idle")
  /\ h.times + Pending(t) <= h.tries
  /\ t.pc # "idle" => Valid(h.call) /\ t.req = Asked(h.call)
  /\ h.status = 500 /\ h.call.op # "GetTeamGet" => Valid(h.call)
  /\ h.status = 201 => h.times = 1
  /\ h.times > 0 => Valid(h.call)
  /\ h.status \in {400, 404, 409} /\ h.tries = 1
     /\ h.call.op # "PostUsersSetIsActive" => h.times = 0

\* A call that has changed a table has left there what it asks for, and
\* would find it if it were repeated.
Applied(h, ts, ps) ==
  h.times > 0 =>
    /\ h.call.op = "PostPullRequestCreate" =>
         h.times = 1 /\ ps[Asked(h.call).pr] # Nil
    /\ h.call.op = "PostPullRequestMerge" =>
         /\ h.times = 1
         /\ ps[Asked(h.call).pr] # Nil
         /\ ps[Asked(h.call).pr].status = "MERGED"
    /\ h.call.op = "PostTeamAdd" => h.times = 1 /\ Asked(h.call).team \in ts

\* A merge that was answered 200.
Final(h, ps, rv) ==
  h.status = 200 /\ h.call.op = "PostPullRequestMerge" =>
    /\ Valid(h.call)
    /\ ps[Asked(h.call).pr] # Nil
    /\ ps[Asked(h.call).pr].status = "MERGED"
    /\ h.shown = ReviewersOf(rv, Asked(h.call).pr)

\* A member who was sent to team r.team, and is not there, has left it for a
\* team that is not in known.
TookOver(r, u, known, us) ==
  us[u] # Nil /\ (us[u].team # r.team => us[u].team \notin known)

\* A team that was committed, and one that was answered 201.
Staffed(h, t, us, ts) ==
  /\ h.known \subseteq ts
  /\ t.pc = "selectTeamIDQuery" =>
       /\ h.times = 1 /\ t.req.team \in h.known
       /\ \A u \in Sent(t.req) : TookOver(t.req, u, h.known, us)
       /\ \A u \in User : us[u] # Nil /\ us[u].team = t.req.team =>
                            u \in Sent(t.req)
  /\ h.status = 201 /\ h.call.op = "PostTeamAdd" =>
       /\ h.shown \subseteq Sent(Asked(h.call))
       /\ \A u \in Sent(Asked(h.call)) \ h.shown :
            us[u] # Nil /\ us[u].team \notin h.known

Talk(h, t, ts, us, ps, rv) ==
  /\ Spoken(h, t)
  /\ Applied(h, ts, ps)
  /\ Final(h, ps, rv)
  /\ Staffed(h, t, us, ts)

TalkInv == \A c \in Client : Talk(http[c], tx[c], teams, users, prs, reviewers)

ApiInv ==
  /\ LedgerInv
  /\ TeamInv
  /\ http \in [Client -> Exchange]
  /\ TalkInv

-------------------------------------------------------------------------------
(* Lemmas about teams.                                                     *)

\* The ids in a list are that of its head and those of its tail.
LEMMA AwaitedTail ==
  ASSUME NEW s \in Seq(Member), s # <<>>
  PROVE  {s[i].id : i \in DOMAIN s} =
           {Head(s).id} \cup {Tail(s)[i].id : i \in DOMAIN Tail(s)}
<1>1. /\ Len(s) \in Nat /\ Len(s) >= 1
      /\ DOMAIN s = 1..Len(s) /\ Head(s) = s[1]
      /\ DOMAIN Tail(s) = 1..(Len(s) - 1)
      /\ \A i \in 1..(Len(s) - 1) : Tail(s)[i] = s[i + 1]
  <2>1. /\ Tail(s) \in Seq(Member) /\ Len(Tail(s)) = Len(s) - 1
        /\ \A i \in 1..Len(Tail(s)) : Tail(s)[i] = s[i + 1]
    BY HeadTailProperties
  <2>2. Len(s) \in Nat /\ Len(s) # 0 /\ DOMAIN s = 1..Len(s)
    BY EmptySeq, LenProperties
  <2>3. DOMAIN Tail(s) = 1..Len(Tail(s))
    BY <2>1, LenProperties
  <2> QED BY <2>1, <2>2, <2>3
<1>2. \A i \in DOMAIN s :
        \/ i = 1
        \/ i - 1 \in DOMAIN Tail(s) /\ s[i] = Tail(s)[i - 1]
  BY <1>1
<1>3. \A i \in DOMAIN Tail(s) : i + 1 \in DOMAIN s /\ Tail(s)[i] = s[i + 1]
  BY <1>1
<1>4. 1 \in DOMAIN s
  BY <1>1
<1>5. ASSUME NEW i \in DOMAIN s
      PROVE  s[i].id \in {Head(s).id} \cup {Tail(s)[j].id : j \in DOMAIN Tail(s)}
  BY <1>1, <1>2
<1>6. ASSUME NEW i \in DOMAIN Tail(s)
      PROVE  Tail(s)[i].id \in {s[j].id : j \in DOMAIN s}
  BY <1>3
<1>7. Head(s).id \in {s[j].id : j \in DOMAIN s}
  BY <1>1, <1>4
<1> QED
  BY <1>5, <1>6, <1>7

\* The members of a well-typed CreateTeam are users.
LEMMA SentUsers ==
  ASSUME NEW r \in AnyRequest, r.op = "CreateTeam"
  PROVE  Sent(r) \subseteq User
<1>1. r.members \in Seq(Member)
  BY RequestFields
<1>2. ASSUME NEW i \in DOMAIN r.members
      PROVE  r.members[i].id \in User
  <2>1. r.members[i] \in Member
    BY <1>1, <1>2, LenProperties, ElementOfSeq
  <2> QED BY <2>1 DEF Member
<1> QED
  BY <1>2 DEF Sent

\* Enrolled(t, us, ts) looks at the users and teams t has locked only.
LEMMA EnrolledStable ==
  ASSUME NEW t, Careful(t, prs), NEW us, NEW ts, Enrolled(t, us, ts),
         NEW us2, NEW ts2,
         \A u \in User : u \in t.locks => us2[u] = us[u],
         \A m \in t.locks : m \in ts2 => m \in ts
  PROVE  Enrolled(t, us2, ts2)
<1>1. \A u \in User : t.wUsers[u] # Nil => us2[u] = us[u]
  BY DEF Careful
<1> QED
  BY <1>1 DEF Enrolled

\* A handler between requests, or that reads its team back, enrols nobody.
LEMMA IdleEnrolled ==
  ASSUME NEW t, t.pc \notin {"upsertUserQuery", "commit"},
         t.wTeams = {}, t.wUsers = Idle.wUsers, NEW us, NEW ts
  PROVE  Enrolled(t, us, ts)
<1>1. \A u \in User : Idle.wUsers[u] = Nil
  BY DEF Idle
<1> QED
  BY <1>1 DEF Enrolled, Enrolling

\* A step of c that keeps the committed users and teams.
LEMMA WorkTeams ==
  ASSUME LedgerInv, TeamInv, NEW c \in Client,
         users' = users, teams' = teams,
         \A d \in Client \ {c} : tx'[d] = tx[d],
         Enrolled(tx'[c], users, teams)
  PROVE  TeamInv'
BY DEF TeamInv

\* A step of c that changes users or teams leaves those of others alone.
LEMMA EndTeams ==
  ASSUME LedgerInv, TeamInv, NEW c \in Client,
         \A d \in Client \ {c} : tx'[d] = tx[d],
         \A d \in Client \ {c}, u \in User :
           u \in tx[d].locks => users'[u] = users[u],
         \A m \in teams' : m \in teams \/ m \in tx[c].locks,
         \A u \in User : users'[u] # Nil => users'[u].team \in teams',
         Enrolled(tx'[c], users', teams')
  PROVE  TeamInv'
<1>1. ASSUME NEW d \in Client PROVE Enrolled(tx'[d], users', teams')
  <2>1. CASE d = c
    BY <2>1
  <2>2. CASE d # c
    <3>1. Careful(tx[d], prs) /\ Enrolled(tx[d], users, teams) /\ tx'[d] = tx[d]
      BY <2>2, ClientFacts DEF TeamInv
    <3>2. \A m \in tx[d].locks : m \in teams' => m \in teams
      BY <2>2 DEF LedgerInv, Inv, LockInv, Exclusive
    <3>3. \A u \in User : u \in tx[d].locks => users'[u] = users[u]
      BY <2>2
    <3> QED BY <3>1, <3>2, <3>3, EnrolledStable
  <2> QED BY <2>1, <2>2
<1> QED
  BY <1>1 DEF TeamInv

-------------------------------------------------------------------------------
(* What a step of a transaction can be: work under way, an error, or one   *)
(* of the four steps that end a transaction or change a table.             *)

Working(c) ==
  /\ UNCHANGED tables
  /\ \A d \in Client \ {c} : tx'[d] = tx[d]
  /\ tx[c].pc \notin {"idle", "selectTeamIDQuery"}
  /\ tx'[c].pc \notin {"idle", "selectTeamIDQuery"}
  /\ tx'[c].req = tx[c].req

\* Work that is not about teams.
Quiet(c) ==
  /\ Working(c)
  /\ tx'[c].wTeams = tx[c].wTeams /\ tx'[c].wUsers = tx[c].wUsers
  /\ ~Enrolling(tx[c]) /\ ~Enrolling(tx'[c])

Failing(c) ==
  \E err \in Answer \ {"ok"} :
    /\ Fail(c, err)
    /\ tx[c].pc # "idle"
    /\ err # "internal" => tx[c].pc # "selectTeamIDQuery"

\* A statement that does not end the transaction of another operation than
\* CreateTeam is quiet when it writes no user.
LEMMA ProceedQuietly ==
  ASSUME LedgerInv, NEW c \in Client, NEW next, Proceed(c, next),
         tx[c].pc \notin {"idle", "selectTeamIDQuery"},
         next.pc \notin {"idle", "selectTeamIDQuery"},
         next.req = tx[c].req, tx[c].req.op # "CreateTeam",
         next.wTeams = tx[c].wTeams, next.wUsers = tx[c].wUsers
  PROVE  Quiet(c)
<1>1. tx \in [Client -> Transaction]
  BY DEF LedgerInv, Inv, TypeInv, TypeOK
<1>2. /\ tx'[c] = next
      /\ \A d \in Client \ {c} : tx'[d] = tx[d]
      /\ UNCHANGED tables
  BY <1>1 DEF Proceed, tables
<1> QED
  BY <1>2 DEF Quiet, Working, Enrolling

\* Every statement about one PR is quiet, or fails.
LEMMA PRStatement ==
  ASSUME LedgerInv, NEW c \in Client,
         \/ SelectAuthor(c) \/ InsertPR(c) \/ SelectCandidates(c)
         \/ SelectPRForMerge(c) \/ SelectPRForReassign(c)
         \/ SelectReviewerTeam(c) \/ SelectReplacement(c)
  PROVE  Quiet(c) \/ Failing(c)
<1> DEFINE t == tx[c]
           p == t.req.pr
<1> t \in Transaction /\ Shape(t, users, prs)
  BY ClientFacts
<1>1. /\ t.pc \notin {"idle", "selectTeamIDQuery"}
      /\ t.req.op # "CreateTeam"
  BY DEF Shape, SelectAuthor, InsertPR, SelectCandidates, SelectPRForMerge,
         SelectPRForReassign, SelectReviewerTeam, SelectReplacement
<1>2. ASSUME NEW err \in Answer \ {"ok"}, Fail(c, err) PROVE Failing(c)
  BY <1>1, <1>2 DEF Failing
<1>3. ASSUME NEW next, Proceed(c, next),
             next.pc \notin {"idle", "selectTeamIDQuery"}, next.req = t.req,
             next.wTeams = t.wTeams, next.wUsers = t.wUsers
      PROVE  Quiet(c)
  BY <1>1, <1>3, ProceedQuietly
<1>4. CASE SelectAuthor(c)
  <2> DEFINE next == [t EXCEPT !.pc = "insertPRQuery",
                               !.team = users[t.req.user].team]
  <2>1. /\ next.pc = "insertPRQuery" /\ next.req = t.req
        /\ next.wTeams = t.wTeams /\ next.wUsers = t.wUsers
    BY DEF Transaction
  <2>2. \/ Proceed(c, next)
        \/ \E err \in Answer \ {"ok"} : Fail(c, err)
    BY <1>4 DEF SelectAuthor, Answer
  <2> HIDE DEF next
  <2> QED BY <1>2, <1>3, <2>1, <2>2
<1>5. CASE InsertPR(c)
  <2> DEFINE next == [t EXCEPT
               !.pc = "selectCandidatesQuery",
               !.locks = @ \cup {p},
               !.wPrs[p] = [author |-> t.req.user, status |-> "OPEN"]]
  <2>1. /\ next.pc = "selectCandidatesQuery" /\ next.req = t.req
        /\ next.wTeams = t.wTeams /\ next.wUsers = t.wUsers
    BY DEF Transaction
  <2>2. \/ Proceed(c, next)
        \/ \E err \in Answer \ {"ok"} : Fail(c, err)
    BY <1>5 DEF InsertPR, Answer
  <2> HIDE DEF next
  <2> QED BY <1>2, <1>3, <2>1, <2>2
<1>6. CASE SelectCandidates(c)
  <2> DEFINE next(R) == [t EXCEPT !.pc = "commit", !.seen = R,
                                  !.wAdd = @ \cup ({p} \X R)]
  <2>1. ASSUME NEW R
        PROVE  /\ next(R).pc = "commit" /\ next(R).req = t.req
               /\ next(R).wTeams = t.wTeams /\ next(R).wUsers = t.wUsers
    BY DEF Transaction
  <2>2. \E R : Proceed(c, next(R))
    BY <1>6 DEF SelectCandidates
  <2> HIDE DEF next
  <2> QED BY <1>3, <2>1, <2>2
<1>7. CASE SelectPRForMerge(c)
  <2> DEFINE next == [t EXCEPT
               !.pc = "commit",
               !.locks = @ \cup {p},
               !.seen = ReviewersOf(reviewers, p),
               !.wPrs[p] = IF prs[p].status = "MERGED" THEN Nil
                           ELSE [prs[p] EXCEPT !.status = "MERGED"]]
  <2>1. /\ next.pc = "commit" /\ next.req = t.req
        /\ next.wTeams = t.wTeams /\ next.wUsers = t.wUsers
    BY DEF Transaction
  <2>2. \/ Proceed(c, next)
        \/ \E err \in Answer \ {"ok"} : Fail(c, err)
    BY <1>7 DEF SelectPRForMerge, Answer
  <2> HIDE DEF next
  <2> QED BY <1>2, <1>3, <2>1, <2>2
<1>8. CASE SelectPRForReassign(c)
  <2> DEFINE next == [t EXCEPT !.pc = "selectReviewerTeamQuery",
                               !.locks = @ \cup {p},
                               !.seen = ReviewersOf(reviewers, p)]
  <2>1. /\ next.pc = "selectReviewerTeamQuery" /\ next.req = t.req
        /\ next.wTeams = t.wTeams /\ next.wUsers = t.wUsers
    BY DEF Transaction
  <2>2. \/ Proceed(c, next)
        \/ \E err \in Answer \ {"ok"} : Fail(c, err)
    BY <1>8 DEF SelectPRForReassign, Answer
  <2> HIDE DEF next
  <2> QED BY <1>2, <1>3, <2>1, <2>2
<1>9. CASE SelectReviewerTeam(c)
  <2> DEFINE next == [t EXCEPT !.pc = "selectReplacementCandidatesQuery",
                               !.team = users[t.req.user].team]
  <2>1. /\ next.pc = "selectReplacementCandidatesQuery" /\ next.req = t.req
        /\ next.wTeams = t.wTeams /\ next.wUsers = t.wUsers
    BY DEF Transaction
  <2>2. \/ Proceed(c, next)
        \/ \E err \in Answer \ {"ok"} : Fail(c, err)
    BY <1>9 DEF SelectReviewerTeam, Answer
  <2> HIDE DEF next
  <2> QED BY <1>2, <1>3, <2>1, <2>2
<1>10. CASE SelectReplacement(c)
  <2> DEFINE next(new) == [t EXCEPT
               !.pc = "commit",
               !.seen = (@ \ {t.req.user}) \cup {new},
               !.wDel = @ \cup {<<p, t.req.user>>},
               !.wAdd = @ \cup {<<p, new>>},
               !.wLog[p] = Append(@, Logged(t.req.user, new))]
  <2>1. ASSUME NEW new
        PROVE  /\ next(new).pc = "commit" /\ next(new).req = t.req
               /\ next(new).wTeams = t.wTeams /\ next(new).wUsers = t.wUsers
    BY DEF Transaction
  <2>2. \/ \E new : Proceed(c, next(new))
        \/ \E err \in Answer \ {"ok"} : Fail(c, err)
    BY <1>10 DEF SelectReplacement, Answer
  <2> HIDE DEF next
  <2> QED BY <1>2, <1>3, <2>1, <2>2
<1> QED
  BY <1>4, <1>5, <1>6, <1>7, <1>8, <1>9, <1>10

\* So is every other statement that writes neither users nor teams.
LEMMA BulkStatement ==
  ASSUME LedgerInv, NEW c \in Client,
         \/ StartSetUserActive(c) \/ SelectTeamForDeactivate(c)
         \/ SelectImpactedPRs(c) \/ LockImpacted(c)
         \/ BeginPR(c) \/ ReplaceReviewer(c)
  PROVE  Quiet(c) \/ Failing(c)
<1> DEFINE t == tx[c]
           p == t.at
<1> t \in Transaction /\ Shape(t, users, prs)
  BY ClientFacts
<1>0. \A S : AfterPR(S) \in {"commit", "selectPRStatusQuery"}
  BY DEF AfterPR
<1>1. /\ t.pc \notin {"idle", "selectTeamIDQuery"}
      /\ t.req.op # "CreateTeam"
  BY DEF Shape, DeactivateLabel, StartSetUserActive, SelectTeamForDeactivate,
         SelectImpactedPRs, LockImpacted, BeginPR, ReplaceReviewer
<1>2. ASSUME NEW err \in Answer \ {"ok"}, Fail(c, err) PROVE Failing(c)
  BY <1>1, <1>2 DEF Failing
<1>3. ASSUME NEW next, Proceed(c, next),
             next.pc \notin {"idle", "selectTeamIDQuery"}, next.req = t.req,
             next.wTeams = t.wTeams, next.wUsers = t.wUsers
      PROVE  Quiet(c)
  BY <1>1, <1>3, ProceedQuietly
<1>4. CASE StartSetUserActive(c)
  <2> DEFINE next == [t EXCEPT !.pc = "updated", !.snapshot = teams]
  <2>1. /\ next.pc = "updated" /\ next.req = t.req
        /\ next.wTeams = t.wTeams /\ next.wUsers = t.wUsers
    BY DEF Transaction
  <2>2. \/ Proceed(c, next)
        \/ \E err \in Answer \ {"ok"} : Fail(c, err)
    BY <1>4 DEF StartSetUserActive, Answer
  <2> HIDE DEF next
  <2> QED BY <1>2, <1>3, <2>1, <2>2
<1>5. CASE SelectTeamForDeactivate(c)
  <2> DEFINE rows == {u \in ActiveUsers(users) : users[u].team = t.req.team}
             next(r) == [t EXCEPT
               !.pc = IF r = Nil THEN "commit" ELSE "deactivateUsersQuery",
               !.team = t.req.team, !.at = r, !.todo = rows \ {r}]
  <2>1. ASSUME NEW r
        PROVE  /\ next(r).pc \in {"commit", "deactivateUsersQuery"}
               /\ next(r).req = t.req
               /\ next(r).wTeams = t.wTeams /\ next(r).wUsers = t.wUsers
    BY DEF Transaction
  <2>2. \/ \E r : Proceed(c, next(r))
        \/ \E err \in Answer \ {"ok"} : Fail(c, err)
    BY <1>5 DEF SelectTeamForDeactivate, Answer
  <2> HIDE DEF next
  <2> QED BY <1>2, <1>3, <2>1, <2>2
<1>6. CASE SelectImpactedPRs(c)
  <2> DEFINE rows == ImpactedPRs(prs, reviewers, t.deactivated)
             next(r) == [t EXCEPT
               !.pc = IF r = Nil THEN "commit" ELSE "lockImpacted",
               !.at = r, !.todo = rows \ {r}]
  <2>1. ASSUME NEW r
        PROVE  /\ next(r).pc \in {"commit", "lockImpacted"}
               /\ next(r).req = t.req
               /\ next(r).wTeams = t.wTeams /\ next(r).wUsers = t.wUsers
    BY DEF Transaction
  <2>2. \E r : Proceed(c, next(r))
    BY <1>6 DEF SelectImpactedPRs
  <2> HIDE DEF next
  <2> QED BY <1>3, <2>1, <2>2
<1>7. CASE LockImpacted(c)
  <2> DEFINE hit == IF prs[p].status = "OPEN" THEN t.impacted \cup {p}
                                              ELSE t.impacted
             next(r) == [t EXCEPT
               !.pc = IF r # Nil THEN "lockImpacted" ELSE AfterPR(hit),
               !.locks = @ \cup {p}, !.at = r, !.todo = @ \ {r},
               !.impacted = hit]
  <2>1. ASSUME NEW r
        PROVE  /\ next(r).pc \in {"commit", "lockImpacted", "selectPRStatusQuery"}
               /\ next(r).req = t.req
               /\ next(r).wTeams = t.wTeams /\ next(r).wUsers = t.wUsers
    BY <1>0 DEF Transaction
  <2>2. \E r : Proceed(c, next(r))
    BY <1>7 DEF LockImpacted
  <2> HIDE DEF next
  <2> QED BY <1>3, <2>1, <2>2
<1>8. CASE BeginPR(c)
  <2> DEFINE existing(q) == ReviewersOf(ReviewersSeenBy(c), q)
             leaving(q) == IF PrsSeenBy(c)[q].status = "OPEN"
                           THEN existing(q) \cap t.deactivated ELSE {}
             next(q) == [t EXCEPT
               !.pc = IF leaving(q) = {} THEN AfterPR(t.impacted \ {q})
                                         ELSE "activeReplacementQuery",
               !.at = q, !.seen = existing(q), !.todo = leaving(q),
               !.impacted = @ \ {q}]
  <2>1. ASSUME NEW q
        PROVE  /\ next(q).pc \in {"commit", "activeReplacementQuery",
                                  "selectPRStatusQuery"}
               /\ next(q).req = t.req
               /\ next(q).wTeams = t.wTeams /\ next(q).wUsers = t.wUsers
    BY <1>0 DEF Transaction
  <2>2. \E q : Proceed(c, next(q))
    BY <1>8 DEF BeginPR
  <2> HIDE DEF next
  <2> QED BY <1>3, <2>1, <2>2
<1>9. CASE ReplaceReviewer(c)
  <2> DEFINE next(r, new) == [t EXCEPT
               !.pc = IF t.todo # {r} THEN "activeReplacementQuery"
                                      ELSE AfterPR(t.impacted),
               !.todo = @ \ {r},
               !.seen = (t.seen \ {r}) \cup ({new} \ {Nil}),
               !.wDel = @ \cup {<<p, r>>},
               !.wAdd = (@ \ {<<p, r>>}) \cup ({p} \X ({new} \ {Nil})),
               !.wLog[p] = Append(@, Logged(r, new))]
  <2>1. ASSUME NEW r, NEW new
        PROVE  /\ next(r, new).pc \in {"commit", "activeReplacementQuery",
                                       "selectPRStatusQuery"}
               /\ next(r, new).req = t.req
               /\ next(r, new).wTeams = t.wTeams
               /\ next(r, new).wUsers = t.wUsers
    BY <1>0 DEF Transaction
  <2>2. \E r, new : Proceed(c, next(r, new))
    BY <1>9 DEF ReplaceReviewer
  <2> HIDE DEF next
  <2> QED BY <1>3, <2>1, <2>2
<1> QED
  BY <1>4, <1>5, <1>6, <1>7, <1>8, <1>9

\* A quiet statement enrols nobody.
LEMMA QuietTeams ==
  ASSUME LedgerInv, TeamInv, NEW c \in Client, Quiet(c)
  PROVE  TeamInv'
<1>1. /\ users' = users /\ teams' = teams
      /\ \A d \in Client \ {c} : tx'[d] = tx[d]
  BY DEF Quiet, Working, tables
<1>2. Enrolled(tx[c], users, teams)
  BY DEF TeamInv
<1>3. Enrolled(tx'[c], users, teams)
  BY <1>2 DEF Quiet, Working, Enrolled
<1> QED
  BY <1>1, <1>3, WorkTeams

\* A rollback forgets the team.
LEMMA FailTeams ==
  ASSUME LedgerInv, TeamInv, NEW c \in Client, NEW err, Fail(c, err)
  PROVE  TeamInv'
<1>1. tx \in [Client -> Transaction]
  BY DEF LedgerInv, Inv, TypeInv, TypeOK
<1>2. /\ users' = users /\ teams' = teams
      /\ tx'[c] = Idle /\ \A d \in Client \ {c} : tx'[d] = tx[d]
  BY <1>1 DEF Fail, Finish, tables
<1>3. Enrolled(Idle, users, teams)
  <2>1. Idle.pc \notin {"upsertUserQuery", "commit"} /\ Idle.wTeams = {}
    BY DEF Idle
  <2> QED BY <2>1, IdleEnrolled
<1> QED
  BY <1>2, <1>3, WorkTeams

\* What is left to upsert decides whether the transaction goes on to COMMIT.
LEMMA AfterMemberLabel ==
  ASSUME NEW rest
  PROVE  /\ AfterMember(rest) \in {"upsertUserQuery", "commit"}
         /\ AfterMember(rest) = "commit" => rest = <<>>
BY DEF AfterMember

\* CreateTeam's INSERT of the team: the name is free, and now locked.
LEMMA InsertTeamEnrols ==
  ASSUME LedgerInv, TeamInv, NEW c \in Client, InsertTeam(c)
  PROVE  TeamInv' /\ (Working(c) \/ Failing(c))
<1> DEFINE t == tx[c]
           next == [t EXCEPT !.pc = AfterMember(t.req.members),
                             !.locks = @ \cup {t.req.team},
                             !.members = t.req.members,
                             !.wTeams = @ \cup {t.req.team}]
<1> t \in Transaction /\ Shape(t, users, prs) /\ Enrolled(t, users, teams)
  BY ClientFacts DEF TeamInv
<1>1. /\ t.pc = "insertTeamQuery" /\ t.req.op = "CreateTeam"
      /\ tx \in [Client -> Transaction]
  BY DEF InsertTeam, Shape, LedgerInv, Inv, TypeInv, TypeOK
<1>2. CASE Fail(c, "ErrTeamExists")
  <2>1. Failing(c)
    BY <1>1, <1>2 DEF Failing, Answer
  <2> QED BY <1>2, <2>1, FailTeams
<1>3. CASE t.req.team \notin teams /\ Proceed(c, next)
  <2>1. /\ next.pc = AfterMember(t.req.members) /\ next.req = t.req
        /\ next.locks = t.locks \cup {t.req.team}
        /\ next.members = t.req.members
        /\ next.wTeams = t.wTeams \cup {t.req.team}
        /\ next.wUsers = t.wUsers
    BY DEF Transaction
  <2>2. Proceed(c, next)
    BY <1>3
  <2> HIDE DEF next
  <2>3. /\ tx'[c] = next /\ \A d \in Client \ {c} : tx'[d] = tx[d]
        /\ UNCHANGED tables
    BY <1>1, <2>2 DEF Proceed, tables
  <2>4. Working(c)
    BY <1>1, <2>1, <2>3, AfterMemberLabel DEF Working
  <2>5. Enrolling(next) /\ ~Enrolling(t)
    BY <1>1, <2>1, AfterMemberLabel DEF Enrolling
  <2>6. t.wTeams = {} /\ \A u \in User : t.wUsers[u] = Nil
    BY <1>1, <2>5 DEF Enrolled
  <2>7. Awaited(next) = Sent(t.req)
    BY <2>1 DEF Awaited, Sent
  <2>8. next.pc = "commit" => Awaited(next) = {}
    <3>1. next.pc = "commit" => next.members = <<>>
      BY <2>1, AfterMemberLabel
    <3> QED BY <3>1 DEF Awaited
  <2>9. Enrolled(next, users, teams)
    BY <1>3, <2>1, <2>5, <2>6, <2>7, <2>8 DEF Enrolled
  <2> QED
    BY <2>3, <2>4, <2>9, WorkTeams DEF tables
<1> QED
  BY <1>2, <1>3 DEF InsertTeam

\* CreateTeam's upsert of one member.
LEMMA UpsertUserEnrols ==
  ASSUME LedgerInv, TeamInv, NEW c \in Client, UpsertUser(c)
  PROVE  TeamInv' /\ Working(c)
<1> DEFINE t == tx[c]
           m == Head(t.members)
           row == [team |-> t.req.team, active |-> m.active]
           next == [t EXCEPT !.pc = AfterMember(Tail(t.members)),
                             !.locks = @ \cup {m.id},
                             !.members = Tail(@),
                             !.wUsers[m.id] = row]
<1> t \in Transaction /\ Shape(t, users, prs) /\ Enrolled(t, users, teams)
  BY ClientFacts DEF TeamInv
<1>1. /\ t.pc = "upsertUserQuery" /\ t.req.op = "CreateTeam"
      /\ t.members \in Seq(Member) /\ t.members # <<>>
      /\ t.wUsers \in [User -> UserRow \cup {Nil}]
      /\ tx \in [Client -> Transaction]
  BY DEF UpsertUser, Shape, LedgerInv, Inv, TypeInv, TypeOK, Transaction
<1>2. m \in Member /\ m.id \in User /\ t.req.team \in Team
  <2>1. m \in Member
    BY <1>1, HeadTailProperties
  <2> QED BY <1>1, <2>1, RequestFields DEF Member, Shape
<1>3. row # Nil /\ row.team = t.req.team
  <2>1. row \in UserRow
    BY <1>2 DEF UserRow, Member
  <2> QED BY <2>1, NilAssumption
<1>4. /\ next.pc = AfterMember(Tail(t.members)) /\ next.req = t.req
      /\ next.locks = t.locks \cup {m.id}
      /\ next.members = Tail(t.members)
      /\ next.wTeams = t.wTeams
      /\ next.wUsers = [t.wUsers EXCEPT ![m.id] = row]
  BY DEF Transaction
<1>5. Proceed(c, next)
  BY DEF UpsertUser
<1>6. next.wUsers[m.id] = row /\ \A u \in User : u # m.id =>
                                   next.wUsers[u] = t.wUsers[u]
  BY <1>1, <1>2, <1>4
<1>7. Awaited(t) = {m.id} \cup Awaited(next)
  <2>1. Awaited(t) =
          {m.id} \cup {Tail(t.members)[i].id : i \in DOMAIN Tail(t.members)}
    BY <1>1, AwaitedTail DEF Awaited
  <2>2. Awaited(next) =
          {Tail(t.members)[i].id : i \in DOMAIN Tail(t.members)}
    BY <1>4 DEF Awaited
  <2> QED BY <2>1, <2>2
<1> HIDE DEF next, row, m
<1>8. /\ tx'[c] = next /\ \A d \in Client \ {c} : tx'[d] = tx[d]
      /\ UNCHANGED tables
  BY <1>1, <1>5 DEF Proceed, tables
<1>9. Working(c)
  BY <1>1, <1>4, <1>8, AfterMemberLabel DEF Working
<1>10. Enrolling(t) /\ Enrolling(next)
  BY <1>1, <1>4, AfterMemberLabel DEF Enrolling
<1>11. next.pc = "commit" => Awaited(next) = {}
  <2>1. next.pc = "commit" => next.members = <<>>
    BY <1>4, AfterMemberLabel
  <2> QED BY <2>1 DEF Awaited
<1>12. /\ t.wTeams = {t.req.team} /\ t.req.team \in t.locks \ teams
       /\ Awaited(t) \subseteq Sent(t.req)
       /\ \A u \in Sent(t.req) : t.wUsers[u] # Nil \/ u \in Awaited(t)
  BY <1>10 DEF Enrolled
<1>13. \A u \in User : next.wUsers[u] # Nil =>
         u \in Sent(t.req) /\ next.wUsers[u].team = t.req.team
  <2>1. m.id \in Sent(t.req)
    BY <1>7, <1>12
  <2>2. \A u \in User : t.wUsers[u] # Nil =>
          u \in Sent(t.req) /\ t.wUsers[u].team = t.req.team
    BY <1>1 DEF Enrolled
  <2> QED BY <1>3, <1>6, <2>1, <2>2
<1>14. Awaited(next) \subseteq Sent(next.req)
  BY <1>4, <1>7, <1>12
<1>15. \A u \in Sent(next.req) : next.wUsers[u] # Nil \/ u \in Awaited(next)
  <2>1. Sent(t.req) \subseteq User
    <3>1. t.req \in AnyRequest
      BY <1>1 DEF Shape
    <3> QED BY <1>1, <3>1, SentUsers
  <2> QED BY <1>3, <1>4, <1>6, <1>7, <1>12, <2>1
<1>16. Enrolled(next, users, teams)
  BY <1>4, <1>10, <1>11, <1>12, <1>13, <1>14, <1>15 DEF Enrolled
<1> QED
  BY <1>8, <1>9, <1>16, WorkTeams DEF tables

\* DeactivateTeam's UPDATE of one user: the team stays.
LEMMA DeactivateUserStays ==
  ASSUME LedgerInv, TeamInv, NEW c \in Client, DeactivateUser(c)
  PROVE  TeamInv' /\ Working(c)
<1> DEFINE t == tx[c]
           a == t.at
           match == users[a].team = t.team /\ users[a].active
           hit == IF match THEN t.deactivated \cup {a} ELSE t.deactivated
           label(r) == CASE r # Nil -> "deactivateUsersQuery"
                         [] r = Nil /\ hit = {} -> "commit"
                         [] r = Nil /\ hit # {} -> "selectImpactedPRsQuery"
           row == IF match THEN [users[a] EXCEPT !.active = FALSE]
                  ELSE t.wUsers[a]
           next(r) == [t EXCEPT !.pc = label(r),
                                !.locks = @ \cup {a},
                                !.at = r,
                                !.todo = @ \ {r},
                                !.deactivated = hit,
                                !.wUsers[a] = row]
<1> t \in Transaction /\ Shape(t, users, prs) /\ Enrolled(t, users, teams)
  BY ClientFacts DEF TeamInv
<1>1. /\ t.pc = "deactivateUsersQuery" /\ t.req.op = "DeactivateTeam"
      /\ a \in User /\ users[a] # Nil
      /\ t.wUsers \in [User -> UserRow \cup {Nil}]
      /\ users \in [User -> UserRow \cup {Nil}]
      /\ tx \in [Client -> Transaction]
  BY DatabaseFields DEF DeactivateUser, Shape, DeactivateLabel, LedgerInv, Inv,
                        TypeInv, TypeOK, Transaction
<1>2. row # Nil => row = t.wUsers[a] \/ row.team = users[a].team
  <2>1. users[a] \in UserRow
    BY <1>1
  <2> QED BY <2>1 DEF UserRow
<1>3. PICK r : Proceed(c, next(r))
  BY DEF DeactivateUser
<1>4. label(r) \in {"deactivateUsersQuery", "commit", "selectImpactedPRsQuery"}
  OBVIOUS
<1> HIDE DEF label
<1>5. /\ next(r).pc = label(r) /\ next(r).req = t.req
      /\ next(r).wTeams = t.wTeams
      /\ next(r).wUsers = [t.wUsers EXCEPT ![a] = row]
  BY DEF Transaction
<1>6. next(r).wUsers[a] = row /\ \A u \in User : u # a =>
                                   next(r).wUsers[u] = t.wUsers[u]
  BY <1>1, <1>5
<1> HIDE DEF next, row
<1>7. /\ tx'[c] = next(r) /\ \A d \in Client \ {c} : tx'[d] = tx[d]
      /\ UNCHANGED tables
  BY <1>1, <1>3 DEF Proceed, tables
<1>8. Working(c)
  BY <1>1, <1>4, <1>5, <1>7 DEF Working
<1>9. ~Enrolling(t) /\ ~Enrolling(next(r))
  BY <1>1, <1>5 DEF Enrolling
<1>10. Enrolled(next(r), users, teams)
  BY <1>1, <1>2, <1>5, <1>6, <1>9 DEF Enrolled
<1> QED
  BY <1>7, <1>8, <1>10, WorkTeams DEF tables

-------------------------------------------------------------------------------
(* What a step may do to the tables: rows stay, merged PRs stay as they    *)
(* are, and a user gets into a team that was there already only as a user  *)
(* who stays in it.                                                        *)

TablesGrow ==
  /\ teams \subseteq teams'
  /\ \A p \in PR : prs[p] # Nil => prs'[p] # Nil
  /\ \A p \in PR : prs[p] # Nil /\ prs[p].status = "MERGED" =>
       /\ prs'[p] = prs[p]
       /\ ReviewersOf(reviewers', p) = ReviewersOf(reviewers, p)
  /\ \A u \in User : users[u] # Nil => users'[u] # Nil
  /\ \A u \in User : users'[u] # Nil /\ users'[u].team \in teams =>
       users[u] # Nil /\ users[u].team = users'[u].team

\* Unchanged tables have done nothing of the kind.
LEMMA SameTablesGrow == UNCHANGED tables => TablesGrow
BY DEF TablesGrow, tables

\* COMMIT moves the users of a new team only, and its team is new.
LEMMA PublishTeams ==
  ASSUME LedgerInv, TeamInv, NEW c \in Client, Publish(c), NEW next,
         tx' = [tx EXCEPT ![c] = next],
         next.pc \notin {"upsertUserQuery", "commit"},
         next.wTeams = {}, next.wUsers = Idle.wUsers
  PROVE  TeamInv' /\ TablesGrow
<1> DEFINE t == tx[c]
<1>1. /\ Enrolled(t, users, teams) /\ Careful(t, prs)
      /\ tx \in [Client -> Transaction] /\ Inv
  BY ClientFacts DEF TeamInv, LedgerInv, Inv, TypeInv, TypeOK
<1>2. /\ teams' = teams \cup t.wTeams
      /\ \A u \in User :
           users'[u] = IF t.wUsers[u] # Nil THEN t.wUsers[u] ELSE users[u]
      /\ \A p \in PR :
           prs'[p] = IF t.wPrs[p] # Nil THEN t.wPrs[p] ELSE prs[p]
  BY DEF Publish, UsersSeenBy, PrsSeenBy
<1>3. /\ t.wTeams \subseteq t.locks \ teams
      /\ \A u \in User : t.wUsers[u] # Nil =>
           \/ t.wUsers[u].team \in t.wTeams
           \/ users[u] # Nil /\ t.wUsers[u].team = users[u].team
  BY <1>1 DEF Enrolled
<1>4. /\ \A u \in User : u \notin t.locks => users'[u] = users[u]
      /\ \A p \in PR : prs[p] # Nil /\ prs[p].status = "MERGED" =>
           /\ prs'[p] = prs[p]
           /\ ReviewersOf(reviewers', p) = ReviewersOf(reviewers, p)
  BY <1>1, PublishLocked
<1>5. \A u \in User : users'[u] # Nil => users'[u].team \in teams'
  BY <1>2, <1>3 DEF TeamInv
<1>6. /\ tx'[c] = next /\ \A d \in Client \ {c} : tx'[d] = tx[d]
  BY <1>1
<1>7. ASSUME NEW d \in Client \ {c}, NEW u \in User, u \in tx[d].locks
      PROVE  users'[u] = users[u]
  BY <1>1, <1>4, <1>7 DEF Inv, LockInv, Exclusive
<1>8. Enrolled(tx'[c], users', teams')
  BY <1>6, IdleEnrolled
<1>9. TeamInv'
  BY <1>2, <1>3, <1>5, <1>6, <1>7, <1>8, EndTeams
<1>10. TablesGrow
  BY <1>2, <1>3, <1>4 DEF TablesGrow
<1> QED
  BY <1>9, <1>10

\* What Finish leaves in tx.
LEMMA FinishIdle ==
  ASSUME LedgerInv, NEW c \in Client, NEW answer, Finish(c, answer)
  PROVE  /\ tx'[c] = Idle /\ \A d \in Client \ {c} : tx'[d] = tx[d]
         /\ resp'[c] = answer
  BY DEF Finish, LedgerInv, Inv, TypeInv, TypeOK

\* What a COMMIT of CreateTeam leaves in tx.
LEMMA ReadingBack ==
  ASSUME NEW c \in Client, NEW next,
         next = [Idle EXCEPT !.pc = "selectTeamIDQuery", !.req = tx[c].req]
  PROVE  /\ next.pc = "selectTeamIDQuery" /\ next.req = tx[c].req
         /\ next.wTeams = {} /\ next.wUsers = Idle.wUsers
BY DEF Idle

\* COMMIT, whether its answer arrives or not.
LEMMA CommitTeams ==
  ASSUME LedgerInv, TeamInv, NEW c \in Client, Commit(c) \/ CommitLost(c)
  PROVE  TeamInv' /\ TablesGrow
<1> DEFINE back == [Idle EXCEPT !.pc = "selectTeamIDQuery", !.req = tx[c].req]
<1>1. Publish(c)
  BY DEF Commit, CommitLost
<1>2. \/ tx' = [tx EXCEPT ![c] = Idle]
      \/ tx' = [tx EXCEPT ![c] = back]
  BY DEF Commit, CommitLost, Finish
<1>3. CASE tx' = [tx EXCEPT ![c] = Idle]
  <2>1. Idle.pc \notin {"upsertUserQuery", "commit"} /\ Idle.wTeams = {}
    BY DEF Idle
  <2> QED BY <1>1, <1>3, <2>1, PublishTeams
<1>4. CASE tx' = [tx EXCEPT ![c] = back]
  <2>1. /\ back.pc \notin {"upsertUserQuery", "commit"} /\ back.wTeams = {}
        /\ back.wUsers = Idle.wUsers
    BY ReadingBack
  <2> HIDE DEF back
  <2> QED BY <1>1, <1>4, <2>1, PublishTeams
<1> QED
  BY <1>2, <1>3, <1>4

\* SetUserActive's UPDATE leaves the user in the team.
LEMMA UpdateUserActiveTeams ==
  ASSUME LedgerInv, TeamInv, NEW c \in Client, UpdateUserActive(c)
  PROVE  TeamInv' /\ TablesGrow
<1> DEFINE u == tx[c].req.user
<1>1. /\ tx[c].pc = "updated" /\ Shape(tx[c], users, prs)
      /\ users \in [User -> UserRow \cup {Nil}]
  BY ClientFacts, DatabaseFields DEF UpdateUserActive, LedgerInv, Inv, TypeInv
<1>2. u \in User /\ users[u] # Nil /\ users[u] \in UserRow
      /\ tx[c].req.active \in BOOLEAN
  BY <1>1, RequestFields DEF Shape
<1>3. /\ users' = [users EXCEPT ![u].active = tx[c].req.active]
      /\ UNCHANGED <<teams, prs, reviewers, history>>
      /\ \E answer : Finish(c, answer)
      /\ ~LockedByOther(c, u)
  BY DEF UpdateUserActive
<1>4. /\ users'[u] # Nil /\ users'[u].team = users[u].team
      /\ \A v \in User : v # u => users'[v] = users[v]
  <2>1. /\ users'[u] = [users[u] EXCEPT !.active = tx[c].req.active]
        /\ \A v \in User : v # u => users'[v] = users[v]
    BY <1>1, <1>2, <1>3
  <2>2. users'[u] \in UserRow /\ users'[u].team = users[u].team
    BY <1>2, <2>1 DEF UserRow
  <2> QED BY <2>1, <2>2, NilAssumption
<1>5. /\ tx'[c] = Idle /\ \A d \in Client \ {c} : tx'[d] = tx[d]
  BY <1>3, FinishIdle
<1>6. Enrolled(tx'[c], users', teams')
  <2>1. Idle.pc \notin {"upsertUserQuery", "commit"} /\ Idle.wTeams = {}
    BY DEF Idle
  <2> QED BY <1>5, <2>1, IdleEnrolled
<1>7. ASSUME NEW d \in Client \ {c}, NEW v \in User, v \in tx[d].locks
      PROVE  users'[v] = users[v]
  <2>1. v # u
    BY <1>3, <1>7 DEF LockedByOther
  <2> QED BY <1>4, <2>1
<1>8. \A v \in User : users'[v] # Nil => users'[v].team \in teams'
  BY <1>2, <1>3, <1>4 DEF TeamInv
<1>9. TeamInv'
  BY <1>3, <1>5, <1>6, <1>7, <1>8, EndTeams
<1>10. TablesGrow
  BY <1>2, <1>3, <1>4 DEF TablesGrow
<1> QED
  BY <1>9, <1>10

\* Reading the team back changes nothing.
LEMMA GetTeamTeams ==
  ASSUME LedgerInv, TeamInv, NEW c \in Client, GetTeam(c)
  PROVE  TeamInv'
<1>1. \E answer : Fail(c, answer)
  BY DEF GetTeam, Fail
<1> QED
  BY <1>1, FailTeams

-------------------------------------------------------------------------------
(* All steps of a transaction.                                             *)

\* A step the use case layer sees nothing of but its answer.
EndOfRequest(c) ==
  Commit(c) \/ CommitLost(c) \/ UpdateUserActive(c) \/ GetTeam(c)

TransactionStep(c) ==
  Statement(c) \/ CommitLost(c) \/ Expire(c) \/ DeadlockAbort(c)

\* A deadline or a deadlock ends the request with an internal error.
LEMMA AbortFails ==
  ASSUME LedgerInv, NEW c \in Client, Expire(c) \/ DeadlockAbort(c)
  PROVE  Failing(c)
<1>1. Fail(c, "internal")
  BY DEF Expire, DeadlockAbort
<1>2. tx[c].pc # "idle"
  <2>1. CASE Expire(c)
    BY <2>1 DEF Expire
  <2>2. CASE DeadlockAbort(c)
    <3>1. Wanted(c) # {}
      BY <2>2 DEF DeadlockAbort, InCycle, WaitsFor
    <3> QED BY <3>1 DEF Wanted
  <2> QED BY <2>1, <2>2
<1> QED
  BY <1>1, <1>2 DEF Failing, Answer

\* Every step of a transaction is one of these, and keeps TeamInv.
LEMMA StepKinds ==
  ASSUME LedgerInv, TeamInv, NEW c \in Client, TransactionStep(c)
  PROVE  /\ Working(c) \/ Failing(c) \/ EndOfRequest(c)
         /\ TeamInv' /\ TablesGrow
<1>1. ASSUME Working(c) PROVE TablesGrow
  BY <1>1, SameTablesGrow DEF Working
<1>2. ASSUME Failing(c) PROVE TeamInv' /\ TablesGrow
  BY <1>2, FailTeams, SameTablesGrow DEF Failing, Fail
<1>3. ASSUME Quiet(c) PROVE Working(c) /\ TeamInv'
  BY <1>3, QuietTeams DEF Quiet
<1>4. CASE \/ SelectAuthor(c) \/ InsertPR(c) \/ SelectCandidates(c)
           \/ SelectPRForMerge(c) \/ SelectPRForReassign(c)
           \/ SelectReviewerTeam(c) \/ SelectReplacement(c)
  BY <1>1, <1>2, <1>3, <1>4, PRStatement
<1>5. CASE \/ StartSetUserActive(c) \/ SelectTeamForDeactivate(c)
           \/ SelectImpactedPRs(c) \/ LockImpacted(c)
           \/ BeginPR(c) \/ ReplaceReviewer(c)
  BY <1>1, <1>2, <1>3, <1>5, BulkStatement
<1>6. CASE InsertTeam(c) \/ UpsertUser(c) \/ DeactivateUser(c)
  BY <1>1, <1>2, <1>6, InsertTeamEnrols, UpsertUserEnrols, DeactivateUserStays
<1>7. CASE Commit(c) \/ CommitLost(c)
  BY <1>7, CommitTeams DEF EndOfRequest
<1>8. CASE UpdateUserActive(c)
  BY <1>8, UpdateUserActiveTeams DEF EndOfRequest
<1>9. CASE GetTeam(c)
  BY <1>9, GetTeamTeams, SameTablesGrow DEF EndOfRequest, GetTeam
<1>10. CASE Expire(c) \/ DeadlockAbort(c)
  BY <1>2, <1>10, AbortFails
<1> QED
  BY <1>4, <1>5, <1>6, <1>7, <1>8, <1>9, <1>10 DEF TransactionStep, Statement

\* And keeps LedgerInv, as a step of ReviewTx.
LEMMA StepKeepsLedger ==
  ASSUME LedgerInv, NEW c \in Client, TransactionStep(c)
  PROVE  LedgerInv'
<1>1. [Next]_vars
  BY DEF TransactionStep, Next
<1> QED
  BY <1>1, TypeInvNext, LockInvNext, DraftInvNext DEF LedgerInv, Inv

\* So does the BEGIN of any request.
LEMMA BeginKeeps ==
  ASSUME LedgerInv, TeamInv, NEW c \in Client, NEW r \in AnyRequest, Begin(c, r)
  PROVE  /\ LedgerInv' /\ TeamInv' /\ UNCHANGED tables
         /\ tx[c].pc = "idle"
         /\ tx'[c].pc \notin {"idle", "selectTeamIDQuery"} /\ tx'[c].req = r
         /\ \A d \in Client \ {c} : tx'[d] = tx[d]
<1> DEFINE label == FirstStatement[r.op]
           next == [Idle EXCEPT !.pc = label, !.req = r]
<1>1. tx[c].pc = "idle" /\ UNCHANGED tables
      /\ tx' = [tx EXCEPT ![c].pc = label, ![c].req = r]
  BY DEF Begin
<1>2. tx \in [Client -> Transaction] /\ tx[c] = Idle /\ Inv
  BY <1>1, ClientFacts DEF Shape, LedgerInv, Inv, TypeInv, TypeOK
<1>3. tx'[c] = next /\ \A d \in Client \ {c} : tx'[d] = tx[d]
  BY <1>1, <1>2
<1>4. label \notin {"idle", "selectTeamIDQuery", "upsertUserQuery", "commit"}
  BY RequestFields DEF FirstStatement
<1> HIDE DEF label
<1>5. /\ next.pc = label /\ next.req = r
      /\ next.wTeams = {} /\ next.wUsers = Idle.wUsers
  BY DEF Idle
<1> HIDE DEF next
<1>6. Enrolled(tx'[c], users, teams)
  BY <1>3, <1>4, <1>5, IdleEnrolled
<1>7. TeamInv'
  BY <1>1, <1>3, <1>6, WorkTeams DEF tables
<1>8. LedgerInv'
  BY <1>2, BeginTypes, BeginLocks, BeginDrafts DEF LedgerInv, Inv
<1> QED
  BY <1>1, <1>3, <1>4, <1>5, <1>7, <1>8

-------------------------------------------------------------------------------
(* What the handlers ask of the repository.                                *)

\* The operation a handler calls.
Operation ==
  [PostPullRequestCreate   |-> "CreatePR",
   PostPullRequestMerge    |-> "MergePR",
   PostPullRequestReassign |-> "ReassignReviewer",
   PostUsersSetIsActive    |-> "SetUserActive",
   PostTeamAdd             |-> "CreateTeam",
   PostTeamDeactivate      |-> "DeactivateTeam"]

\* The members of a body become members of the request, one by one.
LEMMA MembersTaken ==
  ASSUME NEW members \in Seq([user_id : User, is_active : BOOLEAN])
  PROVE  /\ FromOAPITeam(members) \in Seq(Member)
         /\ DOMAIN FromOAPITeam(members) = DOMAIN members
         /\ \A i \in DOMAIN members :
              FromOAPITeam(members)[i].id = members[i].user_id
<1> DEFINE f == FromOAPITeam(members)
<1>1. /\ Len(members) \in Nat /\ DOMAIN members = 1..Len(members)
      /\ \A i \in 1..Len(members) :
           members[i] \in [user_id : User, is_active : BOOLEAN]
  BY LenProperties, ElementOfSeq
<1>2. /\ f = [i \in DOMAIN members |-> [id |-> members[i].user_id,
                                        active |-> members[i].is_active]]
      /\ DOMAIN f = 1..Len(members)
  BY <1>1 DEF FromOAPITeam
<1>3. f \in [1..Len(members) -> Member]
  BY <1>1, <1>2 DEF Member
<1>4. f \in Seq(Member)
  BY <1>1, <1>3, SeqDef
<1> QED
  BY <1>1, <1>2, <1>4

\* A POST asks for a well-typed request of its operation, unless it is
\* refused at once.
LEMMA ValidCall ==
  ASSUME NEW call \in Calls, Valid(call)
  PROVE  /\ call.op \in DOMAIN Operation
         /\ Asked(call) \in AnyRequest
         /\ Asked(call).op = Operation[call.op]
         /\ call.op = "PostPullRequestMerge" =>
              Asked(call).pr = call.body.pull_request_id
         /\ call.op = "PostTeamAdd" =>
              Sent(Asked(call)) = {call.body.members[i].user_id :
                                     i \in DOMAIN call.body.members}
<1> DEFINE b == call.body
<1>1. /\ call.op \in DOMAIN Operation
      /\ call.body # Malformed /\ call.body \in Body[call.op]
  BY CallsAssumption DEF Valid, Asked, Body, Operation
<1>2. Asked(call) # Nil
  BY DEF Valid
<1>3. CASE call.op = "PostPullRequestCreate"
  <2>1. Asked(call) = CreatePullRequest(b.pull_request_id, b.pull_request_name,
                                        b.author_id)
    BY <1>1, <1>3 DEF Asked, PostPullRequestCreate
  <2>2. b.pull_request_id \in PrField /\ b.author_id \in UserField
    BY <1>1, <1>3 DEF Body
  <2>3. /\ Asked(call) = [op |-> "CreatePR", pr |-> b.pull_request_id,
                          user |-> b.author_id]
        /\ b.pull_request_id \in PR /\ b.author_id \in User
    BY <1>2, <2>1, <2>2 DEF CreatePullRequest, PrField, UserField
  <2> QED BY <1>1, <1>3, <2>3 DEF AnyRequest, Operation
<1>4. CASE call.op = "PostPullRequestMerge"
  <2>1. Asked(call) = MergePullRequest(b.pull_request_id)
    BY <1>1, <1>4 DEF Asked, PostPullRequestMerge
  <2>2. b.pull_request_id \in PrField
    BY <1>1, <1>4 DEF Body
  <2>3. /\ Asked(call) = [op |-> "MergePR", pr |-> b.pull_request_id]
        /\ b.pull_request_id \in PR
    BY <1>2, <2>1, <2>2 DEF MergePullRequest, PrField
  <2> QED BY <1>1, <1>4, <2>3 DEF AnyRequest, Operation
<1>5. CASE call.op = "PostPullRequestReassign"
  <2>1. Asked(call) = ReassignPullRequest(b.pull_request_id, b.old_user_id)
    BY <1>1, <1>5 DEF Asked, PostPullRequestReassign
  <2>2. b.pull_request_id \in PrField /\ b.old_user_id \in UserField
    BY <1>1, <1>5 DEF Body
  <2>3. /\ Asked(call) = [op |-> "ReassignReviewer", pr |-> b.pull_request_id,
                          user |-> b.old_user_id]
        /\ b.pull_request_id \in PR /\ b.old_user_id \in User
    BY <1>2, <2>1, <2>2 DEF ReassignPullRequest, PrField, UserField
  <2> QED BY <1>1, <1>5, <2>3 DEF AnyRequest, Operation
<1>6. CASE call.op = "PostUsersSetIsActive"
  <2>1. Asked(call) = SetActiveUser(b.user_id, b.is_active)
    BY <1>1, <1>6 DEF Asked, PostUsersSetIsActive
  <2>2. b.user_id \in UserField /\ b.is_active \in BOOLEAN
    BY <1>1, <1>6 DEF Body
  <2>3. /\ Asked(call) = [op |-> "SetUserActive", user |-> b.user_id,
                          active |-> b.is_active]
        /\ b.user_id \in User
    BY <1>2, <2>1, <2>2 DEF SetActiveUser, UserField
  <2> QED BY <1>1, <1>6, <2>2, <2>3 DEF AnyRequest, Operation
<1>7. CASE call.op = "PostTeamAdd"
  <2> DEFINE ms == FromOAPITeam(b.members)
  <2>1. Asked(call) = CreateTeam(b.team_name, ms)
    BY <1>1, <1>7 DEF Asked, PostTeamAdd
  <2>2. /\ b.team_name \in TeamField
        /\ b.members \in Seq([user_id : User, is_active : BOOLEAN])
    BY <1>1, <1>7 DEF Body
  <2>3. /\ ms \in Seq(Member) /\ DOMAIN ms = DOMAIN b.members
        /\ \A i \in DOMAIN b.members : ms[i].id = b.members[i].user_id
    BY <2>2, MembersTaken
  <2> HIDE DEF ms
  <2>4. /\ Asked(call) = [op |-> "CreateTeam", team |-> b.team_name,
                          members |-> ms]
        /\ b.team_name \in Team
    BY <1>2, <2>1, <2>2 DEF CreateTeam, TeamField
  <2>5. Asked(call).op = "CreateTeam" /\ Asked(call).members = ms
        /\ Asked(call) \in AnyRequest
    BY <2>3, <2>4 DEF AnyRequest
  <2>6. Sent(Asked(call)) = {b.members[i].user_id : i \in DOMAIN b.members}
    BY <2>3, <2>5 DEF Sent
  <2> QED BY <1>1, <1>7, <2>5, <2>6 DEF Operation
<1>8. CASE call.op = "PostTeamDeactivate"
  <2> DEFINE name == Trim[b.team_name]
  <2>1. Asked(call) = DeactivateTeam(name)
    BY <1>1, <1>8 DEF Asked, PostTeamDeactivate
  <2>2. name \in TeamField
    <3>1. b.team_name \in TeamField
      BY <1>1, <1>8 DEF Body
    <3> QED BY <3>1, TrimAssumption
  <2>3. Asked(call) = [op |-> "DeactivateTeam", team |-> name] /\ name \in Team
    BY <1>2, <2>1, <2>2 DEF DeactivateTeam, TeamField
  <2> QED BY <1>1, <1>8, <2>3 DEF AnyRequest, Operation
<1> QED
  BY <1>1, <1>3, <1>4, <1>5, <1>6, <1>7, <1>8 DEF Operation

-------------------------------------------------------------------------------
(* What is said of a call stays true while the tables grow.                *)

\* A client that has been answered, or waits, has made a call.
LEMMA CallMade ==
  ASSUME NEW h \in Exchange, NEW t, Spoken(h, t),
         h.times > 0 \/ h.status # Nil \/ t.pc # "idle"
  PROVE  h.call \in Calls
<1>1. h.call = Nil => h.times = 0 /\ h.status = Nil /\ t.pc = "idle"
  BY DEF Spoken, NoCall
<1>2. h.call \in Calls \cup {Nil} /\ h.times \in 0..MaxTries
  BY DEF Exchange
<1> QED
  BY <1>1, <1>2

\* What a call has left in the tables stays there.
LEMMA AppliedStable ==
  ASSUME NEW h \in Exchange, NEW t, Spoken(h, t), TablesGrow,
         Applied(h, teams, prs)
  PROVE  Applied(h, teams', prs')
<1> SUFFICES ASSUME h.times > 0
             PROVE  Applied(h, teams', prs')
  BY DEF Applied
<1>1. h.call \in Calls /\ Valid(h.call)
  BY CallMade DEF Spoken
<1>2. /\ Asked(h.call) \in AnyRequest
      /\ Asked(h.call).op = Operation[h.call.op]
  BY <1>1, ValidCall
<1>3. h.call.op \in {"PostPullRequestCreate", "PostPullRequestMerge"} =>
        Asked(h.call).pr \in PR
  BY <1>2, RequestFields DEF Operation
<1> QED
  BY <1>3 DEF Applied, TablesGrow

\* A merged PR stays as it was shown.
LEMMA FinalStable ==
  ASSUME NEW h \in Exchange, NEW t, Spoken(h, t), TablesGrow,
         Final(h, prs, reviewers)
  PROVE  Final(h, prs', reviewers')
<1> SUFFICES ASSUME h.status = 200, h.call.op = "PostPullRequestMerge"
             PROVE  Final(h, prs', reviewers')
  BY DEF Final
<1>1. h.call \in Calls /\ Valid(h.call)
  BY CallMade, NoAnswerAssumption DEF Final
<1>2. Asked(h.call) \in AnyRequest /\ Asked(h.call).op = "MergePR"
  BY <1>1, ValidCall DEF Operation
<1>3. Asked(h.call).pr \in PR
  BY <1>2, RequestFields
<1> QED
  BY <1>3 DEF Final, TablesGrow

\* Members who were taken over are not in one of the known teams again.
LEMMA TookOverStable ==
  ASSUME NEW r, NEW u \in User, NEW known, known \subseteq teams, TablesGrow,
         TookOver(r, u, known, users)
  PROVE  TookOver(r, u, known, users')
BY DEF TookOver, TablesGrow

\* So a team stays explained.
LEMMA StaffedStable ==
  ASSUME NEW h \in Exchange, NEW t, Spoken(h, t), TablesGrow,
         Shape(t, users, prs), Staffed(h, t, users, teams)
  PROVE  Staffed(h, t, users', teams')
<1>1. h.known \subseteq teams /\ h.known \subseteq teams'
  BY DEF Staffed, TablesGrow
<1>2. CASE t.pc = "selectTeamIDQuery"
  <2>1. t.req \in AnyRequest /\ t.req.op = "CreateTeam"
    BY <1>2 DEF Shape
  <2>2. Sent(t.req) \subseteq User
    BY <2>1, SentUsers
  <2>3. /\ h.times = 1 /\ t.req.team \in h.known
        /\ \A u \in Sent(t.req) : TookOver(t.req, u, h.known, users)
        /\ \A u \in User : users[u] # Nil /\ users[u].team = t.req.team =>
                             u \in Sent(t.req)
    BY <1>2 DEF Staffed
  <2>4. \A u \in Sent(t.req) : TookOver(t.req, u, h.known, users')
    BY <1>1, <2>2, <2>3, TookOverStable
  <2>5. \A u \in User : users'[u] # Nil /\ users'[u].team = t.req.team =>
                          u \in Sent(t.req)
    BY <1>1, <2>3 DEF TablesGrow
  <2>6. h.status = Nil /\ Nil # 201
    BY <1>2, CallMade, NoAnswerAssumption DEF Spoken
  <2> QED BY <1>1, <2>3, <2>4, <2>5, <2>6 DEF Staffed
<1>3. CASE h.status = 201 /\ h.call.op = "PostTeamAdd"
  <2>1. h.call \in Calls /\ Valid(h.call)
    BY <1>3, CallMade, NoAnswerAssumption DEF Spoken
  <2>2. Asked(h.call) \in AnyRequest /\ Asked(h.call).op = "CreateTeam"
    BY <1>3, <2>1, ValidCall DEF Operation
  <2>3. Sent(Asked(h.call)) \subseteq User
    BY <2>2, SentUsers
  <2>4. /\ h.shown \subseteq Sent(Asked(h.call))
        /\ \A u \in Sent(Asked(h.call)) \ h.shown :
             users[u] # Nil /\ users[u].team \notin h.known
    BY <1>3 DEF Staffed
  <2>5. \A u \in Sent(Asked(h.call)) \ h.shown :
          users'[u] # Nil /\ users'[u].team \notin h.known
    BY <1>1, <2>3, <2>4 DEF TablesGrow
  <2>6. t.pc = "idle"
    BY <1>3, <2>1, NoAnswerAssumption DEF Spoken
  <2> QED BY <1>1, <2>4, <2>5, <2>6 DEF Staffed
<1> QED
  BY <1>1, <1>2, <1>3 DEF Staffed

\* All of it, for a client that does nothing.
LEMMA TalkStable ==
  ASSUME LedgerInv, TablesGrow, NEW d \in Client, http[d] \in Exchange,
         Talk(http[d], tx[d], teams, users, prs, reviewers)
  PROVE  Talk(http[d], tx[d], teams', users', prs', reviewers')
<1>1. Shape(tx[d], users, prs)
  BY ClientFacts
<1> QED
  BY <1>1, AppliedStable, FinalStable, StaffedStable DEF Talk

\* A step of c keeps what is said of the others.
LEMMA OthersTalk ==
  ASSUME LedgerInv, TablesGrow, TalkInv, http \in [Client -> Exchange],
         NEW c \in Client, NEW h \in Exchange,
         http' = [http EXCEPT ![c] = h],
         \A d \in Client \ {c} : tx'[d] = tx[d],
         Talk(h, tx'[c], teams', users', prs', reviewers')
  PROVE  TalkInv' /\ http' \in [Client -> Exchange]
<1>1. ASSUME NEW d \in Client
      PROVE  Talk(http'[d], tx'[d], teams', users', prs', reviewers')
  <2>1. CASE d = c
    BY <2>1
  <2>2. CASE d # c
    <3>1. http'[d] = http[d] /\ tx'[d] = tx[d] /\ http[d] \in Exchange
      BY <2>2
    <3>2. Talk(http[d], tx[d], teams, users, prs, reviewers)
      BY DEF TalkInv
    <3> QED BY <3>1, <3>2, TalkStable
  <2> QED BY <2>1, <2>2
<1> QED
  BY <1>1 DEF TalkInv

-------------------------------------------------------------------------------
(* Attempts that are answered at once, and attempts that begin.            *)

\* The record of a first attempt.
LEMMA FirstAttempt ==
  ASSUME NEW call \in Calls, NEW status \in {Nil, 200, 400, 404, 500},
         NEW shown \in (SUBSET User) \cup {Nil}, NEW h,
         h = [call |-> call, tries |-> 1, times |-> 0, status |-> status,
              shown |-> shown, known |-> {}]
  PROVE  /\ h \in Exchange /\ h.call = call /\ call # Nil
         /\ h.tries = 1 /\ h.times = 0
         /\ h.status = status /\ h.known = {}
<1>1. /\ h.call = call /\ h.tries = 1 /\ h.times = 0
      /\ h.status = status /\ h.known = {}
  OBVIOUS
<1>2. 1 \in 0..MaxTries /\ 0 \in 0..MaxTries
  BY MaxTriesAssumption
<1>3. h \in Exchange
  BY <1>2 DEF Exchange
<1>4. call # Nil
  BY NoAnswerAssumption
<1> QED
  BY <1>1, <1>3, <1>4

\* An attempt that only counts in issued keeps what is underneath.
LEMMA ReplyKeeps ==
  ASSUME LedgerInv, TeamInv, UNCHANGED <<tables, tx, resp>>,
         issued < MaxRequests, issued' = issued + 1
  PROVE  LedgerInv' /\ TeamInv'
<1>1. /\ teams' = teams /\ users' = users /\ prs' = prs
      /\ reviewers' = reviewers /\ history' = history /\ tx' = tx /\ resp' = resp
  BY DEF tables
<1>2. issued' \in 0..MaxRequests
  BY MaxRequestsAssumption DEF LedgerInv, Inv, TypeInv, TypeOK
<1>3. TypeOK'
  BY <1>1, <1>2 DEF LedgerInv, Inv, TypeInv, TypeOK
<1>4. TypeInv' /\ LockInv'
  BY <1>1, <1>3 DEF LedgerInv, Inv, TypeInv, LockInv, Exclusive
<1>5. Records' = Records
  BY <1>1 DEF Records
<1>6. DraftInv'
  BY <1>1, <1>5 DEF LedgerInv, DraftInv, NoOrphans, AtMostTwoNeverAuthor
<1>7. TeamInv'
  BY <1>1 DEF TeamInv
<1> QED
  BY <1>4, <1>6, <1>7 DEF LedgerInv, Inv

\* An attempt that is answered without a transaction.
LEMMA ReplyTalks ==
  ASSUME ApiInv, NEW c \in Client, NEW call \in Calls,
         NEW status \in {200, 400, 404, 500},
         NEW shown \in (SUBSET User) \cup {Nil},
         status # 400 => call.op = "GetTeamGet",
         Reply(c, call, status, shown)
  PROVE  ApiInv'
<1>0. PICK h : /\ h = [NoCall EXCEPT !.call = call, !.tries = 1,
                                      !.status = status, !.shown = shown]
               /\ http' = [http EXCEPT ![c] = h]
  BY DEF Reply
<1>1. /\ tx[c].pc = "idle" /\ issued < MaxRequests /\ issued' = issued + 1
      /\ UNCHANGED <<tables, tx, resp>>
  BY DEF Reply
<1>2. /\ h \in Exchange /\ h.call = call /\ call # Nil
      /\ h.tries = 1 /\ h.times = 0 /\ h.status = status /\ h.known = {}
  <2>1. h = [call |-> call, tries |-> 1, times |-> 0, status |-> status,
             shown |-> shown, known |-> {}]
    BY <1>0 DEF NoCall
  <2> QED BY <2>1, FirstAttempt
<1>3. LedgerInv' /\ TeamInv' /\ TablesGrow /\ tx' = tx
  BY <1>1, ReplyKeeps, SameTablesGrow DEF ApiInv
<1>4. Nil \notin Nat
  BY NoAnswerAssumption
<1>5. Spoken(h, tx'[c])
  BY <1>1, <1>2, <1>3, <1>4 DEF Spoken, Pending
<1>6. /\ Applied(h, teams', prs') /\ Final(h, prs', reviewers')
      /\ Staffed(h, tx'[c], users', teams')
  BY <1>1, <1>2, <1>3 DEF Applied, Final, Staffed
<1>7. Talk(h, tx'[c], teams', users', prs', reviewers')
  BY <1>5, <1>6 DEF Talk
<1>8. TalkInv' /\ http' \in [Client -> Exchange]
  <2>1. LedgerInv /\ TalkInv /\ http \in [Client -> Exchange]
    BY DEF ApiInv
  <2>2. \A d \in Client \ {c} : tx'[d] = tx[d]
    BY <1>3
  <2> QED BY <1>0, <1>2, <1>3, <1>7, <2>1, <2>2, OthersTalk
<1> QED
  BY <1>3, <1>8 DEF ApiInv

\* An attempt that begins, the first one or a repeated one.
LEMMA AttemptTalks ==
  ASSUME ApiInv, NEW c \in Client, NEW h \in Exchange,
         Valid(h.call), h.call \in Calls, h.status = Nil,
         h.times + 1 <= h.tries, h.known \subseteq teams,
         Applied(h, teams, prs),
         Begin(c, Asked(h.call)), http' = [http EXCEPT ![c] = h]
  PROVE  ApiInv'
<1>1. Asked(h.call) \in AnyRequest
  BY ValidCall
<1>2. /\ LedgerInv' /\ TeamInv' /\ UNCHANGED tables
      /\ tx'[c].pc \notin {"idle", "selectTeamIDQuery"}
      /\ tx'[c].req = Asked(h.call)
      /\ \A d \in Client \ {c} : tx'[d] = tx[d]
  BY <1>1, BeginKeeps DEF ApiInv
<1>3. TablesGrow /\ teams' = teams /\ prs' = prs
  BY <1>2, SameTablesGrow DEF tables
<1>4. Nil \notin Nat /\ h.call # Nil
  BY NoAnswerAssumption
<1>5. Spoken(h, tx'[c])
  BY <1>2, <1>4 DEF Spoken, Pending
<1>6. /\ Applied(h, teams', prs') /\ Final(h, prs', reviewers')
      /\ Staffed(h, tx'[c], users', teams')
  BY <1>2, <1>3, <1>4 DEF Final, Staffed
<1>7. Talk(h, tx'[c], teams', users', prs', reviewers')
  BY <1>5, <1>6 DEF Talk
<1>8. TalkInv' /\ http' \in [Client -> Exchange]
  BY <1>2, <1>3, <1>7, OthersTalk DEF ApiInv
<1> QED
  BY <1>2, <1>8 DEF ApiInv

\* A POST.
LEMMA PostTalks ==
  ASSUME ApiInv, NEW c \in Client, Post(c)
  PROVE  ApiInv'
<1>1. PICK call \in Calls :
        /\ call.op # "GetTeamGet"
        /\ \/ Asked(call) = Nil /\ Reply(c, call, 400, Nil)
           \/ /\ Asked(call) # Nil
              /\ Begin(c, Asked(call))
              /\ http' = [http EXCEPT ![c] =
                   [NoCall EXCEPT !.call = call, !.tries = 1]]
  BY DEF Post
<1>2. CASE Reply(c, call, 400, Nil)
  <2>1. 400 \in {200, 400, 404, 500} /\ Nil \in (SUBSET User) \cup {Nil}
    OBVIOUS
  <2> QED BY <1>2, <2>1, ReplyTalks
<1>3. CASE /\ Asked(call) # Nil
           /\ Begin(c, Asked(call))
           /\ http' = [http EXCEPT ![c] =
                [NoCall EXCEPT !.call = call, !.tries = 1]]
  <2>1. PICK h : /\ h = [NoCall EXCEPT !.call = call, !.tries = 1]
                 /\ http' = [http EXCEPT ![c] = h]
    BY <1>3
  <2>2. /\ h \in Exchange /\ h.call = call
        /\ h.tries = 1 /\ h.times = 0 /\ h.status = Nil /\ h.known = {}
    <3>1. Nil \in {Nil, 200, 400, 404, 500} /\ Nil \in (SUBSET User) \cup {Nil}
      OBVIOUS
    <3>2. h = [call |-> call, tries |-> 1, times |-> 0, status |-> Nil,
               shown |-> Nil, known |-> {}]
      BY <2>1 DEF NoCall
    <3> QED BY <3>1, <3>2, FirstAttempt
  <2>3. Valid(h.call) /\ Applied(h, teams, prs)
    BY <1>1, <1>3, <2>2 DEF Valid, Applied
  <2>4. h.times + 1 <= h.tries /\ h.known \subseteq teams
    BY <2>2
  <2> QED BY <1>3, <2>1, <2>2, <2>3, <2>4, AttemptTalks
<1> QED
  BY <1>1, <1>2, <1>3

\* A GET of a team, answered without a transaction.
LEMMA GetTeamGetTalks ==
  ASSUME ApiInv, NEW c \in Client, GetTeamGet(c)
  PROVE  ApiInv'
<1>1. PICK call \in Calls :
        /\ call.op = "GetTeamGet"
        /\ \/ Reply(c, call, 500, Nil)
           \/ Reply(c, call, WriteError("ErrTeamNotFound"), Nil)
           \/ Reply(c, call, 200, MembersOf(call.body.team_name))
  BY DEF GetTeamGet
<1>2. WriteError("ErrTeamNotFound") = 404
  BY DEF WriteError
<1>3. MembersOf(call.body.team_name) \in SUBSET User
  BY DEF MembersOf
<1>4. /\ {200, 404, 500} \subseteq {200, 400, 404, 500}
      /\ Nil \in (SUBSET User) \cup {Nil}
  OBVIOUS
<1>5. ASSUME NEW status \in {200, 404, 500}, NEW shown \in (SUBSET User) \cup {Nil},
             Reply(c, call, status, shown)
      PROVE  ApiInv'
  BY <1>1, <1>4, <1>5, ReplyTalks
<1> QED
  BY <1>1, <1>2, <1>3, <1>4, <1>5

\* A POST that is repeated.
LEMMA RetryTalks ==
  ASSUME ApiInv, NEW c \in Client, Retry(c)
  PROVE  ApiInv'
<1> DEFINE old == http[c]
<1>1. /\ old.status = 500 /\ old.call.op # "GetTeamGet" /\ old.tries < MaxTries
      /\ Begin(c, Asked(old.call))
      /\ http' = [http EXCEPT ![c] =
           [http[c] EXCEPT !.status = Nil, !.tries = @ + 1]]
  BY DEF Retry
<1>2. /\ http \in [Client -> Exchange] /\ old \in Exchange
      /\ Talk(old, tx[c], teams, users, prs, reviewers)
  BY DEF ApiInv, TalkInv
<1>3. PICK h : /\ h = [old EXCEPT !.status = Nil, !.tries = @ + 1]
               /\ http' = [http EXCEPT ![c] = h]
  <2> DEFINE x == [old EXCEPT !.status = Nil, !.tries = @ + 1]
  <2>1. http' = [http EXCEPT ![c] = x]
    BY <1>1, <1>2
  <2> HIDE DEF x
  <2> QED BY <2>1 DEF x
<1>4. /\ old.tries \in Nat /\ old.tries + 1 \in 0..MaxTries
      /\ old.times \in 0..MaxTries
  BY <1>1, <1>2, MaxTriesAssumption DEF Exchange
<1>5. /\ h \in Exchange /\ h.call = old.call /\ h.status = Nil
      /\ h.tries = old.tries + 1 /\ h.times = old.times /\ h.known = old.known
  <2>1. h = [call |-> old.call, tries |-> old.tries + 1, times |-> old.times,
             status |-> Nil, shown |-> old.shown, known |-> old.known]
    BY <1>2, <1>3 DEF Exchange
  <2>2. h \in Exchange
    BY <1>2, <1>4, <2>1 DEF Exchange
  <2> QED BY <2>1, <2>2
<1>6. Nil # 500
  BY NoAnswerAssumption
<1>7. old.call \in Calls /\ Valid(old.call)
  BY <1>1, <1>2, <1>6, CallMade DEF Talk, Spoken
<1>8. tx[c].pc = "idle"
  BY <1>1 DEF Begin
<1>9. h.times + 1 <= h.tries
  BY <1>2, <1>4, <1>5, <1>8 DEF Talk, Spoken, Pending
<1>10. h.known \subseteq teams /\ Applied(h, teams, prs)
  BY <1>2, <1>5 DEF Talk, Staffed, Applied
<1> QED
  BY <1>1, <1>3, <1>5, <1>7, <1>9, <1>10, AttemptTalks

-------------------------------------------------------------------------------
(* What COMMIT does to the tables, operation by operation.                 *)

\* Only CreateTeam commits a team.
LEMMA CommitKeepsTeams ==
  ASSUME LedgerInv, TeamInv, NEW c \in Client, Publish(c),
         tx[c].req.op # "CreateTeam"
  PROVE  teams' = teams
<1>1. tx[c].wTeams = {}
  BY DEF TeamInv, Enrolled, Enrolling
<1> QED
  BY <1>1 DEF Publish

\* CreatePR commits a PR that was not there.
LEMMA CommitCreatesPR ==
  ASSUME LedgerInv, NEW c \in Client, Publish(c),
         tx[c].pc = "commit", tx[c].req.op = "CreatePR"
  PROVE  /\ prs[tx[c].req.pr] = Nil /\ prs'[tx[c].req.pr] # Nil
         /\ tables' # tables
<1> DEFINE t == tx[c]
           p == t.req.pr
<1>1. /\ Careful(t, prs) /\ Drafted(t, Records) /\ t.req \in AnyRequest /\ TypeInv
  BY ClientFacts DEF Shape, LedgerInv, Inv
<1>2. p \in PR
  BY <1>1, RequestFields
<1>3. Records[p] = Nil /\ p \in t.locks
  BY <1>1 DEF Drafted, Created
<1>4. prs[p] = Nil
  BY <1>1, <1>2, <1>3, RecordsOfTables
<1>5. t.wPrs[p] # Nil
  BY <1>1, <1>2, <1>3, <1>4 DEF Careful
<1>6. prs'[p] # Nil
  BY <1>2, <1>5 DEF Publish, PrsSeenBy
<1> QED
  BY <1>4, <1>6 DEF tables

\* A transaction of MergePR that wrote nothing commits nothing.
LEMMA CommitOfNothing ==
  ASSUME LedgerInv, TeamInv, NEW c \in Client, Publish(c),
         tx[c].req.op \notin {"CreateTeam", "DeactivateTeam"},
         \A p \in PR : ~Touches(tx[c], p)
  PROVE  tables' = tables
<1> DEFINE t == tx[c]
<1>1. /\ t \in Transaction /\ Enrolled(t, users, teams)
      /\ users \in [User -> UserRow \cup {Nil}]
      /\ prs \in [PR -> PrRow \cup {Nil}]
      /\ reviewers \in SUBSET (PR \X User)
      /\ history \in [PR -> Seq(Event)]
  BY ClientFacts, DatabaseFields DEF TeamInv, LedgerInv, Inv, TypeInv
<1>2. /\ teams' = teams \cup t.wTeams
      /\ users' = UsersSeenBy(c) /\ prs' = PrsSeenBy(c)
      /\ reviewers' = (reviewers \ t.wDel) \cup t.wAdd
      /\ history' = [p \in PR |-> history[p] \o t.wLog[p]]
  BY DEF Publish, ReviewersSeenBy
<1>3. t.wTeams = {} /\ \A u \in User : t.wUsers[u] = Nil
  BY <1>1 DEF Enrolled, Enrolling
<1>4. teams' = teams
  BY <1>2, <1>3
<1>5. users' = users
  BY <1>1, <1>2, <1>3 DEF UsersSeenBy
<1>6. prs' = prs
  <2>1. \A p \in PR : t.wPrs[p] = Nil
    BY DEF Touches
  <2> QED BY <1>1, <1>2, <2>1 DEF PrsSeenBy
<1>7. reviewers' = reviewers
  <2>1. t.wAdd \in SUBSET (PR \X User) /\ t.wDel \in SUBSET (PR \X User)
    BY <1>1 DEF Transaction
  <2>2. \A p \in PR, u \in User : <<p, u>> \notin t.wAdd \cup t.wDel
    BY DEF Touches
  <2>3. t.wAdd = {} /\ t.wDel = {}
    BY <2>1, <2>2
  <2> QED BY <1>2, <2>3
<1>8. history' = history
  <2>1. ASSUME NEW p \in PR PROVE history[p] \o t.wLog[p] = history[p]
    <3>1. t.wLog[p] = <<>>
      BY DEF Touches
    <3>2. history[p] \in Seq(Event)
      BY <1>1
    <3> QED BY <3>1, <3>2, ConcatEmptySeq
  <2> QED BY <1>1, <1>2, <2>1
<1> QED
  BY <1>4, <1>5, <1>6, <1>7, <1>8 DEF tables

\* MergePR commits a merged PR with the reviewers it read, and changes a
\* table only if the PR was not merged before.
LEMMA CommitMerges ==
  ASSUME LedgerInv, TeamInv, NEW c \in Client, Publish(c),
         tx[c].pc = "commit", tx[c].req.op = "MergePR"
  PROVE  /\ prs'[tx[c].req.pr] # Nil /\ prs'[tx[c].req.pr].status = "MERGED"
         /\ tx[c].seen = ReviewersOf(reviewers', tx[c].req.pr)
         /\ tables' # tables =>
              prs[tx[c].req.pr] # Nil /\ prs[tx[c].req.pr].status # "MERGED"
<1> DEFINE t == tx[c]
           p == t.req.pr
<1>1. /\ Careful(t, prs) /\ Drafted(t, Records) /\ t.req \in AnyRequest
      /\ TypeInv /\ Inv /\ NoOrphans
  BY ClientFacts DEF Shape, LedgerInv, Inv, DraftInv
<1>2. p \in PR
  BY <1>1, RequestFields
<1>3. /\ Records[p] # Nil /\ TouchesOnly(t, p)
      /\ IF Touches(t, p)
         THEN Draft(t, Records[p], p) = [Records[p] EXCEPT !.status = "MERGED"]
         ELSE Records[p].status = "MERGED"
  BY <1>1 DEF Drafted, Merged
<1>4. /\ prs[p] # Nil /\ Records[p] \in Ledger!Record
      /\ Records[p].status = prs[p].status
  BY <1>1, <1>2, <1>3, RecordsOfTables
<1>5. prs'[p] # Nil
  <2>1. TablesStep
    BY <1>1, PublishTables
  <2> QED BY <1>2, <1>4, <2>1 DEF TablesStep
<1>6. Records'[p].status = prs'[p].status
  BY <1>2, <1>5, RecordFields DEF Records
<1>7. t.seen = ReviewersOf(reviewers', p)
  <2>1. t.seen = ReviewersOf(ReviewersSeenBy(c), p)
    BY SeenIsCurrent
  <2>2. reviewers' = ReviewersSeenBy(c)
    BY DEF Publish
  <2> QED BY <2>1, <2>2
<1>8. CASE Touches(t, p)
  <2>1. prs[p].status = "OPEN"
    BY <1>1, <1>2, <1>4, <1>8 DEF Careful
  <2>2. Records'[p] = [Records[p] EXCEPT !.status = "MERGED"]
    BY <1>1, <1>2, <1>3, <1>8, PublishRecords
  <2>3. Records'[p].status = "MERGED"
    BY <1>4, <2>2 DEF Ledger!Record
  <2> QED BY <1>4, <1>5, <1>6, <1>7, <2>1, <2>3
<1>9. CASE ~Touches(t, p)
  <2>1. \A q \in PR : ~Touches(t, q)
    BY <1>3, <1>9 DEF TouchesOnly
  <2>2. tables' = tables
    BY <2>1, CommitOfNothing
  <2>3. prs'[p].status = "MERGED"
    BY <1>3, <1>4, <1>9, <2>2 DEF tables
  <2> QED BY <1>5, <1>7, <2>2, <2>3
<1> QED
  BY <1>8, <1>9

\* CreateTeam commits a team that was not there, with every member it was
\* sent and nobody else.
LEMMA CommitCreatesTeam ==
  ASSUME LedgerInv, TeamInv, NEW c \in Client, Publish(c),
         tx[c].pc = "commit", tx[c].req.op = "CreateTeam"
  PROVE  /\ tx[c].req.team \notin teams
         /\ tx[c].req.team \in teams'
         /\ \A u \in Sent(tx[c].req) :
              users'[u] # Nil /\ users'[u].team = tx[c].req.team
         /\ \A u \in User : users'[u] # Nil /\ users'[u].team = tx[c].req.team =>
              u \in Sent(tx[c].req)
<1> DEFINE t == tx[c]
<1>1. Enrolled(t, users, teams) /\ Enrolling(t) /\ t.req \in AnyRequest
  BY ClientFacts DEF TeamInv, Enrolling, Shape
<1>2. /\ t.wTeams = {t.req.team} /\ t.req.team \notin teams
      /\ \A u \in Sent(t.req) : t.wUsers[u] # Nil
      /\ \A u \in User : t.wUsers[u] # Nil =>
           u \in Sent(t.req) /\ t.wUsers[u].team = t.req.team
  BY <1>1 DEF Enrolled
<1>3. /\ teams' = teams \cup t.wTeams
      /\ \A u \in User :
           users'[u] = IF t.wUsers[u] # Nil THEN t.wUsers[u] ELSE users[u]
  BY DEF Publish, UsersSeenBy
<1>4. Sent(t.req) \subseteq User
  BY <1>1, SentUsers
<1>5. \A u \in User : users[u] # Nil => users[u].team # t.req.team
  BY <1>2 DEF TeamInv
<1> QED
  BY <1>2, <1>3, <1>4, <1>5

-------------------------------------------------------------------------------
(* What a client is told by a step of its transaction.                     *)

\* h is what a step of c's transaction makes of http[c].
Told(c, h) ==
  /\ h.call = http[c].call /\ h.tries = http[c].tries
  /\ h.times = IF tables' # tables THEN http[c].times + 1 ELSE http[c].times
  /\ h.known = IF teams' # teams THEN teams' ELSE http[c].known
  /\ IF tx'[c].pc = "idle"
     THEN /\ h.status = Status_(tx[c].req.op, resp'[c])
          /\ h.shown = IF resp'[c] = "ok" THEN Shown(c) ELSE Nil
     ELSE h.status = http[c].status /\ h.shown = http[c].shown
  /\ h = [call |-> h.call, tries |-> h.tries, times |-> h.times,
          status |-> h.status, shown |-> h.shown, known |-> h.known]

\* A step of c's transaction tells c, and nobody else, something.
LEMMA RepositoryTells ==
  ASSUME http \in [Client -> Exchange], NEW c \in Client, Repository(c)
  PROVE  \E h : Told(c, h) /\ http' = [http EXCEPT ![c] = h]
<1> DEFINE old == http[c]
           op == tx[c].req.op
           times == IF tables' # tables THEN old.times + 1 ELSE old.times
           known == IF teams' # teams THEN teams' ELSE old.known
           status == Status_(op, resp'[c])
           shown == IF resp'[c] = "ok" THEN Shown(c) ELSE Nil
           next == [old EXCEPT
                      !.times = IF tables' # tables THEN @ + 1 ELSE @,
                      !.known = IF teams' # teams THEN teams' ELSE @]
<1>1. http' = [http EXCEPT ![c] =
                 IF tx'[c].pc # "idle" THEN next
                 ELSE [next EXCEPT !.status = status, !.shown = shown]]
  BY DEF Repository
<1>2. old \in Exchange
  OBVIOUS
<1>3. ASSUME NEW h, h = next
      PROVE  h = [call |-> old.call, tries |-> old.tries, times |-> times,
                  status |-> old.status, shown |-> old.shown, known |-> known]
  <2> HIDE DEF times, known
  <2>1. h = [old EXCEPT !.times = times, !.known = known]
    BY <1>3 DEF times, known
  <2> QED BY <1>2, <2>1 DEF Exchange
<1>4. ASSUME NEW h, h = [next EXCEPT !.status = status, !.shown = shown]
      PROVE  h = [call |-> old.call, tries |-> old.tries, times |-> times,
                  status |-> status, shown |-> shown, known |-> known]
  <2>1. PICK g : g = next
    OBVIOUS
  <2>2. g = [call |-> old.call, tries |-> old.tries, times |-> times,
             status |-> old.status, shown |-> old.shown, known |-> known]
    BY <1>3, <2>1
  <2>3. h = [g EXCEPT !.status = status, !.shown = shown]
    BY <1>4, <2>1
  <2> HIDE DEF next, times, known, status, shown, old
  <2> QED BY <2>2, <2>3
<1>5. CASE tx'[c].pc # "idle"
  <2>1. PICK h : h = next
    OBVIOUS
  <2>2. http' = [http EXCEPT ![c] = h]
    BY <1>1, <1>5, <2>1
  <2>3. h = [call |-> old.call, tries |-> old.tries, times |-> times,
             status |-> old.status, shown |-> old.shown, known |-> known]
    BY <1>3, <2>1
  <2> HIDE DEF next
  <2>4. Told(c, h)
    BY <1>5, <2>3 DEF Told
  <2> QED BY <2>2, <2>4
<1>6. CASE tx'[c].pc = "idle"
  <2>1. PICK h : h = [next EXCEPT !.status = status, !.shown = shown]
    OBVIOUS
  <2>2. http' = [http EXCEPT ![c] = h]
    BY <1>1, <1>6, <2>1
  <2>3. h = [call |-> old.call, tries |-> old.tries, times |-> times,
             status |-> status, shown |-> shown, known |-> known]
    BY <1>4, <2>1
  <2> HIDE DEF next
  <2>4. Told(c, h)
    BY <1>6, <2>3 DEF Told
  <2> QED BY <2>2, <2>4
<1> QED
  BY <1>5, <1>6

\* What is known of a client whose transaction takes a step.
LEMMA Caller ==
  ASSUME ApiInv, NEW c \in Client, tx[c].pc # "idle"
  PROVE  /\ http[c] \in Exchange
         /\ Talk(http[c], tx[c], teams, users, prs, reviewers)
         /\ http[c].call \in Calls /\ Valid(http[c].call)
         /\ tx[c].req = Asked(http[c].call) /\ tx[c].req \in AnyRequest
         /\ http[c].call.op \in DOMAIN Operation
         /\ tx[c].req.op = Operation[http[c].call.op]
         /\ http[c].status = Nil
         /\ http[c].times \in Nat /\ http[c].tries \in 0..MaxTries
         /\ http[c].times + Pending(tx[c]) <= http[c].tries
<1>1. /\ http[c] \in Exchange
      /\ Talk(http[c], tx[c], teams, users, prs, reviewers)
  BY DEF ApiInv, TalkInv
<1>2. Spoken(http[c], tx[c])
  BY <1>1 DEF Talk
<1>3. http[c].call \in Calls
  BY <1>1, <1>2, CallMade
<1>4. /\ Valid(http[c].call) /\ tx[c].req = Asked(http[c].call)
      /\ http[c].times + Pending(tx[c]) <= http[c].tries
      /\ http[c].status = Nil
  BY <1>2, <1>3, NoAnswerAssumption DEF Spoken
<1>5. http[c].times \in Nat /\ http[c].tries \in 0..MaxTries
  BY <1>1, MaxTriesAssumption DEF Exchange
<1> QED
  BY <1>1, <1>3, <1>4, <1>5, ValidCall

\* The record of a step is well-typed.
LEMMA ToldTypes ==
  ASSUME ApiInv, LedgerInv', NEW c \in Client, NEW h, Told(c, h),
         tx[c].pc # "idle", h.times <= http[c].tries,
         h.status \in {Nil, 200, 201, 400, 404, 409, 500}
  PROVE  h \in Exchange
<1>1. /\ http[c] \in Exchange /\ http[c].times \in Nat
      /\ http[c].tries \in 0..MaxTries
      /\ tx[c] \in Transaction
  BY Caller, ClientFacts DEF ApiInv
<1>2. h.call \in Calls \cup {Nil} /\ h.tries \in 0..MaxTries
  BY <1>1 DEF Told, Exchange
<1>3. h.times \in 0..MaxTries
  BY <1>1, MaxTriesAssumption DEF Told
<1>4. h.known \in SUBSET Team
  <2>1. teams' \in SUBSET Team
    BY DEF LedgerInv, Inv, TypeInv, TypeOK, Database
  <2> QED BY <1>1, <2>1 DEF Told, Exchange
<1>5. h.shown \in (SUBSET User) \cup {Nil}
  <2>1. Shown(c) \in (SUBSET User) \cup {Nil}
    <3>1. tx[c].seen \in SUBSET User
      BY <1>1 DEF Transaction
    <3>2. MembersOf(tx[c].req.team) \in SUBSET User
      BY DEF MembersOf
    <3> QED BY <3>1, <3>2 DEF Shown
  <2> QED BY <1>1, <2>1 DEF Told, Exchange
<1>6. h = [call |-> h.call, tries |-> h.tries, times |-> h.times,
           status |-> h.status, shown |-> h.shown, known |-> h.known]
  BY DEF Told
<1> QED
  BY <1>2, <1>3, <1>4, <1>5, <1>6 DEF Exchange

\* Work under way tells the client nothing.
LEMMA WorkingTalks ==
  ASSUME ApiInv, NEW c \in Client, NEW h, Told(c, h), Working(c)
  PROVE  h \in Exchange /\ Talk(h, tx'[c], teams', users', prs', reviewers')
<1> DEFINE old == http[c]
<1>1. /\ teams' = teams /\ users' = users /\ prs' = prs
      /\ reviewers' = reviewers /\ tables' = tables
      /\ tx[c].pc \notin {"idle", "selectTeamIDQuery"}
      /\ tx'[c].pc \notin {"idle", "selectTeamIDQuery"}
      /\ tx'[c].req = tx[c].req
  BY DEF Working, tables
<1>2. old \in Exchange /\ Talk(old, tx[c], teams, users, prs, reviewers)
  BY <1>1, Caller
<1>3. h = old
  <2>1. old = [call |-> old.call, tries |-> old.tries, times |-> old.times,
               status |-> old.status, shown |-> old.shown, known |-> old.known]
    BY <1>2 DEF Exchange
  <2>2. /\ h.call = old.call /\ h.tries = old.tries /\ h.times = old.times
        /\ h.status = old.status /\ h.shown = old.shown /\ h.known = old.known
    BY <1>1 DEF Told
  <2>3. h = [call |-> h.call, tries |-> h.tries, times |-> h.times,
             status |-> h.status, shown |-> h.shown, known |-> h.known]
    BY DEF Told
  <2> QED BY <2>1, <2>2, <2>3
<1>4. Spoken(old, tx'[c])
  BY <1>1, <1>2 DEF Talk, Spoken, Pending
<1>5. Staffed(old, tx'[c], users, teams)
  BY <1>1, <1>2 DEF Talk, Staffed
<1> QED
  BY <1>1, <1>2, <1>3, <1>4, <1>5 DEF Talk

\* An error is told as such, and nothing was changed by this attempt.
LEMMA FailingTalks ==
  ASSUME ApiInv, LedgerInv', NEW c \in Client, NEW h, Told(c, h), Failing(c)
  PROVE  h \in Exchange /\ Talk(h, tx'[c], teams', users', prs', reviewers')
<1> DEFINE old == http[c]
<1>1. PICK err \in Answer \ {"ok"} :
        /\ Fail(c, err) /\ tx[c].pc # "idle"
        /\ err # "internal" => tx[c].pc # "selectTeamIDQuery"
  BY DEF Failing
<1>2. /\ tx'[c] = Idle /\ resp'[c] = err
      /\ teams' = teams /\ users' = users /\ prs' = prs
      /\ reviewers' = reviewers /\ tables' = tables
  BY <1>1, FinishIdle DEF Fail, ApiInv, tables
<1>3. tx'[c].pc = "idle"
  BY <1>2 DEF Idle
<1>4. /\ old \in Exchange /\ Talk(old, tx[c], teams, users, prs, reviewers)
      /\ old.call \in Calls /\ Valid(old.call)
      /\ old.times \in Nat /\ old.tries \in 0..MaxTries
      /\ old.times + Pending(tx[c]) <= old.tries
  BY <1>1, Caller
<1>5. /\ h.call = old.call /\ h.tries = old.tries /\ h.times = old.times
      /\ h.known = old.known /\ h.status = WriteError(err)
  BY <1>1, <1>2, <1>3 DEF Told, Status_
<1>6. /\ WriteError(err) \in {400, 404, 409, 500}
      /\ err = "internal" => WriteError(err) = 500
  BY DEF WriteError
<1>7. h.status # Nil /\ h.call # Nil
  BY <1>4, <1>5, <1>6, NoAnswerAssumption
<1>8. old.times <= old.tries
  BY <1>4, MaxTriesAssumption DEF Pending
<1>9. h \in Exchange
  BY <1>1, <1>5, <1>6, <1>8, ToldTypes
<1>10. h.status \in {400, 404, 409} /\ h.tries = 1 => h.times = 0
  <2>1. ASSUME h.status \in {400, 404, 409}, h.tries = 1 PROVE h.times = 0
    <3>1. Pending(tx[c]) = 1
      BY <1>1, <1>5, <1>6, <2>1 DEF Pending
    <3> QED BY <1>4, <1>5, <2>1, <3>1
  <2> QED BY <2>1
<1>11. Spoken(h, tx'[c])
  <2>1. Pending(tx'[c]) = 0
    BY <1>3 DEF Pending
  <2>2. h.times + 0 <= h.tries
    BY <1>4, <1>5, <1>8
  <2> QED BY <1>3, <1>4, <1>5, <1>6, <1>7, <1>10, <2>1, <2>2 DEF Spoken
<1>12. Applied(h, teams', prs')
  BY <1>2, <1>4, <1>5 DEF Talk, Applied
<1>13. Final(h, prs', reviewers')
  BY <1>5, <1>6 DEF Final
<1>14. Staffed(h, tx'[c], users', teams')
  BY <1>2, <1>3, <1>4, <1>5, <1>6 DEF Talk, Staffed
<1> QED
  BY <1>9, <1>11, <1>12, <1>13, <1>14 DEF Talk

\* SetUserActive: whatever it answers, it may have changed the user.
LEMMA UpdateUserActiveTalks ==
  ASSUME ApiInv, LedgerInv', NEW c \in Client, NEW h, Told(c, h),
         UpdateUserActive(c)
  PROVE  h \in Exchange /\ Talk(h, tx'[c], teams', users', prs', reviewers')
<1> DEFINE old == http[c]
<1>1. /\ tx[c].pc = "updated" /\ tx[c].req.op = "SetUserActive"
      /\ UNCHANGED <<teams, prs, reviewers, history>>
  BY ClientFacts DEF UpdateUserActive, ApiInv, Shape
<1>2. PICK answer \in {"ok", "ErrUserNotFound", "internal"} : Finish(c, answer)
  BY DEF UpdateUserActive
<1>3. tx'[c] = Idle /\ resp'[c] = answer
  BY <1>2, FinishIdle DEF ApiInv
<1>4. tx'[c].pc = "idle"
  BY <1>3 DEF Idle
<1>5. /\ old \in Exchange /\ Talk(old, tx[c], teams, users, prs, reviewers)
      /\ old.call \in Calls /\ Valid(old.call)
      /\ old.call.op \in DOMAIN Operation
      /\ tx[c].req.op = Operation[old.call.op]
      /\ old.times \in Nat /\ old.tries \in 0..MaxTries
      /\ old.times + Pending(tx[c]) <= old.tries
  BY <1>1, Caller
<1>6. old.call.op = "PostUsersSetIsActive"
  BY <1>1, <1>5 DEF Operation
<1>7. /\ h.call = old.call /\ h.tries = old.tries
      /\ h.times = old.times \/ h.times = old.times + 1
      /\ h.known = old.known
      /\ h.status = Status_("SetUserActive", answer)
  BY <1>1, <1>3, <1>4 DEF Told
<1>8. h.status \in {200, 404, 500}
  BY <1>7 DEF Status_, WriteError
<1>9. h.times <= h.tries /\ h.times <= old.tries
  <2>1. Pending(tx[c]) = 1
    BY <1>1 DEF Pending
  <2> QED BY <1>5, <1>7, <2>1
<1>10. h.status # Nil /\ h.call # Nil /\ h.times \in Nat
  BY <1>5, <1>7, <1>8, NoAnswerAssumption
<1>11. h \in Exchange
  BY <1>1, <1>8, <1>9, ToldTypes
<1>12. Spoken(h, tx'[c])
  <2>1. Pending(tx'[c]) = 0
    BY <1>4 DEF Pending
  <2>2. h.times + 0 <= h.tries
    BY <1>9, <1>10
  <2> QED BY <1>4, <1>5, <1>6, <1>7, <1>8, <1>10, <2>1, <2>2 DEF Spoken
<1>13. Applied(h, teams', prs') /\ Final(h, prs', reviewers')
  BY <1>6, <1>7 DEF Applied, Final
<1>14. Staffed(h, tx'[c], users', teams')
  BY <1>1, <1>4, <1>5, <1>7, <1>8 DEF Talk, Staffed
<1> QED
  BY <1>11, <1>12, <1>13, <1>14 DEF Talk

\* The team that is read back is the one that was committed.
LEMMA GetTeamTalks ==
  ASSUME ApiInv, LedgerInv', NEW c \in Client, NEW h, Told(c, h), GetTeam(c)
  PROVE  h \in Exchange /\ Talk(h, tx'[c], teams', users', prs', reviewers')
<1> DEFINE old == http[c]
           r == tx[c].req
<1>1. /\ tx[c].pc = "selectTeamIDQuery" /\ r.op = "CreateTeam"
      /\ UNCHANGED tables
  BY ClientFacts DEF GetTeam, ApiInv, Shape
<1>2. /\ old \in Exchange /\ Talk(old, tx[c], teams, users, prs, reviewers)
      /\ old.call \in Calls /\ Valid(old.call)
      /\ r = Asked(old.call) /\ r \in AnyRequest
      /\ old.call.op \in DOMAIN Operation
      /\ r.op = Operation[old.call.op]
      /\ old.times \in Nat /\ old.tries \in 0..MaxTries
      /\ old.times + Pending(tx[c]) <= old.tries
  BY <1>1, Caller
<1>3. old.call.op = "PostTeamAdd"
  BY <1>1, <1>2 DEF Operation
<1>4. /\ old.known \subseteq teams /\ old.times = 1 /\ r.team \in old.known
      /\ \A u \in Sent(r) : TookOver(r, u, old.known, users)
      /\ \A u \in User : users[u] # Nil /\ users[u].team = r.team =>
                           u \in Sent(r)
  BY <1>1, <1>2 DEF Talk, Staffed
<1>5. Finish(c, "ok")
  BY <1>1, <1>4 DEF GetTeam
<1>6. /\ tx'[c] = Idle /\ resp'[c] = "ok"
      /\ teams' = teams /\ users' = users /\ prs' = prs
      /\ reviewers' = reviewers /\ tables' = tables
  BY <1>1, <1>5, FinishIdle DEF ApiInv, tables
<1>7. tx'[c].pc = "idle"
  BY <1>6 DEF Idle
<1>8. /\ h.call = old.call /\ h.tries = old.tries /\ h.times = old.times
      /\ h.known = old.known /\ h.status = 201 /\ h.shown = MembersOf(r.team)
  BY <1>1, <1>6, <1>7 DEF Told, Status_, Shown
<1>9. h.status # Nil /\ h.call # Nil
  BY <1>2, <1>8, NoAnswerAssumption
<1>10. h.times <= h.tries /\ h.times <= old.tries
  BY <1>1, <1>2, <1>8 DEF Pending
<1>11. h \in Exchange
  BY <1>1, <1>8, <1>10, ToldTypes
<1>12. Spoken(h, tx'[c])
  <2>1. Pending(tx'[c]) = 0
    BY <1>7 DEF Pending
  <2>2. h.times + 0 <= h.tries
    BY <1>2, <1>8, <1>10
  <2> QED BY <1>2, <1>4, <1>7, <1>8, <1>9, <2>1, <2>2 DEF Spoken
<1>13. Applied(h, teams', prs') /\ Final(h, prs', reviewers')
  BY <1>2, <1>3, <1>6, <1>8 DEF Talk, Applied, Final
<1>14. h.shown \subseteq Sent(r)
  BY <1>4, <1>8 DEF MembersOf
<1>15. ASSUME NEW u \in Sent(r) \ h.shown
       PROVE  users[u] # Nil /\ users[u].team \notin h.known
  <2>1. u \in User
    BY <1>1, <1>2, SentUsers
  <2>2. users[u] # Nil /\ (users[u].team # r.team => users[u].team \notin h.known)
    BY <1>4, <1>8 DEF TookOver
  <2>3. users[u].team # r.team
    BY <1>8, <2>1, <2>2 DEF MembersOf
  <2> QED BY <2>2, <2>3
<1>16. Staffed(h, tx'[c], users', teams')
  BY <1>2, <1>4, <1>6, <1>7, <1>8, <1>14, <1>15 DEF Staffed
<1> QED
  BY <1>11, <1>12, <1>13, <1>16 DEF Talk

\* COMMIT: the call has taken effect, for the first time if it creates or
\* merges something.
LEMMA CommitTalks ==
  ASSUME ApiInv, LedgerInv', NEW c \in Client, NEW h, Told(c, h),
         Commit(c) \/ CommitLost(c)
  PROVE  h \in Exchange /\ Talk(h, tx'[c], teams', users', prs', reviewers')
<1> DEFINE old == http[c]
           r == tx[c].req
           back == [Idle EXCEPT !.pc = "selectTeamIDQuery", !.req = tx[c].req]
<1>1. /\ tx[c].pc = "commit" /\ Publish(c) /\ LedgerInv /\ TeamInv
      /\ tx \in [Client -> Transaction]
  BY DEF Commit, CommitLost, ApiInv, LedgerInv, Inv, TypeInv, TypeOK
<1>2. /\ old \in Exchange /\ Talk(old, tx[c], teams, users, prs, reviewers)
      /\ old.call \in Calls /\ Valid(old.call)
      /\ r = Asked(old.call) /\ r \in AnyRequest
      /\ old.call.op \in DOMAIN Operation
      /\ r.op = Operation[old.call.op] /\ old.status = Nil
      /\ old.times \in Nat /\ old.tries \in 0..MaxTries
      /\ old.times + Pending(tx[c]) <= old.tries
  BY <1>1, Caller
<1>3. \/ /\ tx'[c].pc = "idle" /\ resp'[c] \in {"ok", "internal"}
         /\ resp'[c] = "ok" => r.op # "CreateTeam"
      \/ /\ tx'[c].pc = "selectTeamIDQuery" /\ tx'[c].req = r
         /\ r.op = "CreateTeam"
  <2>1. CASE r.op # "CreateTeam" /\ Finish(c, "ok")
    BY <1>1, <2>1, FinishIdle DEF Idle
  <2>2. CASE Finish(c, "internal")
    BY <1>1, <2>2, FinishIdle DEF Idle
  <2>3. CASE r.op = "CreateTeam" /\ tx' = [tx EXCEPT ![c] = back]
    <3>1. back.pc = "selectTeamIDQuery" /\ back.req = r
      BY DEF Idle
    <3> HIDE DEF back
    <3> QED BY <1>1, <2>3, <3>1
  <2> QED BY <2>1, <2>2, <2>3 DEF Commit, CommitLost
<1>4. Pending(tx[c]) = 1 /\ Pending(tx'[c]) = 0
  BY <1>1, <1>3 DEF Pending
<1>5. /\ h.call = old.call /\ h.tries = old.tries
      /\ h.times = IF tables' # tables THEN old.times + 1 ELSE old.times
      /\ h.known = IF teams' # teams THEN teams' ELSE old.known
  BY DEF Told
<1>6. h.times \in Nat /\ h.times <= h.tries /\ h.times <= old.tries
  BY <1>2, <1>4, <1>5
<1>7. /\ h.status \in {Nil, 200, 201, 500}
      /\ tx'[c].pc = "idle" => h.status \in {200, 201, 500}
      /\ tx'[c].pc # "idle" => h.status = Nil
      /\ h.status = 201 => r.op = "CreatePR"
      /\ h.status = 200 =>
           /\ r.op \notin {"CreatePR", "CreateTeam"}
           /\ h.shown = Shown(c)
  <2>1. CASE tx'[c].pc = "idle" /\ resp'[c] = "ok"
    BY <1>3, <2>1, NoAnswerAssumption DEF Told, Status_
  <2>2. CASE tx'[c].pc = "idle" /\ resp'[c] = "internal"
    BY <2>2, NoAnswerAssumption DEF Told, Status_, WriteError
  <2>3. CASE tx'[c].pc # "idle"
    BY <1>2, <2>3, NoAnswerAssumption DEF Told
  <2> QED BY <1>3, <2>1, <2>2, <2>3
<1>8. h.status # 404 /\ h.call # Nil /\ Nil \notin Nat
  BY <1>2, <1>5, <1>7, NoAnswerAssumption
<1>9. h \in Exchange
  BY <1>1, <1>6, <1>7, ToldTypes
<1>10. Applied(old, teams, prs)
  BY <1>2 DEF Talk
<1>11. ASSUME r.op = "CreatePR"
       PROVE  h.times = 1 /\ prs'[r.pr] # Nil
  <2>1. prs[r.pr] = Nil /\ prs'[r.pr] # Nil /\ tables' # tables
    BY <1>1, <1>11, CommitCreatesPR
  <2>2. old.call.op = "PostPullRequestCreate"
    BY <1>2, <1>11 DEF Operation
  <2>3. old.times = 0
    BY <1>2, <1>10, <2>1, <2>2 DEF Applied
  <2> QED BY <1>5, <2>1, <2>3
<1>12. ASSUME r.op = "MergePR"
       PROVE  /\ h.times > 0 => h.times = 1
              /\ prs'[r.pr] # Nil /\ prs'[r.pr].status = "MERGED"
              /\ tx[c].seen = ReviewersOf(reviewers', r.pr)
  <2>1. /\ prs'[r.pr] # Nil /\ prs'[r.pr].status = "MERGED"
        /\ tx[c].seen = ReviewersOf(reviewers', r.pr)
        /\ tables' # tables => prs[r.pr] # Nil /\ prs[r.pr].status # "MERGED"
    BY <1>1, <1>12, CommitMerges
  <2>2. old.call.op = "PostPullRequestMerge"
    BY <1>2, <1>12 DEF Operation
  <2>3. /\ old.times > 0 => old.times = 1
        /\ tables' # tables => old.times = 0
    BY <1>2, <1>10, <2>1, <2>2 DEF Applied
  <2> QED BY <1>5, <2>1, <2>3
<1>13. ASSUME r.op = "CreateTeam"
       PROVE  /\ h.times = 1 /\ r.team \in teams' /\ h.known = teams'
              /\ \A u \in Sent(r) : users'[u] # Nil /\ users'[u].team = r.team
              /\ \A u \in User : users'[u] # Nil /\ users'[u].team = r.team =>
                   u \in Sent(r)
  <2>1. /\ r.team \notin teams /\ r.team \in teams'
        /\ \A u \in Sent(r) : users'[u] # Nil /\ users'[u].team = r.team
        /\ \A u \in User : users'[u] # Nil /\ users'[u].team = r.team =>
             u \in Sent(r)
    BY <1>1, <1>13, CommitCreatesTeam
  <2>2. teams' # teams /\ tables' # tables
    BY <2>1 DEF tables
  <2>3. old.call.op = "PostTeamAdd"
    BY <1>2, <1>13 DEF Operation
  <2>4. old.times = 0
    BY <1>2, <1>10, <2>1, <2>3 DEF Applied
  <2> QED BY <1>5, <2>1, <2>2, <2>4
<1>14. Spoken(h, tx'[c])
  <2>1. h.times + 0 <= h.tries
    BY <1>6
  <2>2. h.status = 201 => h.times = 1
    BY <1>7, <1>11
  <2>3. h.status \notin {400, 404, 409}
    BY <1>7, <1>8
  <2>4. tx'[c].pc # "idle" => tx'[c].req = Asked(h.call)
    BY <1>2, <1>3, <1>5
  <2>5. h.status = Nil <=> tx'[c].pc # "idle"
    BY <1>7, <1>8
  <2>6. Valid(h.call)
    BY <1>2, <1>5
  <2> QED BY <1>4, <1>8, <2>1, <2>2, <2>3, <2>4, <2>5, <2>6 DEF Spoken
<1>15. Applied(h, teams', prs')
  <2>1. /\ h.call.op = "PostPullRequestCreate" => r.op = "CreatePR"
        /\ h.call.op = "PostPullRequestMerge" => r.op = "MergePR"
        /\ h.call.op = "PostTeamAdd" => r.op = "CreateTeam"
        /\ r = Asked(h.call)
    BY <1>2, <1>5 DEF Operation
  <2> QED BY <1>11, <1>12, <1>13, <2>1 DEF Applied
<1>16. Final(h, prs', reviewers')
  <2>1. SUFFICES ASSUME h.status = 200, h.call.op = "PostPullRequestMerge"
                 PROVE  Final(h, prs', reviewers')
    BY DEF Final
  <2>2. r.op = "MergePR" /\ r = Asked(h.call) /\ Valid(h.call)
    BY <1>2, <1>5, <2>1 DEF Operation
  <2>3. h.shown = tx[c].seen
    BY <1>7, <2>1, <2>2 DEF Shown
  <2> QED BY <1>12, <2>2, <2>3 DEF Final
<1>17. Staffed(h, tx'[c], users', teams')
  <2>1. h.known \subseteq teams'
    <3>1. old.known \subseteq teams
      BY <1>2 DEF Talk, Staffed
    <3>2. teams \subseteq teams'
      BY <1>1 DEF Publish
    <3> QED BY <1>5, <3>1, <3>2
  <2>2. ~(h.status = 201 /\ h.call.op = "PostTeamAdd")
    BY <1>2, <1>5, <1>7 DEF Operation
  <2>3. ASSUME tx'[c].pc = "selectTeamIDQuery"
        PROVE  /\ h.times = 1 /\ tx'[c].req.team \in h.known
               /\ \A u \in Sent(tx'[c].req) :
                    TookOver(tx'[c].req, u, h.known, users')
               /\ \A u \in User :
                    users'[u] # Nil /\ users'[u].team = tx'[c].req.team =>
                      u \in Sent(tx'[c].req)
    <3>1. tx'[c].req = r /\ r.op = "CreateTeam"
      BY <1>3, <2>3
    <3> QED BY <1>13, <3>1 DEF TookOver
  <2> QED BY <2>1, <2>2, <2>3 DEF Staffed
<1> QED
  BY <1>9, <1>14, <1>15, <1>16, <1>17 DEF Talk

-------------------------------------------------------------------------------
(* The invariant of the API.                                               *)

\* A step of a client's transaction leaves the transactions of others alone.
LEMMA OneAtATime ==
  ASSUME LedgerInv, NEW c \in Client,
         Working(c) \/ Failing(c) \/ EndOfRequest(c)
  PROVE  \A d \in Client \ {c} : tx'[d] = tx[d]
<1>1. tx \in [Client -> Transaction]
  BY DEF LedgerInv, Inv, TypeInv, TypeOK
<1>2. CASE Working(c)
  BY <1>2 DEF Working
<1>3. CASE Failing(c)
  BY <1>3, FinishIdle DEF Failing, Fail
<1>4. CASE \E answer : Finish(c, answer)
  BY <1>4, FinishIdle
<1>5. CASE \E next : tx' = [tx EXCEPT ![c] = next]
  BY <1>1, <1>5
<1>6. EndOfRequest(c) => \/ \E answer : Finish(c, answer)
                         \/ \E next : tx' = [tx EXCEPT ![c] = next]
  BY DEF EndOfRequest, Commit, CommitLost, UpdateUserActive, GetTeam
<1> QED
  BY <1>2, <1>3, <1>4, <1>5, <1>6

\* A step of a transaction.
LEMMA RepositoryTalks ==
  ASSUME ApiInv, NEW c \in Client, Repository(c)
  PROVE  ApiInv'
<1>1. TransactionStep(c) /\ LedgerInv /\ TeamInv /\ TalkInv
      /\ http \in [Client -> Exchange]
  BY DEF Repository, TransactionStep, ApiInv
<1>2. PICK h : Told(c, h) /\ http' = [http EXCEPT ![c] = h]
  BY <1>1, RepositoryTells
<1>3. LedgerInv'
  BY <1>1, StepKeepsLedger
<1>4. /\ Working(c) \/ Failing(c) \/ EndOfRequest(c)
      /\ TeamInv' /\ TablesGrow
  BY <1>1, StepKinds
<1>5. h \in Exchange /\ Talk(h, tx'[c], teams', users', prs', reviewers')
  BY <1>2, <1>3, <1>4, WorkingTalks, FailingTalks, UpdateUserActiveTalks,
     GetTeamTalks, CommitTalks DEF EndOfRequest
<1>6. \A d \in Client \ {c} : tx'[d] = tx[d]
  BY <1>1, <1>4, OneAtATime
<1>7. TalkInv' /\ http' \in [Client -> Exchange]
  BY <1>1, <1>2, <1>4, <1>5, <1>6, OthersTalk
<1> QED
  BY <1>3, <1>4, <1>7 DEF ApiInv

\* Nobody has said anything yet.
LEMMA ApiInvInit == ApiInit => ApiInv
<1> SUFFICES ASSUME ApiInit PROVE ApiInv
  OBVIOUS
<1>1. LedgerInv
  BY TypeInvInit, LockInvInit, DraftInvInit DEF ApiInit, LedgerInv, Inv
<1>2. PICK d \in Seeds : teams = d.teams /\ users = d.users
  BY DEF ApiInit, Init
<1>3. tx = [c \in Client |-> Idle] /\ http = [c \in Client |-> NoCall]
  BY DEF ApiInit, Init
<1>4. TeamInv
  <2>1. \A u \in User : users[u] # Nil => users[u].team \in teams
    BY <1>2, SeedAssumption DEF ForeignKeysHold
  <2>2. Enrolled(Idle, users, teams)
    <3>1. Idle.pc \notin {"upsertUserQuery", "commit"} /\ Idle.wTeams = {}
      BY DEF Idle
    <3> QED BY <3>1, IdleEnrolled
  <2> QED BY <1>3, <2>1, <2>2 DEF TeamInv
<1>5. NoCall \in Exchange
  <2>1. 0 \in 0..MaxTries
    BY MaxTriesAssumption
  <2> QED BY <2>1 DEF NoCall, Exchange
<1>6. /\ NoCall.call = Nil /\ NoCall.times = 0 /\ NoCall.tries = 0
      /\ NoCall.status = Nil /\ NoCall.known = {}
      /\ Idle.pc = "idle" /\ Nil \notin Nat
  BY NoAnswerAssumption DEF NoCall, Idle
<1>7. Spoken(NoCall, Idle)
  BY <1>6 DEF Spoken, Pending
<1>8. /\ Applied(NoCall, teams, prs) /\ Final(NoCall, prs, reviewers)
      /\ Staffed(NoCall, Idle, users, teams)
  BY <1>6 DEF Applied, Final, Staffed
<1>9. TalkInv
  BY <1>3, <1>7, <1>8 DEF TalkInv, Talk
<1> QED
  BY <1>1, <1>3, <1>4, <1>5, <1>9 DEF ApiInv

\* Every step keeps the invariant.
LEMMA ApiInvNext == ApiInv /\ [ApiNext]_apiVars => ApiInv'
<1> SUFFICES ASSUME ApiInv, [ApiNext]_apiVars PROVE ApiInv'
  OBVIOUS
<1>1. CASE \E c \in Client : Post(c) \/ GetTeamGet(c) \/ Retry(c) \/ Repository(c)
  BY <1>1, PostTalks, GetTeamGetTalks, RetryTalks, RepositoryTalks
<1>2. CASE UNCHANGED apiVars
  <2>1. UNCHANGED vars /\ http' = http
    BY <1>2 DEF apiVars
  <2>2. LedgerInv'
    BY <2>1, TypeInvNext, LockInvNext, DraftInvNext DEF ApiInv, LedgerInv, Inv
  <2>3. TeamInv' /\ TalkInv' /\ http' \in [Client -> Exchange]
    BY <2>1 DEF vars, ApiInv, TeamInv, TalkInv
  <2> QED BY <2>2, <2>3 DEF ApiInv
<1>3. CASE Quiesce /\ UNCHANGED http
  BY <1>2, <1>3 DEF Quiesce, apiVars
<1> QED
  BY <1>1, <1>2, <1>3 DEF ApiNext

\* The invariant holds of the service, whoever calls what, and repeats it.
THEOREM ApiHolds == ApiSpec => []ApiInv
BY ApiInvInit, ApiInvNext, PTL DEF ApiSpec

-------------------------------------------------------------------------------
(* What a client may rely on.                                              *)

\* What ApiInv says of one client.
LEMMA ClientTalks ==
  ASSUME ApiInv, NEW c \in Client
  PROVE  /\ http[c] \in Exchange
         /\ Spoken(http[c], tx[c]) /\ Applied(http[c], teams, prs)
         /\ Final(http[c], prs, reviewers)
         /\ Staffed(http[c], tx[c], users, teams)
BY DEF ApiInv, TalkInv, Talk

\* What a client is told is well-typed, and a call is unanswered exactly
\* while its request is being worked at.
THEOREM ApiTypesHold == ApiSpec => []ApiTypeOK
<1>1. ASSUME ApiInv PROVE ApiTypeOK
  <2>1. TypeOK
    BY <1>1 DEF ApiInv, LedgerInv, Inv, TypeInv
  <2>2. ASSUME NEW c \in Client
        PROVE  /\ http[c] \in Exchange
               /\ http[c].call # Nil => (http[c].status = Nil <=> tx[c].pc # "idle")
    BY <1>1, ClientTalks DEF Spoken
  <2> QED BY <2>1, <2>2 DEF ApiTypeOK, Exchange
<1>2. ApiInv => ApiTypeOK
  BY <1>1
<1> QED
  BY <1>2, ApiHolds, PTL

\* A merge that was answered 200 has shown the reviewers the PR keeps for
\* ever, whatever anybody calls afterwards.
THEOREM MergeAnswersAreFinal == ApiSpec => []MergeAnswerIsFinal
<1>1. ASSUME ApiInv, NEW c \in Client, Says(c, "PostPullRequestMerge", {200})
      PROVE  LET p == http[c].call.body.pull_request_id
             IN prs[p].status = "MERGED" /\ http[c].shown = ReviewersOf(reviewers, p)
  <2>1. http[c].status = 200 /\ http[c].call.op = "PostPullRequestMerge"
    BY <1>1 DEF Says
  <2>2. /\ Valid(http[c].call)
        /\ prs[Asked(http[c].call).pr].status = "MERGED"
        /\ http[c].shown = ReviewersOf(reviewers, Asked(http[c].call).pr)
    BY <1>1, <2>1, ClientTalks DEF Final
  <2>3. http[c].call \in Calls
    BY <1>1, ClientTalks DEF Says, Exchange
  <2>4. Asked(http[c].call).pr = http[c].call.body.pull_request_id
    BY <2>1, <2>2, <2>3, ValidCall
  <2> QED BY <2>2, <2>4
<1>2. ApiInv => MergeAnswerIsFinal
  BY <1>1 DEF MergeAnswerIsFinal
<1> QED
  BY <1>2, ApiHolds, PTL

\* A client who is refused at the first attempt has changed nothing.
THEOREM RefusalsChangeNothing == ApiSpec => []RefusalChangesNothing
<1>1. ASSUME ApiInv, NEW c \in Client,
             NEW op \in (DOMAIN Body) \ {"PostUsersSetIsActive"},
             Says(c, op, {400, 404, 409}), http[c].tries = 1
      PROVE  http[c].times = 0
  <2>1. Spoken(http[c], tx[c])
    BY <1>1, ClientTalks
  <2> QED BY <1>1, <2>1 DEF Spoken, Says
<1>2. ApiInv => RefusalChangesNothing
  BY <1>1 DEF RefusalChangesNothing
<1> QED
  BY <1>2, ApiHolds, PTL

\* A PR or a team is created, and a PR merged, at most once by a call that is
\* repeated as often as one likes, and 201 means once.
THEOREM RetriesAreAppliedOnce == ApiSpec => []RetriesApplyOnce
<1>1. ASSUME ApiInv, NEW c \in Client,
             NEW op \in {"PostPullRequestCreate", "PostTeamAdd",
                         "PostPullRequestMerge"},
             http[c].call # Nil, http[c].call.op = op
      PROVE  http[c].times <= 1 /\ (http[c].status = 201 => http[c].times = 1)
  <2>1. Spoken(http[c], tx[c]) /\ Applied(http[c], teams, prs)
    BY <1>1, ClientTalks
  <2>2. http[c].times \in Nat
    BY <1>1, ClientTalks, MaxTriesAssumption DEF Exchange
  <2>3. http[c].times > 0 => http[c].times = 1
    BY <1>1, <2>1 DEF Applied
  <2> QED BY <2>1, <2>2, <2>3 DEF Spoken
<1>2. ApiInv => RetriesApplyOnce
  BY <1>1 DEF RetriesApplyOnce
<1> QED
  BY <1>2, ApiHolds, PTL

\* The members in a 201 of PostTeamAdd were sent, and those of them that are
\* missing have been taken over by teams that are newer.
THEOREM TeamAnswersAreExplained == ApiSpec => []TeamAnswerExplained
<1>1. ASSUME ApiInv, NEW c \in Client, Says(c, "PostTeamAdd", {201})
      PROVE  LET sent == {http[c].call.body.members[i].user_id :
                            i \in DOMAIN http[c].call.body.members}
             IN /\ http[c].shown \subseteq sent
                /\ \A u \in sent \ http[c].shown :
                     users[u].team \notin http[c].known
  <2>1. http[c].status = 201 /\ http[c].call.op = "PostTeamAdd"
    BY <1>1 DEF Says
  <2>2. /\ http[c].shown \subseteq Sent(Asked(http[c].call))
        /\ \A u \in Sent(Asked(http[c].call)) \ http[c].shown :
             users[u].team \notin http[c].known
    BY <1>1, <2>1, ClientTalks DEF Staffed
  <2>3. http[c].call \in Calls
    BY <1>1, ClientTalks DEF Says, Exchange
  <2>4. Valid(http[c].call)
    BY <1>1, <2>1, ClientTalks DEF Spoken
  <2>5. Sent(Asked(http[c].call)) =
          {http[c].call.body.members[i].user_id :
             i \in DOMAIN http[c].call.body.members}
    BY <2>1, <2>3, <2>4, ValidCall
  <2> QED BY <2>2, <2>5
<1>2. ApiInv => TeamAnswerExplained
  BY <1>1 DEF TeamAnswerExplained
<1> QED
  BY <1>2, ApiHolds, PTL

-------------------------------------------------------------------------------
(* The service as a whole implements the ledger.                           *)

\* A step of the API commits at most one step of the ledger.
LEMMA ApiLedgerStep ==
  ASSUME ApiInv, [ApiNext]_apiVars
  PROVE  Records' = Records \/ Ledger!Next
<1>1. LedgerInv
  BY DEF ApiInv
<1>2. CASE \E c \in Client : Repository(c)
  <2>1. [Next]_vars
    BY <1>2 DEF Repository, Next
  <2> QED BY <1>1, <2>1, LedgerStep
<1>3. CASE UNCHANGED tables
  BY <1>3 DEF tables, Records
<1>4. CASE \E c \in Client : Post(c) \/ GetTeamGet(c) \/ Retry(c)
  BY <1>3, <1>4 DEF Post, GetTeamGet, Retry, Reply, Begin
<1>5. CASE UNCHANGED apiVars
  BY <1>3, <1>5 DEF apiVars, vars, tables
<1>6. CASE Quiesce
  BY <1>3, <1>6 DEF Quiesce, vars, tables
<1> QED
  BY <1>2, <1>4, <1>5, <1>6 DEF ApiNext

\* Clients that overlap, fail and repeat their calls leave the records that
\* requests one after the other leave: at most two reviewers, never the
\* author, every change of them in the history, and none after the merge.
THEOREM ServiceImplementsLedger == ApiSpec => ImplementsLedger
<1>1. ApiInit => Ledger!Init
  BY LedgerInit DEF ApiInit
<1>2. ApiInv /\ [ApiNext]_apiVars =>
        [Ledger!Next]_(LedgerOf(prs, reviewers, history))
  BY ApiLedgerStep DEF Records
<1> QED
  BY <1>1, <1>2, ApiHolds, PTL DEF ApiSpec, ImplementsLedger, Ledger!Spec

===============================================================================
