------------------------------ MODULE MCReviewTx ------------------------------
(***************************************************************************)
(* Small databases and requests on which TLC checks ReviewTx.  Every cfg   *)
(* picks a database and a set of requests.                                 *)
(***************************************************************************)
EXTENDS ReviewTxLedger, PickRandomLoop, TLC

CONSTANTS u1, u2, u3, u4, u5, t1, t2, t3, p1, p2

ClientSymmetry == Permutations(Client)

In(t)  == [team |-> t, active |-> TRUE]
Out(t) == [team |-> t, active |-> FALSE]

\* Tables with rows for the users in us and the PRs in ps only.
Tables(us, ps, rv) ==
  [teams     |-> {us[u].team : u \in DOMAIN us},
   users     |-> [u \in User |-> IF u \in DOMAIN us THEN us[u] ELSE Nil],
   prs       |-> [p \in PR |-> IF p \in DOMAIN ps THEN ps[p] ELSE Nil],
   reviewers |-> rv,
   history   |-> [p \in PR |-> <<>>]]

OpenBy(u) == [author |-> u, status |-> "OPEN"]

CreatePR(p, u)     == [op |-> "CreatePR", pr |-> p, user |-> u]
MergePR(p)         == [op |-> "MergePR", pr |-> p]
Reassign(p, u)     == [op |-> "ReassignReviewer", pr |-> p, user |-> u]
SetActive(u, a)    == [op |-> "SetUserActive", user |-> u, active |-> a]
CreateTeam(t, ms)  == [op |-> "CreateTeam", team |-> t, members |-> ms]
DeactivateTeam(t)  == [op |-> "DeactivateTeam", team |-> t]
Row_(u, a)         == [id |-> u, active |-> a]

-------------------------------------------------------------------------------
\* One team of five; p1 is open with two reviewers, p2 does not exist.
PrSeeds ==
  {Tables((u1 :> In(t1)) @@ (u2 :> In(t1)) @@ (u3 :> In(t1))
            @@ (u4 :> In(t1)) @@ (u5 :> In(t1)),
          p1 :> OpenBy(u1), {<<p1, u2>>, <<p1, u3>>})}

PrRequests ==
  {CreatePR(p2, u1), MergePR(p1), MergePR(p2),
   Reassign(p1, u2), Reassign(p1, u3), Reassign(p2, u2)}

\* Two teams of two, p1 and p2 open with reviewers of both; t3 is created
\* out of members of both teams, in two orders.
BulkSeeds ==
  {Tables((u1 :> In(t1)) @@ (u2 :> In(t1)) @@ (u3 :> In(t2)) @@ (u4 :> In(t2)),
          (p1 :> OpenBy(u1)) @@ (p2 :> OpenBy(u1)),
          {<<p1, u2>>, <<p1, u3>>, <<p2, u2>>, <<p2, u4>>})}

BulkRequests ==
  {DeactivateTeam(t1), DeactivateTeam(t2),
   CreateTeam(t3, <<Row_(u2, TRUE), Row_(u3, TRUE)>>),
   CreateTeam(t3, <<Row_(u3, FALSE), Row_(u2, TRUE)>>),
   SetActive(u2, FALSE), MergePR(p1), Reassign(p1, u3)}

-------------------------------------------------------------------------------
\* For one client: a new database, and one with two teams of different
\* sizes, an inactive member in each.
SerialSeeds ==
  {Tables(<<>>, <<>>, {}),
   Tables((u1 :> In(t1)) @@ (u2 :> In(t1)) @@ (u3 :> Out(t1))
            @@ (u4 :> In(t2)) @@ (u5 :> Out(t2)),
          p1 :> OpenBy(u1), {<<p1, u2>>})}

SerialRequests ==
  {CreateTeam(t1, <<Row_(u1, TRUE), Row_(u2, TRUE), Row_(u3, TRUE),
                   Row_(u2, TRUE), Row_(u4, TRUE)>>),
   CreateTeam(t2, <<Row_(u4, TRUE), Row_(u5, FALSE)>>),
   CreateTeam(t3, <<Row_(u3, TRUE)>>), CreateTeam(t3, <<>>),
   DeactivateTeam(t1), DeactivateTeam(t2),
   SetActive(u2, FALSE), SetActive(u3, TRUE), SetActive(u5, TRUE),
   CreatePR(p1, u1), CreatePR(p2, u4), MergePR(p1),
   Reassign(p1, u2), Reassign(p1, u4), Reassign(p2, u3)}

\* p1 is reviewed by a user of t1 who is already inactive.
LeftoverSeeds ==
  {Tables((u1 :> In(t1)) @@ (u2 :> In(t1)) @@ (u3 :> In(t2)),
          p1 :> OpenBy(u1), {<<p1, u2>>})}
LeftoverRequests == {SetActive(u2, FALSE), DeactivateTeam(t1)}

\* One user is moved to a new team while the flag is set.
MoveSeeds == {Tables((u1 :> In(t1)) @@ (u2 :> In(t1)), <<>>, {})}
MoveRequests == {SetActive(u1, FALSE), CreateTeam(t2, <<Row_(u1, TRUE)>>)}

\* A PR is created while a candidate is set inactive.
StaleRequests == {CreatePR(p2, u1), SetActive(u2, FALSE)}

===============================================================================
