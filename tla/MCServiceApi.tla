----------------------------- MODULE MCServiceApi -----------------------------
(***************************************************************************)
(* Small databases and calls on which TLC checks ServiceApi.               *)
(***************************************************************************)
EXTENDS ServiceApi, TLC

CONSTANTS u1, u2, u3, u4, t1, t1b, t2, blank, p1, p2

\* t1b is t1 with a blank before or behind it, blank is nothing else.
TrimSpace == [t \in TeamField |->
  IF t = t1b THEN t1 ELSE IF t = blank THEN Empty ELSE t]

Db(us, ps, rv) ==
  [teams     |-> {us[u].team : u \in DOMAIN us},
   users     |-> [u \in User |-> IF u \in DOMAIN us THEN us[u] ELSE Nil],
   prs       |-> [p \in PR |-> IF p \in DOMAIN ps THEN ps[p] ELSE Nil],
   reviewers |-> rv,
   history   |-> [p \in PR |-> <<>>]]

In(t) == [team |-> t, active |-> TRUE]

Create(p, name, u) ==
  [op |-> "PostPullRequestCreate",
   body |-> [pull_request_id |-> p, pull_request_name |-> name,
             author_id |-> u]]
MergeCall(p) ==
  [op |-> "PostPullRequestMerge", body |-> [pull_request_id |-> p]]
ReassignCall(p, u) ==
  [op |-> "PostPullRequestReassign",
   body |-> [pull_request_id |-> p, old_user_id |-> u]]
SetActive(u, a) ==
  [op |-> "PostUsersSetIsActive", body |-> [user_id |-> u, is_active |-> a]]
Add(t, us) ==
  [op |-> "PostTeamAdd",
   body |-> [team_name |-> t,
             members |-> [i \in DOMAIN us |->
                            [user_id |-> us[i], is_active |-> TRUE]]]]
Deactivate(t) ==
  [op |-> "PostTeamDeactivate", body |-> [team_name |-> t]]
Get(t) == [op |-> "GetTeamGet", body |-> [team_name |-> t]]

-------------------------------------------------------------------------------
\* p1 is open with two reviewers; u4 may take over from either.
OneTeam ==
  {Db((u1 :> In(t1)) @@ (u2 :> In(t1)) @@ (u3 :> In(t1)) @@ (u4 :> In(t1)),
      p1 :> [author |-> u1, status |-> "OPEN"], {<<p1, u2>>, <<p1, u3>>})}

\* What PRs, users and teams are asked to do at the same time.
ValidCalls ==
  {Create(p2, "name", u1), MergeCall(p1), ReassignCall(p1, u2),
   SetActive(u4, FALSE),
   Add(t2, <<u2, u3>>), Add(t1b, <<u3, u4>>), Add(t1, <<u4>>),
   Deactivate(t1), Deactivate(t1b), Get(t2)}

\* Answered without a transaction, or with an error of the wrapper.
InvalidCalls ==
  {Create(p2, Empty, u1), Create(Empty, "name", u1), MergeCall(Empty),
   ReassignCall(p1, Empty), SetActive(Empty, TRUE),
   Add(Empty, <<u2>>), Deactivate(blank), Get(Empty),
   [op |-> "PostPullRequestMerge", body |-> Malformed]}

AllCalls == ValidCalls \cup InvalidCalls

-------------------------------------------------------------------------------
\* A team of one: nobody can review what its member creates.
Solo == {Db(u1 :> In(t1), <<>>, {})}
SoloCalls == {Create(p1, "name", u1), MergeCall(p1)}
===============================================================================
