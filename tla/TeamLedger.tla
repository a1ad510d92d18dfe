------------------------------ MODULE TeamLedger ------------------------------
(***************************************************************************)
(* The tables the reports read: the records of ReviewLedger, and who is in *)
(* which team.  Every operation that writes is one step, which leaves the  *)
(* tables as its COMMIT does.  ReviewTxLedger shows that the transactions  *)
(* of ReviewTx take no other steps; StatsReads lets them run between the   *)
(* queries of a report.                                                    *)
(*                                                                         *)
(* A step says what holds at the COMMIT.  Whether somebody is active, or   *)
(* still in the team he was chosen from, is read earlier and without a     *)
(* lock, so nothing is said about it here.                                 *)
(***************************************************************************)
EXTENDS ReviewLedger

CONSTANT Team

VARIABLE team     \* [User -> Team, or Nil when there is no such user]

\* The people of record r are rows of users.
Known(r) == \A u \in {r.author} \cup r.reviewers : team[u] # Nil

TeamInit ==
  /\ Init
  /\ team \in [User -> Team \cup {Nil}]
  /\ \A p \in PR : ledger[p] # Nil => Known(ledger[p])

-------------------------------------------------------------------------------
CreatePR(p) ==
  /\ ledger[p] = Nil
  /\ \E a \in User, R \in SUBSET User :
       LET r == [author |-> a, status |-> "OPEN", reviewers |-> R,
                 history |-> <<>>]
       IN /\ Sound(r)
          /\ Known(r)
          /\ ledger' = [ledger EXCEPT ![p] = r]
  /\ UNCHANGED team

MergePR(p) == Merge(p) /\ UNCHANGED team

ReassignReviewer(p) ==
  /\ Reassign(p)
  /\ Known(ledger'[p])
  /\ UNCHANGED team

\* r after one of its reviewers in S has been removed, or replaced by
\* somebody who is not in S.
Relieved(r, S) ==
  {Replaced(r, old, new) :
     old \in r.reviewers \cap S, new \in (Newcomers(r) \ S) \cup {Nil}}

\* What can become of r when the users in S are deactivated: one after the
\* other, each of its reviewers among them.
Cleared(r, S) ==
  {s \in Relieved(r, S) \cup UNION {Relieved(q, S) : q \in Relieved(r, S)} :
     s.reviewers \cap S = {} /\ Known(s)}

\* The open PRs that users in S review.
Impacted(S) == {p \in PR : IsOpen(p) /\ ledger[p].reviewers \cap S # {}}

\* S are the members its UPDATE has found active: whoever was inactive before
\* keeps his reviews.  hit are the impacted PRs its scan has found, minus those
\* merged before their turn: an assignment that was in flight during the scan
\* stays.
DeactivateTeam(t) ==
  \E S \in SUBSET {u \in User : team[u] = t} : \E hit \in SUBSET Impacted(S) :
    /\ hit # {}
    /\ \E l \in [hit -> UNION {Cleared(ledger[p], S) : p \in hit}] :
         /\ \A p \in hit : l[p] \in Cleared(ledger[p], S)
         /\ ledger' = [p \in PR |-> IF p \in hit THEN l[p] ELSE ledger[p]]
    /\ UNCHANGED team

\* The team is new, its members may come from others.
CreateTeam(t) ==
  /\ \A u \in User : team[u] # t
  /\ \E M \in SUBSET User :
       team' = [u \in User |-> IF u \in M THEN t ELSE team[u]]
  /\ UNCHANGED ledger

TeamNext ==
  /\ ledger' # ledger \/ team' # team
  /\ \/ \E p \in PR : CreatePR(p) \/ MergePR(p) \/ ReassignReviewer(p)
     \/ \E t \in Team : DeactivateTeam(t) \/ CreateTeam(t)

TeamSpec == TeamInit /\ [][TeamNext]_<<ledger, team>>

===============================================================================
