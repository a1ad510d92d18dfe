---------------------------- MODULE ReviewTxLedger ----------------------------
(***************************************************************************)
(* ReviewTx implements ReviewLedger, and TeamLedger: the committed tables, *)
(* read as one record per PR and one team per user, change only the way    *)
(* the ledger does.  A COMMIT is a step of the ledger, every other         *)
(* statement a stutter.                                                    *)
(***************************************************************************)
EXTENDS ReviewTx

LedgerOf(ps, rv, hist) ==
  [p \in PR |-> IF ps[p] = Nil THEN Nil
                ELSE [author    |-> ps[p].author,
                      status    |-> ps[p].status,
                      reviewers |-> ReviewersOf(rv, p),
                      history   |-> hist[p]]]

TeamOf(us) == [u \in User |-> IF us[u] = Nil THEN Nil ELSE us[u].team]

Ledger == INSTANCE TeamLedger WITH
            ledger <- LedgerOf(prs, reviewers, history),
            team <- TeamOf(users)

\* Nil, an absent PR, is not a record.
ASSUME RecordAssumption == Nil \notin Ledger!Record

\* Overlapping requests of CreatePR, MergePR, ReassignReviewer and
\* DeactivateTeam leave the same record as requests that run one after
\* the other: the history accounts for every change of a PR's reviewers, each
\* entry takes away somebody who was a reviewer and brings in somebody who was
\* not, a PR appears whole, and its record is closed by the merge.
ImplementsLedger == Ledger!Spec

\* Together with the teams: whoever becomes the author or a reviewer of a PR
\* is a user, DeactivateTeam takes reviews only from members of one team, and
\* at each PR it changes from every one of them it has deactivated; users
\* change teams only when a new team is created, and nothing else changes
\* with it.  These are all the steps a report can be overtaken by.
ImplementsTeamLedger == Ledger!TeamSpec

===============================================================================
