----------------------------- MODULE MCStatsReads -----------------------------
(***************************************************************************)
(* Small tables and reports on which TLC checks StatsReads.                *)
(***************************************************************************)
EXTENDS StatsReads

CONSTANTS u1, u2, u3, u4, t1, t2, t3, p1, p2, p3

R(author, status, reviewers, history) ==
  [author |-> author, status |-> status, reviewers |-> reviewers,
   history |-> history]

\* p3 does not exist yet, u4 has no row.  p1 is open, p2 merged after its
\* other reviewer was removed, or open as well.
Teams == [u \in User |-> IF u = u4 THEN Nil ELSE IF u = u3 THEN t2 ELSE t1]

SomePRs ==
  {[prs |-> (p1 :> R(u1, "OPEN", {u2, u3}, <<>>))
              @@ (p2 :> R(u3, s, {u2}, <<[old |-> u1, new |-> Nil]>>))
              @@ (p3 :> Nil),
    team |-> Teams] : s \in {"OPEN", "MERGED"}}

\* p2 and p3 were inserted in the same microsecond.
Times == (p1 :> 1) @@ (p2 :> 2) @@ (p3 :> 2)

Summary(from, to, status, limit) ==
  [kind |-> "StatsSummary",
   params |-> [from |-> from, to |-> to, status |-> status, limit |-> limit]]

PRReports == {[kind |-> "PRStats", pr |-> p] : p \in PR}

Totals ==
       {[kind |-> "Stats"], Summary(Nil, Nil, "MERGED", Nil)}
  \cup {[kind |-> "ReviewerStats", user |-> u, limit |-> n] :
          u \in {u2, u4}, n \in {1, Nil}}
  \cup {[kind |-> "GetUserReviews", user |-> u] : u \in {u2, Nil}}

Disturbed == PRReports \cup Totals

\* Every combination of the filter's fields being there or not.
Filters ==
  {Summary(f, t, s, n) : f \in {Nil, 1, 2}, t \in {Nil, 1, 2},
                         s \in {Nil, "OPEN", "MERGED"}, n \in {Nil, 0, 1}}

\* What a filter selects is a question about one moment.
Reports == Disturbed \cup Filters
Writes == [r \in Reports |-> IF r \in Disturbed THEN 2 ELSE 0]
===============================================================================
