------------------------------ MODULE PrTimeline ------------------------------
(***************************************************************************)
(* The timestamps of one pull request: created_at, merged_at and the       *)
(* changed_at of its reassignments.  All three are NOW() of PostgreSQL,    *)
(* the time the transaction began, which is before it waits for the row    *)
(* lock and before it commits: a transaction that commits later may carry  *)
(* the earlier time.                                                       *)
(*                                                                         *)
(* Reports order the history by changed_at and show the three times side   *)
(* by side (prHistoryQuery, prStatsQuery).  What bounds the disorder is    *)
(* the deadline withTimeout sets on every request.                         *)
(***************************************************************************)
EXTENDS Integers, Sequences

CONSTANTS Client,    \* handlers
          Nil,
          Timeout,   \* of a request, see withTimeout
          Lag,       \* assumed of the network and of PostgreSQL: how long
                     \* after a deadline a COMMIT or a disconnect still lands
          MaxClock   \* bound: the last instant

ASSUME TimelineAssumption ==
  /\ Timeout \in Nat \ {0} /\ Lag \in Nat /\ MaxClock \in Nat
  /\ Nil \notin Nat \cup Client

Time == 0..MaxClock

Operation == {"CreatePR", "MergePR", "ReassignReviewer", "DeactivateTeam"}

VARIABLES clock,
          pr,       \* the committed row and its history, oldest commit first
          holder,   \* who has the row lock (for CreatePR, the unique key)
          tx,       \* the handlers' transactions
          merges    \* merged_at as answered by the merges that succeeded

vars == <<clock, pr, holder, tx, merges>>

Idle == [pc |-> "idle", op |-> Nil, deadline |-> Nil, now |-> Nil]

Init ==
  /\ clock = 0
  /\ pr = [created |-> Nil, merged |-> Nil, changed |-> <<>>]
  /\ holder = Nil
  /\ tx = [c \in Client |-> Idle]
  /\ merges = {}

Active(c) == tx[c].pc # "idle"

-------------------------------------------------------------------------------
\* Mutant of Receive: the use case does not call withTimeout.
Receive_NoTimeout(c) ==
  /\ ~Active(c)
  /\ \E op \in Operation :
       tx' = [tx EXCEPT ![c] = [Idle EXCEPT !.pc = "begin", !.op = op,
                                            !.deadline = MaxClock]]
  /\ UNCHANGED <<clock, pr, holder, merges>>

\* The use case sets the deadline.
Receive(c) ==
  /\ ~Active(c)
  /\ \E op \in Operation :
       tx' = [tx EXCEPT ![c] = [Idle EXCEPT !.pc = "begin", !.op = op,
                                            !.deadline = clock + Timeout]]
  /\ UNCHANGED <<clock, pr, holder, merges>>

\* BeginTx, perhaps after a wait for a connection.
Begin(c) ==
  /\ tx[c].pc = "begin"
  /\ tx' = [tx EXCEPT ![c].pc = "lock", ![c].now = clock]
  /\ UNCHANGED <<clock, pr, holder, merges>>

\* Mutant of End: the deferred Rollback is missing.
End_KeepsLock(c) ==
  /\ tx' = [tx EXCEPT ![c] = Idle]
  /\ UNCHANGED <<clock, holder>>

\* The transaction ends and its lock is free: answered, rolled back or lost.
End(c) ==
  /\ tx' = [tx EXCEPT ![c] = Idle]
  /\ holder' = IF holder = c THEN Nil ELSE holder
  /\ UNCHANGED clock

\* The INSERT or SELECT ... FOR UPDATE of c gets the row, or finds what ends
\* the request: the PR exists already, does not exist, or is merged.  What
\* refuses a request for the sake of users and reviewers is left open.
Lock(c) ==
  LET refused == CASE tx[c].op = "CreatePR"         -> pr.created # Nil
                   [] tx[c].op = "MergePR"          -> pr.created = Nil
                   [] OTHER -> pr.created = Nil \/ pr.merged # Nil
  IN
  /\ tx[c].pc = "lock"
  /\ holder = Nil
  /\ \/ (refused \/ tx[c].op # "MergePR") /\ End(c) /\ UNCHANGED <<pr, merges>>
     \/ /\ ~refused
        /\ holder' = c
        /\ tx' = [tx EXCEPT ![c].pc = "commit"]
        /\ UNCHANGED <<clock, pr, merges>>

\* Mutant of Written: a repeated merge sets merged_at again.
Written_MergedAgain(c) ==
  CASE tx[c].op = "CreatePR"         -> [pr EXCEPT !.created = tx[c].now]
    [] tx[c].op = "ReassignReviewer" ->
         [pr EXCEPT !.changed = Append(@, tx[c].now)]
    [] tx[c].op = "DeactivateTeam"   ->
         [pr EXCEPT !.changed = @ \o <<tx[c].now, tx[c].now>>]
    [] tx[c].op = "MergePR"          -> [pr EXCEPT !.merged = tx[c].now]

\* The row as c's transaction leaves it; DeactivateTeam, when both reviewers
\* were members of the team.
Written(c) ==
  CASE tx[c].op = "CreatePR"         -> [pr EXCEPT !.created = tx[c].now]
    [] tx[c].op = "ReassignReviewer" ->
         [pr EXCEPT !.changed = Append(@, tx[c].now)]
    [] tx[c].op = "DeactivateTeam"   ->
         [pr EXCEPT !.changed = @ \o <<tx[c].now, tx[c].now>>]
    [] tx[c].op = "MergePR"          ->
         [pr EXCEPT !.merged = IF @ = Nil THEN tx[c].now ELSE @]

\* COMMIT takes effect.  Past the deadline the handler answers an error.
Commit(c) ==
  /\ tx[c].pc = "commit"
  /\ pr' = Written(c)
  /\ merges' = IF tx[c].op = "MergePR" /\ clock <= tx[c].deadline
               THEN merges \cup {Written(c).merged} ELSE merges
  /\ End(c)

\* The deadline passes, and the server notices the closed connection.
Expire(c) ==
  /\ Active(c)
  /\ clock >= tx[c].deadline
  /\ End(c)
  /\ UNCHANGED <<pr, merges>>

\* Time passes, but nothing outlives its deadline by more than Lag.
Tick ==
  /\ clock < MaxClock
  /\ \A c \in Client : Active(c) => clock < tx[c].deadline + Lag
  /\ clock' = clock + 1
  /\ UNCHANGED <<pr, holder, tx, merges>>

Next ==
  \/ \E c \in Client : \/ Receive(c) \/ Begin(c) \/ Lock(c)
                       \/ Commit(c) \/ Expire(c)
  \/ Tick

Spec == Init /\ [][Next]_vars

-------------------------------------------------------------------------------
\* Bound: histories of up to three entries.
ShortHistory == Len(pr.changed) <= 3

\* Types; moreover only a transaction about to commit has the lock, and a PR
\* that was not created has no other time.
TypeOK ==
  /\ clock \in Time
  /\ pr \in [created : Time \cup {Nil}, merged : Time \cup {Nil},
             changed : Seq(Time)]
  /\ holder \in Client \cup {Nil}
  /\ tx \in [Client -> [pc : {"idle", "begin", "lock", "commit"},
                        op : Operation \cup {Nil},
                        deadline : Nat \cup {Nil}, now : Time \cup {Nil}]]
  /\ merges \subseteq Time
  /\ \A c \in Client : holder = c <=> tx[c].pc = "commit"
  /\ pr.created = Nil => pr.merged = Nil /\ pr.changed = <<>>

\* The times of the PR in the order of the commits that wrote them.
Stamps ==
  LET given(t) == IF t = Nil THEN <<>> ELSE <<t>>
  IN given(pr.created) \o pr.changed \o given(pr.merged)

\* Times disagree with the order of the commits by no more than a request's
\* timeout and the lag: changed_at is at most that much after merged_at,
\* created_at at most that much after either, and a history ordered by
\* changed_at differs from the true order only within it.
StampsFollowCommits ==
  \A i, j \in DOMAIN Stamps : i < j => Stamps[i] <= Stamps[j] + Timeout + Lag

\* Merging is idempotent (TODO.md: a repeated call returns the current state
\* of the PR): all successful merges answer one merged_at, that of the row.
MergesAgree == merges \subseteq {pr.merged}

===============================================================================
