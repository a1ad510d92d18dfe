--------------------------- MODULE PrTimelineProofs ---------------------------
(***************************************************************************)
(* Proofs about PrTimeline, for any number of handlers, any timeout and    *)
(* any lag.                                                                *)
(***************************************************************************)
EXTENDS PrTimeline, DataLemmas

-------------------------------------------------------------------------------
(* The inductive invariant.  Timely relates a transaction to the clock: it *)
(* began after its request came in and does not outlive its deadline by    *)
(* more than Lag.  Permitted says what the row lock protects: what the     *)
(* transaction has found when it got the lock still holds when it commits. *)

Timely(t) ==
  /\ t.pc # "idle" =>
       /\ t.op \in Operation /\ t.deadline \in Nat
       /\ t.deadline <= clock + Timeout
       /\ clock <= t.deadline + Lag
  /\ t.pc \in {"lock", "commit"} =>
       t.now \in Time /\ t.now <= clock /\ t.deadline <= t.now + Timeout

Permitted(t) ==
  t.pc = "commit" =>
    /\ t.op = "CreatePR" <=> pr.created = Nil
    /\ t.op \in {"ReassignReviewer", "DeactivateTeam"} => pr.merged = Nil

\* No time of s is more than Timeout + Lag after a later one.
Follows(s) == \A i, j \in DOMAIN s : i < j => s[i] <= s[j] + Timeout + Lag

\* Every time of s has passed.
Past(s) == \A i \in DOMAIN s : s[i] <= clock

TimelineInv ==
  /\ TypeOK
  /\ \A c \in Client : Timely(tx[c]) /\ Permitted(tx[c])
  /\ Past(Stamps)
  /\ Follows(Stamps)
  /\ MergesAgree

-------------------------------------------------------------------------------
(* Lemmas about stamps.                                                    *)

Given(t) == IF t = Nil THEN <<>> ELSE <<t>>

\* The stamps of a PR that is not merged are those of its creation and its
\* history.
Before(p) == Given(p.created) \o p.changed

\* What Stamps is in terms of Before, and the types.
LEMMA StampsParts ==
  ASSUME TypeOK
  PROVE  /\ Before(pr) \in Seq(Time) /\ pr.changed \in Seq(Time)
         /\ Stamps \in Seq(Time)
         /\ pr.merged = Nil => Stamps = Before(pr)
         /\ pr.created = Nil => Stamps = <<>>
<1>1. /\ pr.created \in Time \cup {Nil} /\ pr.merged \in Time \cup {Nil}
      /\ pr.changed \in Seq(Time)
  BY DEF TypeOK
<1>2. Given(pr.created) \in Seq(Time)
  BY <1>1 DEF Given
<1>3. Before(pr) \in Seq(Time)
  BY <1>1, <1>2, ConcatProperties DEF Before
<1>4. Stamps = Before(pr) \o Given(pr.merged)
  BY DEF Stamps, Before, Given
<1>4a. Given(pr.merged) \in Seq(Time) /\ Stamps \in Seq(Time)
  BY <1>1, <1>3, <1>4, ConcatProperties DEF Given
<1>5. ASSUME pr.merged = Nil PROVE Stamps = Before(pr)
  BY <1>3, <1>4, <1>5, ConcatEmptySeq DEF Given
<1>6. ASSUME pr.created = Nil PROVE Stamps = <<>>
  <2>1. pr.merged = Nil /\ pr.changed = <<>>
    BY <1>6 DEF TypeOK
  <2>2. <<>> \in Seq(Time) /\ Before(pr) = <<>> \o <<>>
    BY <1>6, <2>1 DEF Before, Given
  <2> QED BY <1>5, <2>1, <2>2, ConcatEmptySeq
<1> QED
  BY <1>1, <1>3, <1>4a, <1>5, <1>6

\* A stamp that is late enough may follow, if it has passed.
LEMMA AppendStamp ==
  ASSUME TimelineAssumption, NEW s \in Seq(Time), NEW x \in Time, clock \in Time,
         Past(s), Follows(s), x <= clock, clock <= x + Timeout + Lag
  PROVE  /\ Append(s, x) \in Seq(Time)
         /\ Past(Append(s, x)) /\ Follows(Append(s, x))
<1> DEFINE n == Len(s)
           u == Append(s, x)
<1>1. n \in Nat /\ DOMAIN s = 1..n /\ \A i \in 1..n : s[i] \in Time
  BY LenProperties, ElementOfSeq
<1>2. /\ u \in Seq(Time) /\ DOMAIN u = 1..(n+1)
      /\ \A i \in 1..n : u[i] = s[i]
      /\ u[n+1] = x
  BY AppendProperties, LenProperties
<1> HIDE DEF n, u
<1>3. \A i \in 1..n : s[i] <= clock
  BY <1>1 DEF Past
<1>4. Past(u)
  <2>1. ASSUME NEW i \in 1..(n+1) PROVE u[i] <= clock
    <3>1. i \in 1..n \/ i = n+1
      BY <1>1
    <3> QED BY <1>2, <1>3, <3>1
  <2> QED BY <1>2, <2>1 DEF Past
<1>5. Follows(u)
  <2>1. ASSUME NEW i \in 1..(n+1), NEW j \in 1..(n+1), i < j
        PROVE  u[i] <= u[j] + Timeout + Lag
    <3>1. i \in 1..n
      BY <1>1, <2>1
    <3>2. CASE j \in 1..n
      BY <1>1, <1>2, <2>1, <3>1, <3>2 DEF Follows
    <3>3. CASE j = n+1
      BY <1>1, <1>2, <1>3, <3>1, <3>3, TimelineAssumption DEF Time
    <3> QED BY <1>1, <3>2, <3>3
  <2> QED BY <1>2, <2>1 DEF Follows
<1> QED
  BY <1>2, <1>4, <1>5 DEF u

-------------------------------------------------------------------------------
(* One lemma per action.                                                   *)

\* What the invariant says of one handler.
LEMMA HandlerFacts ==
  ASSUME TimelineInv, NEW c \in Client
  PROVE  /\ Timely(tx[c]) /\ Permitted(tx[c])
         /\ tx[c].pc \in {"idle", "begin", "lock", "commit"}
         /\ tx[c].deadline \in Nat \cup {Nil} /\ tx[c].now \in Time \cup {Nil}
         /\ tx[c].op \in Operation \cup {Nil}
         /\ holder = c <=> tx[c].pc = "commit"
         /\ clock \in Time
BY DEF TimelineInv, TypeOK

\* A step that leaves the clock, the PR and the answers alone.
LEMMA TxStep ==
  ASSUME TimelineInv, NEW c \in Client, NEW t,
         t \in [pc : {"idle", "begin", "lock", "commit"},
                op : Operation \cup {Nil},
                deadline : Nat \cup {Nil}, now : Time \cup {Nil}],
         tx' = [tx EXCEPT ![c] = t],
         Timely(t), Permitted(t),
         UNCHANGED <<clock, pr, merges>>,
         holder' = IF t.pc = "commit" THEN c
                   ELSE IF holder = c THEN Nil ELSE holder,
         t.pc = "commit" => holder \in {Nil, c}
  PROVE  TimelineInv'
<1>1. /\ tx'[c] = t /\ \A d \in Client : d # c => tx'[d] = tx[d]
      /\ tx' \in [Client -> [pc : {"idle", "begin", "lock", "commit"},
                             op : Operation \cup {Nil},
                             deadline : Nat \cup {Nil}, now : Time \cup {Nil}]]
  BY DEF TimelineInv, TypeOK
<1>2. Nil \notin Client
  BY TimelineAssumption
<1>3. \A d \in Client : holder' = d <=> tx'[d].pc = "commit"
  BY <1>1, <1>2 DEF TimelineInv, TypeOK
<1>4. holder' \in Client \cup {Nil}
  BY DEF TimelineInv, TypeOK
<1>4a. clock' = clock /\ pr' = pr /\ merges' = merges
  OBVIOUS
<1>5. TypeOK'
  <2>1. /\ clock' \in Time /\ merges' \subseteq Time
        /\ pr' \in [created : Time \cup {Nil}, merged : Time \cup {Nil},
                   changed : Seq(Time)]
        /\ pr'.created = Nil => pr'.merged = Nil /\ pr'.changed = <<>>
    BY <1>4a DEF TimelineInv, TypeOK, Time
  <2> QED BY <1>1, <1>3, <1>4, <2>1, Zenon DEF TypeOK, Time
<1>6. \A d \in Client : Timely(tx[d])' /\ Permitted(tx[d])'
  BY <1>1 DEF TimelineInv, Timely, Permitted
<1>7. (Past(Stamps))' /\ (Follows(Stamps))' /\ MergesAgree'
  <2>1. Stamps' = Stamps
    BY DEF Stamps
  <2> QED BY <1>4a, <2>1 DEF TimelineInv, Past, Follows, MergesAgree
<1> QED
  BY <1>5, <1>6, <1>7 DEF TimelineInv

\* A handler between requests.
LEMMA IdleHandler ==
  /\ Idle \in [pc : {"idle", "begin", "lock", "commit"},
               op : Operation \cup {Nil},
               deadline : Nat \cup {Nil}, now : Time \cup {Nil}]
  /\ Timely(Idle) /\ Permitted(Idle) /\ Idle.pc = "idle"
BY DEF Idle, Timely, Permitted

\* A request sets its deadline.
LEMMA ReceiveTimely ==
  ASSUME TimelineInv, NEW c \in Client, Receive(c)
  PROVE  TimelineInv'
<1>1. PICK op \in Operation :
        tx' = [tx EXCEPT ![c] = [Idle EXCEPT !.pc = "begin", !.op = op,
                                             !.deadline = clock + Timeout]]
  BY DEF Receive
<1> DEFINE t == [Idle EXCEPT !.pc = "begin", !.op = op,
                             !.deadline = clock + Timeout]
<1>2. clock \in Nat /\ holder # c
  BY TimelineAssumption, HandlerFacts DEF Receive, Active, Time
<1>2a. clock + Timeout \in Nat
  BY <1>2, TimelineAssumption
<1>3. /\ t.pc = "begin" /\ t.op = op /\ t.deadline = clock + Timeout
      /\ t \in [pc : {"idle", "begin", "lock", "commit"},
                op : Operation \cup {Nil},
                deadline : Nat \cup {Nil}, now : Time \cup {Nil}]
  BY <1>2a DEF Idle
<1> HIDE DEF t
<1>4. Timely(t) /\ Permitted(t)
  BY <1>2, <1>3, TimelineAssumption DEF Timely, Permitted
<1>5. tx' = [tx EXCEPT ![c] = t]
  BY <1>1 DEF t
<1> QED
  BY <1>2, <1>3, <1>4, <1>5, TxStep DEF Receive

\* A transaction begins.
LEMMA BeginTimely ==
  ASSUME TimelineInv, NEW c \in Client, Begin(c)
  PROVE  TimelineInv'
<1> DEFINE t == [tx[c] EXCEPT !.pc = "lock", !.now = clock]
<1>1. /\ tx[c] \in [pc : {"idle", "begin", "lock", "commit"},
                    op : Operation \cup {Nil},
                    deadline : Nat \cup {Nil}, now : Time \cup {Nil}]
      /\ tx' = [tx EXCEPT ![c] = t]
  BY DEF TimelineInv, TypeOK, Begin
<1>2. clock \in Time /\ holder # c /\ Timely(tx[c]) /\ tx[c].pc = "begin"
  BY HandlerFacts DEF Begin
<1>3. /\ t.pc = "lock" /\ t.op = tx[c].op /\ t.deadline = tx[c].deadline
      /\ t.now = clock
      /\ t \in [pc : {"idle", "begin", "lock", "commit"},
                op : Operation \cup {Nil},
                deadline : Nat \cup {Nil}, now : Time \cup {Nil}]
  BY <1>1, <1>2
<1> HIDE DEF t
<1>4. Timely(t) /\ Permitted(t)
  BY <1>2, <1>3, TimelineAssumption DEF Timely, Permitted, Time
<1> QED
  BY <1>1, <1>2, <1>3, <1>4, TxStep DEF Begin

\* A transaction ends and frees its lock.
LEMMA EndTimely ==
  ASSUME TimelineInv, NEW c \in Client, End(c), UNCHANGED <<pr, merges>>
  PROVE  TimelineInv'
BY IdleHandler, TxStep DEF End

\* The row lock is taken, under it the PR is as the request needs it.
LEMMA LockTimely ==
  ASSUME TimelineInv, NEW c \in Client, Lock(c)
  PROVE  TimelineInv'
<1> DEFINE t == [tx[c] EXCEPT !.pc = "commit"]
<1>1. CASE End(c) /\ UNCHANGED <<pr, merges>>
  BY <1>1, EndTimely
<1>2. CASE /\ ~(CASE tx[c].op = "CreatePR"         -> pr.created # Nil
                   [] tx[c].op = "MergePR"          -> pr.created = Nil
                   [] OTHER -> pr.created = Nil \/ pr.merged # Nil)
           /\ holder' = c /\ tx' = [tx EXCEPT ![c].pc = "commit"]
           /\ UNCHANGED <<clock, pr, merges>>
  <2>1. /\ tx[c] \in [pc : {"idle", "begin", "lock", "commit"},
                      op : Operation \cup {Nil},
                      deadline : Nat \cup {Nil}, now : Time \cup {Nil}]
        /\ tx' = [tx EXCEPT ![c] = t]
    BY <1>2 DEF TimelineInv, TypeOK
  <2>2. holder = Nil /\ Timely(tx[c]) /\ tx[c].pc = "lock"
    BY HandlerFacts DEF Lock
  <2>3. /\ t.pc = "commit" /\ t.op = tx[c].op /\ t.deadline = tx[c].deadline
        /\ t.now = tx[c].now
        /\ t \in [pc : {"idle", "begin", "lock", "commit"},
                  op : Operation \cup {Nil},
                  deadline : Nat \cup {Nil}, now : Time \cup {Nil}]
    BY <2>1
  <2>4. /\ tx[c].op \in Operation
        /\ tx[c].op = "CreatePR" => pr.created = Nil
        /\ tx[c].op = "MergePR" => pr.created # Nil
        /\ tx[c].op \in {"ReassignReviewer", "DeactivateTeam"} =>
             pr.created # Nil /\ pr.merged = Nil
    BY <1>2, <2>2 DEF Timely, Operation
  <2> HIDE DEF t
  <2>5. Timely(t) /\ Permitted(t)
    BY <2>2, <2>3, <2>4 DEF Timely, Permitted, Operation
  <2> QED BY <1>2, <2>1, <2>2, <2>3, <2>5, TxStep
<1> QED
  BY <1>1, <1>2 DEF Lock

\* A deadline that passes ends the transaction.
LEMMA ExpireTimely ==
  ASSUME TimelineInv, NEW c \in Client, Expire(c)
  PROVE  TimelineInv'
BY EndTimely DEF Expire

\* Time passes.
LEMMA TickTimely ==
  ASSUME TimelineInv, Tick
  PROVE  TimelineInv'
<1>1. /\ clock \in Nat /\ clock' = clock + 1 /\ clock' \in Time
      /\ pr' = pr /\ holder' = holder /\ tx' = tx /\ merges' = merges
  BY TimelineAssumption DEF TimelineInv, TypeOK, Tick, Time
<1>2. TypeOK'
  BY <1>1 DEF TimelineInv, TypeOK
<1>3. ASSUME NEW c \in Client PROVE Timely(tx[c])' /\ Permitted(tx[c])'
  <2>1. tx[c].pc # "idle" => clock < tx[c].deadline + Lag
    BY DEF Tick, Active
  <2> QED
    BY <1>1, <2>1, HandlerFacts, TimelineAssumption DEF Timely, Permitted, Time
<1>4. Stamps' = Stamps
  BY <1>1 DEF Stamps
<1>5. (Past(Stamps))'
  <2>1. \A i \in DOMAIN Stamps : Stamps[i] \in Time
    BY StampsParts, ElementOfSeq, LenProperties DEF TimelineInv
  <2> QED BY <1>1, <1>4, <2>1 DEF TimelineInv, Past, Time
<1>6. (Follows(Stamps))' /\ MergesAgree'
  BY <1>1, <1>4 DEF TimelineInv, Follows, MergesAgree
<1> QED
  BY <1>2, <1>3, <1>5, <1>6 DEF TimelineInv

\* What COMMIT makes of the PR, request by request.
LEMMA WrittenPR ==
  ASSUME TimelineInv, NEW c \in Client, tx[c].pc = "commit"
  PROVE  /\ Written(c) \in [created : Time \cup {Nil}, merged : Time \cup {Nil},
                           changed : Seq(Time)]
         /\ Written(c).created # Nil
         /\ tx[c].op = "MergePR" => Written(c).merged # Nil
         /\ \/ Written(c) = pr
            \/ /\ pr.created = Nil /\ Written(c).created = tx[c].now
               /\ Written(c).changed = <<>> /\ Written(c).merged = Nil
            \/ /\ pr.merged = Nil /\ Written(c).merged = tx[c].now
               /\ Written(c).created = pr.created
               /\ Written(c).changed = pr.changed
            \/ /\ pr.merged = Nil /\ Written(c).merged = Nil
               /\ Written(c).created = pr.created
               /\ \/ Written(c).changed = Append(pr.changed, tx[c].now)
                  \/ Written(c).changed =
                       Append(Append(pr.changed, tx[c].now), tx[c].now)
<1> DEFINE x == tx[c].now
           w == Written(c)
           two == pr.changed \o <<x, x>>
           PrType == [created : Time \cup {Nil}, merged : Time \cup {Nil},
                      changed : Seq(Time)]
<1>1. /\ tx[c].op \in Operation /\ x \in Time /\ x # Nil
      /\ tx[c].op = "CreatePR" <=> pr.created = Nil
      /\ tx[c].op \in {"ReassignReviewer", "DeactivateTeam"} => pr.merged = Nil
  BY HandlerFacts, TimelineAssumption DEF Timely, Permitted, Time
<1>2. /\ pr \in PrType
      /\ pr.created = Nil => pr.merged = Nil /\ pr.changed = <<>>
  BY DEF TimelineInv, TypeOK
<1>3. Append(pr.changed, x) \in Seq(Time)
  BY <1>1, <1>2, AppendProperties
<1>4. two = Append(Append(pr.changed, x), x) /\ two \in Seq(Time)
  <2>1. <<x, x>> = Append(<<x>>, x) /\ <<x>> \in Seq(Time)
    BY <1>1
  <2>2. pr.changed \o <<x>> = Append(pr.changed, x)
    BY <1>1, <1>2, AppendIsConcat
  <2>3. pr.changed \o Append(<<x>>, x) = Append(pr.changed \o <<x>>, x)
    BY <1>1, <1>2, <2>1, AppendConcat
  <2>4. two = Append(Append(pr.changed, x), x)
    BY <2>1, <2>2, <2>3
  <2> QED BY <1>1, <1>3, <2>4, AppendProperties
<1> HIDE DEF x, two
<1>5. CASE tx[c].op = "CreatePR"
  <2>1. w = [pr EXCEPT !.created = x]
    BY <1>5 DEF Written, x
  <2> QED BY <1>1, <1>2, <1>5, <2>1 DEF x
<1>6. CASE tx[c].op = "MergePR"
  <2>1. w = [pr EXCEPT !.merged = IF pr.merged = Nil THEN x ELSE pr.merged]
    BY <1>6 DEF Written, x
  <2> QED BY <1>1, <1>2, <1>6, <2>1 DEF x
<1>7. CASE tx[c].op = "ReassignReviewer"
  <2> DEFINE one == Append(pr.changed, x)
  <2>1. w = [pr EXCEPT !.changed = one]
    BY <1>7 DEF Written, x
  <2> HIDE DEF one
  <2>2. /\ w \in PrType /\ w.created = pr.created /\ w.merged = pr.merged
        /\ w.changed = one
    BY <1>2, <1>3, <2>1 DEF one
  <2> QED BY <1>1, <1>7, <2>2 DEF one, x
<1>8. CASE tx[c].op = "DeactivateTeam"
  <2>1. w = [pr EXCEPT !.changed = two]
    BY <1>8 DEF Written, x, two
  <2>2. /\ w \in PrType /\ w.created = pr.created /\ w.merged = pr.merged
        /\ w.changed = two
    BY <1>2, <1>4, <2>1
  <2> QED BY <1>1, <1>4, <1>8, <2>2 DEF x
<1> QED
  BY <1>1, <1>5, <1>6, <1>7, <1>8 DEF Operation

\* COMMIT adds late stamps at the end: after the last one, or nothing.
LEMMA CommitTimely ==
  ASSUME TimelineInv, NEW c \in Client, Commit(c)
  PROVE  TimelineInv'
<1> DEFINE x == tx[c].now
           s == Before(pr)
           PrType == [created : Time \cup {Nil}, merged : Time \cup {Nil},
                      changed : Seq(Time)]
<1>1. /\ tx[c].pc = "commit" /\ pr' = Written(c) /\ clock' = clock
      /\ tx' = [tx EXCEPT ![c] = Idle]
      /\ holder = c /\ holder' = Nil
      /\ merges' \in {merges, merges \cup {pr'.merged}}
      /\ merges' # merges => tx[c].op = "MergePR"
  BY HandlerFacts DEF Commit, End
<1>2. /\ x \in Time /\ x # Nil /\ x <= clock /\ clock <= x + Timeout + Lag
      /\ clock \in Time
  BY <1>1, HandlerFacts, TimelineAssumption DEF Timely, Time
<1>3. /\ pr' \in PrType /\ pr'.created # Nil
      /\ tx[c].op = "MergePR" => pr'.merged # Nil
      /\ \/ pr' = pr
         \/ /\ pr.created = Nil /\ pr'.created = x
            /\ pr'.changed = <<>> /\ pr'.merged = Nil
         \/ /\ pr.merged = Nil /\ pr'.merged = x
            /\ pr'.created = pr.created /\ pr'.changed = pr.changed
         \/ /\ pr.merged = Nil /\ pr'.merged = Nil /\ pr'.created = pr.created
            /\ \/ pr'.changed = Append(pr.changed, x)
               \/ pr'.changed = Append(Append(pr.changed, x), x)
  BY <1>1, WrittenPR
<1>4. /\ s \in Seq(Time) /\ pr.changed \in Seq(Time)
      /\ pr.merged = Nil => Stamps = s
      /\ pr.created = Nil => Stamps = <<>>
      /\ Past(Stamps) /\ Follows(Stamps)
  BY StampsParts DEF TimelineInv
<1>5. \/ Stamps' = Stamps
      \/ Stamps' = Append(Stamps, x)
      \/ Stamps' = Append(Append(Stamps, x), x)
  <2>1. Stamps' = (Given(pr'.created) \o pr'.changed) \o Given(pr'.merged)
    BY DEF Stamps, Given
  <2>2. Given(Nil) = <<>> /\ Given(x) = <<x>>
    BY <1>2 DEF Given
  <2>3. CASE pr' = pr
    BY <2>3 DEF Stamps
  <2>4. CASE /\ pr.created = Nil /\ pr'.created = x
             /\ pr'.changed = <<>> /\ pr'.merged = Nil
    <3>1. Stamps' = (<<x>> \o <<>>) \o <<>> /\ Stamps = <<>>
      BY <1>4, <2>1, <2>2, <2>4
    <3>2. <<x>> \in Seq(Time) /\ <<x>> \o <<>> = <<x>>
      BY <1>2, ConcatEmptySeq
    <3>3. Append(<<>>, x) = <<x>>
      OBVIOUS
    <3> QED BY <3>1, <3>2, <3>3
  <2>5. CASE /\ pr.merged = Nil /\ pr'.merged = x
             /\ pr'.created = pr.created /\ pr'.changed = pr.changed
    <3>1. Stamps' = s \o <<x>> /\ Stamps = s
      BY <1>4, <2>1, <2>2, <2>5 DEF Before
    <3>2. s \o <<x>> = Append(s, x)
      BY <1>2, <1>4, AppendIsConcat
    <3> QED BY <3>1, <3>2
  <2>6. CASE /\ pr.merged = Nil /\ pr'.merged = Nil /\ pr'.created = pr.created
             /\ \/ pr'.changed = Append(pr.changed, x)
                \/ pr'.changed = Append(Append(pr.changed, x), x)
    <3> DEFINE g == Given(pr.created)
               h == pr.changed
               a == Append(h, x)
               b == Append(a, x)
    <3>1. g \in Seq(Time)
      BY DEF TimelineInv, TypeOK, Given
    <3>2. /\ h \in Seq(Time) /\ a \in Seq(Time) /\ b \in Seq(Time)
          /\ s = g \o h /\ s \in Seq(Time)
      BY <1>2, <1>4, AppendProperties DEF Before
    <3>3. /\ Stamps = s
          /\ \/ Stamps' = (g \o a) \o <<>>
             \/ Stamps' = (g \o b) \o <<>>
      BY <1>4, <2>1, <2>2, <2>6
    <3> HIDE DEF g, h, s, x
    <3>4. g \o a = Append(g \o h, x) /\ g \o b = Append(g \o a, x)
      BY <1>2, <3>1, <3>2, AppendConcat
    <3>5. g \o a \in Seq(Time) /\ g \o b \in Seq(Time)
      BY <3>1, <3>2, ConcatProperties
    <3>6. (g \o a) \o <<>> = g \o a /\ (g \o b) \o <<>> = g \o b
      BY <3>5, ConcatEmptySeq
    <3> QED BY <3>2, <3>3, <3>4, <3>6
  <2> QED BY <1>3, <2>3, <2>4, <2>5, <2>6
<1>6. /\ Past(Stamps)' /\ Follows(Stamps)'
  <2>1. Stamps \in Seq(Time)
    BY StampsParts DEF TimelineInv
  <2>2. /\ Append(Stamps, x) \in Seq(Time)
        /\ Past(Append(Stamps, x)) /\ Follows(Append(Stamps, x))
    BY <1>2, <1>4, <2>1, AppendStamp, TimelineAssumption
  <2>3. Past(Append(Append(Stamps, x), x)) /\ Follows(Append(Append(Stamps, x), x))
    BY <1>2, <2>2, AppendStamp, TimelineAssumption
  <2>4. \E u : u = Stamps' /\ Past(u) /\ Follows(u)
    BY <1>4, <1>5, <2>2, <2>3
  <2> QED BY <1>1, <2>4 DEF Past, Follows
<1>7. MergesAgree' /\ merges' \subseteq Time
  <2>1. /\ merges \subseteq Time /\ merges \subseteq {pr.merged}
        /\ pr.created = Nil => pr.merged = Nil
    BY DEF TimelineInv, TypeOK, MergesAgree
  <2>2. pr.merged = Nil => merges = {}
    BY <2>1, TimelineAssumption DEF Time
  <2>3. pr'.merged # Nil => pr'.merged \in Time
    BY <1>3
  <2>4. merges \subseteq {pr'.merged}
    BY <1>3, <2>1, <2>2
  <2>5. merges' \subseteq {pr'.merged} /\ merges' \subseteq Time
    BY <1>1, <1>3, <2>1, <2>3, <2>4
  <2> QED BY <2>5 DEF MergesAgree
<1>8. TypeOK'
  <2>1. \A d \in Client : holder' = d <=> tx'[d].pc = "commit"
    BY <1>1, IdleHandler, TimelineAssumption DEF TimelineInv, TypeOK
  <2>2. tx' \in [Client -> [pc : {"idle", "begin", "lock", "commit"},
                           op : Operation \cup {Nil},
                           deadline : Nat \cup {Nil}, now : Time \cup {Nil}]]
    BY <1>1, IdleHandler DEF TimelineInv, TypeOK
  <2> QED BY <1>1, <1>2, <1>3, <1>7, <2>1, <2>2, Zenon DEF TypeOK, Time
<1>9. ASSUME NEW d \in Client PROVE Timely(tx[d])' /\ Permitted(tx[d])'
  <2>1. CASE d = c
    BY <1>1, <2>1 DEF TimelineInv, TypeOK, Timely, Permitted, Idle
  <2>2. CASE d # c
    <3>1. tx'[d] = tx[d] /\ tx[d].pc # "commit"
      BY <1>1, <2>2 DEF TimelineInv, TypeOK
    <3> QED BY <1>1, <3>1 DEF TimelineInv, Timely, Permitted
  <2> QED BY <2>1, <2>2
<1> QED
  BY <1>6, <1>7, <1>8, <1>9 DEF TimelineInv

-------------------------------------------------------------------------------
\* Nothing has happened at the start.
LEMMA TimelineInvInit == Init => TimelineInv
<1> SUFFICES ASSUME Init PROVE TimelineInv
  OBVIOUS
<1>1. /\ clock = 0 /\ 0 \in Time /\ pr.created = Nil /\ pr.merged = Nil
      /\ pr.changed = <<>> /\ merges = {} /\ holder = Nil
      /\ pr = [created |-> Nil, merged |-> Nil, changed |-> <<>>]
      /\ tx = [c \in Client |-> Idle]
  BY TimelineAssumption DEF Init, Time
<1>2. TypeOK
  BY <1>1, IdleHandler, TimelineAssumption DEF TypeOK
<1>3. Stamps = <<>>
  BY <1>1, <1>2, StampsParts
<1>4. Past(Stamps) /\ Follows(Stamps)
  BY <1>3 DEF Past, Follows
<1>5. MergesAgree
  BY <1>1 DEF MergesAgree
<1>6. \A c \in Client : Timely(tx[c]) /\ Permitted(tx[c])
  BY <1>1, IdleHandler
<1> QED
  BY <1>2, <1>4, <1>5, <1>6 DEF TimelineInv

\* Every step keeps TimelineInv.
LEMMA TimelineInvNext == TimelineInv /\ [Next]_vars => TimelineInv'
<1> SUFFICES ASSUME TimelineInv, [Next]_vars PROVE TimelineInv'
  OBVIOUS
<1>1. CASE UNCHANGED vars
  BY <1>1 DEF vars, TimelineInv, TypeOK, Timely, Permitted, Past, Follows,
              Stamps, MergesAgree
<1>2. ASSUME NEW c \in Client,
             Receive(c) \/ Begin(c) \/ Lock(c) \/ Commit(c) \/ Expire(c)
      PROVE  TimelineInv'
  BY <1>2, ReceiveTimely, BeginTimely, LockTimely, CommitTimely, ExpireTimely
<1> QED
  BY <1>1, <1>2, TickTimely DEF Next

\* For any number of handlers, any timeout and any lag: the invariant that
\* relates the transactions in flight to the clock and to the row they lock.
THEOREM TimelineHolds == Spec => []TimelineInv
BY TimelineInvInit, TimelineInvNext, PTL DEF Spec

\* The times are times, only a transaction about to commit has the row lock,
\* and a PR that was not created has no other time.
THEOREM TimelineTypesHold == Spec => []TypeOK
<1>1. TimelineInv => TypeOK
  BY DEF TimelineInv
<1> QED
  BY <1>1, TimelineHolds, PTL

\* created_at, changed_at and merged_at disagree with the order of the
\* commits by no more than a request's timeout and the lag, however long the
\* history is.
THEOREM StampsAreInOrder == Spec => []StampsFollowCommits
<1>1. TimelineInv => StampsFollowCommits
  BY DEF TimelineInv, Follows, StampsFollowCommits
<1> QED
  BY <1>1, TimelineHolds, PTL

\* All merges of a PR that succeed answer the same merged_at.
THEOREM MergesAnswerAlike == Spec => []MergesAgree
<1>1. TimelineInv => MergesAgree
  BY DEF TimelineInv
<1> QED
  BY <1>1, TimelineHolds, PTL

===============================================================================
