---------------------------- MODULE ReviewTxProofs ----------------------------
(***************************************************************************)
(* Proofs about ReviewTx, for any number of clients, users, teams and PRs, *)
(* any requests and any initial database that respects the schema: types,  *)
(* and what the row locks buy.                                             *)
(***************************************************************************)
EXTENDS ReviewTx, SequenceTheorems, TLAPS

-------------------------------------------------------------------------------
(* Types.  TypeOK is not inductive: the type of what a statement writes    *)
(* depends on which request the client is serving and on what it has       *)
(* read.  Shape says, label by label, what the statement relies on.        *)

DeactivateLabel ==
  {"selectTeamIDForDeactivate", "deactivateUsersQuery",
   "selectImpactedPRsQuery", "lockImpacted", "selectPRStatusQuery",
   "activeReplacementQuery"}

Shape(t, us, ps) ==
  /\ t.pc = "idle" => t = Idle
  /\ t.pc # "idle" => t.req \in AnyRequest
  /\ t.pc \in {"selectAuthorQuery", "insertPRQuery", "selectCandidatesQuery"}
       => t.req.op = "CreatePR"
  /\ t.pc = "selectPRForUpdateQuery"
       => t.req.op \in {"MergePR", "ReassignReviewer"}
  /\ t.pc \in {"selectReviewerTeamQuery", "selectReplacementCandidatesQuery"}
       => t.req.op = "ReassignReviewer" /\ ps[t.req.pr] # Nil
  /\ t.pc \in {"setUserActiveQuery", "updated"}
       => t.req.op = "SetUserActive"
  /\ t.pc = "updated" => us[t.req.user] # Nil
  /\ t.pc \in {"insertTeamQuery", "upsertUserQuery", "selectTeamIDQuery"}
       => t.req.op = "CreateTeam"
  /\ t.pc = "upsertUserQuery" => t.members # <<>>
  /\ t.pc \in DeactivateLabel => t.req.op = "DeactivateTeam"
  /\ t.pc = "deactivateUsersQuery"
       => /\ t.team \in Team
          /\ t.at \in User /\ us[t.at] # Nil
          /\ \A u \in t.todo : u \in User /\ us[u] # Nil
  /\ t.pc = "lockImpacted"
       => /\ t.at \in PR /\ ps[t.at] # Nil
          /\ \A p \in t.todo : p \in PR /\ ps[p] # Nil
  /\ \A p \in t.impacted : ps[p] # Nil
  /\ t.pc = "activeReplacementQuery"
       => t.at \in PR /\ ps[t.at] # Nil /\ t.todo \subseteq User

TypeInv == TypeOK /\ \A c \in Client : Shape(tx[c], users, prs)

\* The tables have their types and keep their rows.
TablesStep ==
  /\ [teams |-> teams', users |-> users', prs |-> prs',
      reviewers |-> reviewers', history |-> history'] \in Database
  /\ \A u \in User : users[u] # Nil => users'[u] # Nil
  /\ \A p \in PR : prs[p] # Nil => prs'[p] # Nil

\* The fields a request of each operation has.
LEMMA RequestFields ==
  ASSUME NEW r \in AnyRequest
  PROVE  /\ r.op \in {"CreatePR", "MergePR", "ReassignReviewer",
                      "SetUserActive", "CreateTeam", "DeactivateTeam"}
         /\ r.op \in {"CreatePR", "MergePR", "ReassignReviewer"} => r.pr \in PR
         /\ r.op \in {"CreatePR", "ReassignReviewer", "SetUserActive"}
              => r.user \in User
         /\ r.op = "SetUserActive" => r.active \in BOOLEAN
         /\ r.op \in {"CreateTeam", "DeactivateTeam"} => r.team \in Team
         /\ r.op = "CreateTeam" => r.members \in Seq(Member)
BY DEF AnyRequest

\* A handler between requests is well-formed.
LEMMA IdleShape ==
  /\ Idle \in Transaction
  /\ Shape(Idle, users, prs)
BY DEF Idle, Transaction, Shape, Label, DeactivateLabel, Row

\* Shape only relies on rows being there, and rows are never deleted.
LEMMA ShapeStable ==
  ASSUME NEW t \in Transaction, Shape(t, users, prs), TablesStep
  PROVE  Shape(t, users', prs')
BY RequestFields DEF Shape, TablesStep, Transaction

\* The types of the five tables, one by one.
LEMMA DatabaseFields ==
  ASSUME TypeOK
  PROVE  /\ teams \in SUBSET Team
         /\ users \in [User -> UserRow \cup {Nil}]
         /\ prs \in [PR -> PrRow \cup {Nil}]
         /\ reviewers \in SUBSET (PR \X User)
         /\ history \in [PR -> Seq(Event)]
BY DEF TypeOK, Database

\* A step that replaces only c's transaction, by one that has its type and
\* shape, keeps the types.
LEMMA ProceedTypes ==
  ASSUME TypeInv, NEW c \in Client, NEW next \in Transaction,
         Shape(next, users, prs), Proceed(c, next)
  PROVE  TypeInv'
<1>1. TypeOK'
  BY DEF TypeInv, TypeOK, Proceed
<1>2. \A d \in Client : Shape(tx'[d], users, prs)
  BY DEF TypeInv, TypeOK, Proceed
<1>3. users' = users /\ prs' = prs
  BY DEF Proceed
<1> QED
  BY <1>1, <1>2, <1>3 DEF TypeInv

\* So does the end of a request.
LEMMA FinishTypes ==
  ASSUME TypeInv, NEW c \in Client, NEW answer \in Answer,
         Finish(c, answer), TablesStep
  PROVE  TypeInv'
<1>1. TypeOK'
  BY IdleShape DEF TypeInv, TypeOK, Finish, TablesStep
<1>2. ASSUME NEW d \in Client PROVE Shape(tx'[d], users', prs')
  <2>1. CASE d = c
    BY <2>1, IdleShape, ShapeStable DEF TypeInv, TypeOK, Finish
  <2>2. CASE d # c
    BY <2>2, ShapeStable DEF TypeInv, TypeOK, Finish
  <2> QED BY <2>1, <2>2
<1> QED
  BY <1>1, <1>2 DEF TypeInv

\* A rollback keeps the types of TypeInv.
LEMMA FailTypes ==
  ASSUME TypeInv, NEW c \in Client, NEW err \in Answer, Fail(c, err)
  PROVE  TypeInv'
<1>1. TablesStep
  BY DEF Fail, tables, TablesStep, TypeInv, TypeOK
<1> QED
  BY <1>1, FinishTypes DEF Fail

\* COMMIT writes rows of the right type and deletes none.
LEMMA PublishTables ==
  ASSUME TypeInv, NEW c \in Client, Publish(c)
  PROVE  TablesStep
<1> tx[c] \in Transaction
  BY DEF TypeInv, TypeOK
<1>1. teams' \in SUBSET Team
  BY DatabaseFields DEF TypeInv, Publish, Transaction
<1>2. /\ users' \in [User -> UserRow \cup {Nil}]
      /\ \A u \in User : users[u] # Nil => users'[u] # Nil
  BY DatabaseFields DEF TypeInv, Publish, UsersSeenBy, Transaction
<1>3. /\ prs' \in [PR -> PrRow \cup {Nil}]
      /\ \A p \in PR : prs[p] # Nil => prs'[p] # Nil
  BY DatabaseFields DEF TypeInv, Publish, PrsSeenBy, Transaction
<1>4. reviewers' \in SUBSET (PR \X User)
  BY DatabaseFields DEF TypeInv, Publish, ReviewersSeenBy, Transaction
<1>5. history' \in [PR -> Seq(Event)]
  <2>1. ASSUME NEW p \in PR PROVE history[p] \o tx[c].wLog[p] \in Seq(Event)
    BY DatabaseFields, ConcatProperties DEF TypeInv, Transaction
  <2> QED BY <2>1 DEF Publish
<1> QED
  BY <1>1, <1>2, <1>3, <1>4, <1>5 DEF TablesStep, Database

-------------------------------------------------------------------------------
(* One lemma per action.                                                   *)

\* Every client's transaction is well-formed.
LEMMA TxOfClient ==
  ASSUME TypeInv, NEW c \in Client
  PROVE  tx[c] \in Transaction /\ Shape(tx[c], users, prs)
BY DEF TypeInv, TypeOK

\* A transaction with another label and request is one.
LEMMA StartedTransaction ==
  ASSUME NEW t \in Transaction, NEW label \in Label, NEW r \in AnyRequest
  PROVE  [t EXCEPT !.pc = label, !.req = r] \in Transaction
BY Zenon DEF Transaction

\* A request that arrives (its transaction begins) keeps the types of TypeInv.
LEMMA BeginTypes ==
  ASSUME TypeInv, NEW c \in Client, NEW r \in AnyRequest, Begin(c, r)
  PROVE  TypeInv'
<1> tx[c] \in Transaction /\ Shape(tx[c], users, prs)
  BY TxOfClient
<1>1. tx' = [tx EXCEPT ![c].pc = FirstStatement[r.op], ![c].req = r]
  BY DEF Begin
<1> DEFINE next == [Idle EXCEPT !.pc = FirstStatement[r.op], !.req = r]
<1>2. r \in AnyRequest
  OBVIOUS
<1>3. tx[c] = Idle
  BY DEF Begin, Shape
<1>4a. /\ r.op \in DOMAIN FirstStatement
       /\ FirstStatement[r.op] \in Label \ {"idle"}
  BY <1>2, RequestFields DEF FirstStatement, Label
<1>4b. next \in Transaction
  BY <1>2, <1>4a, IdleShape, StartedTransaction, Zenon
<1>4c. Shape(next, users, prs)
  BY <1>2, <1>4a, RequestFields DEF FirstStatement, DeactivateLabel, Shape, Idle
<1>4. next \in Transaction /\ Shape(next, users, prs)
  BY <1>4b, <1>4c
<1>5. tx' = [tx EXCEPT ![c] = next]
  BY <1>1, <1>3 DEF TypeInv, TypeOK, Idle
<1>6. users' = users /\ prs' = prs
  BY DEF Begin, tables
<1>a. tx' \in [Client -> Transaction]
  BY <1>4, <1>5 DEF TypeInv, TypeOK
<1>b. issued' \in 0..MaxRequests
  BY MaxRequestsAssumption DEF Begin, TypeInv, TypeOK
<1>7. TypeOK'
  BY <1>a, <1>b DEF Begin, TypeInv, TypeOK, tables
<1>8. \A d \in Client : Shape(tx'[d], users, prs)
  BY <1>4, <1>5 DEF TypeInv, TypeOK
<1> QED
  BY <1>6, <1>7, <1>8 DEF TypeInv

\* CreatePR's look-up of the author keeps the types of TypeInv.
LEMMA SelectAuthorTypes ==
  ASSUME TypeInv, NEW c \in Client, SelectAuthor(c)
  PROVE  TypeInv'
<1> tx[c] \in Transaction /\ Shape(tx[c], users, prs)
  BY TxOfClient
<1> DEFINE author == users[tx[c].req.user]
           next == [tx[c] EXCEPT !.pc = "insertPRQuery", !.team = author.team]
<1>1. CASE Fail(c, "ErrUserNotFound") \/ Fail(c, "ErrInvalidArgument")
  BY <1>1, FailTypes DEF Answer
<1>2. CASE author # Nil /\ Proceed(c, next)
  <2>1. author \in UserRow
    BY <1>2, RequestFields, DatabaseFields
       DEF SelectAuthor, Shape, TypeInv
  <2>a. "insertPRQuery" \in Label /\ author.team \in Team
    BY <2>1 DEF Label, UserRow
  <2>2. next \in Transaction
    BY <2>a, Zenon DEF Transaction
  <2>3. Shape(next, users, prs)
    BY DEF SelectAuthor, Shape, Transaction, DeactivateLabel
  <2> QED BY <1>2, <2>2, <2>3, ProceedTypes
<1> QED
  BY <1>1, <1>2 DEF SelectAuthor

\* CreatePR's INSERT of the PR keeps the types of TypeInv.
LEMMA InsertPRTypes ==
  ASSUME TypeInv, NEW c \in Client, InsertPR(c)
  PROVE  TypeInv'
<1> tx[c] \in Transaction /\ Shape(tx[c], users, prs)
  BY TxOfClient
<1> DEFINE p == tx[c].req.pr
           next == [tx[c] EXCEPT
             !.pc = "selectCandidatesQuery",
             !.locks = @ \cup {p},
             !.wPrs[p] = [author |-> tx[c].req.user, status |-> "OPEN"]]
<1>1. CASE Fail(c, "ErrPRExists")
  BY <1>1, FailTypes DEF Answer
<1>2. CASE Proceed(c, next)
  <2>1. p \in PR /\ tx[c].req.user \in User
    BY RequestFields DEF InsertPR, Shape
  <2>a. [author |-> tx[c].req.user, status |-> "OPEN"] \in PrRow
    BY <2>1 DEF PrRow, Status
  <2>b. /\ "selectCandidatesQuery" \in Label
        /\ tx[c].locks \cup {p} \in SUBSET Row
        /\ [tx[c].wPrs EXCEPT
              ![p] = [author |-> tx[c].req.user, status |-> "OPEN"]]
             \in [PR -> PrRow \cup {Nil}]
    BY <2>1, <2>a DEF Transaction, Label, Row
  <2>2. next \in Transaction
    BY <2>b, Zenon DEF Transaction
  <2>3. Shape(next, users, prs)
    BY <2>1 DEF InsertPR, Shape, Transaction, DeactivateLabel
  <2> QED BY <1>2, <2>2, <2>3, ProceedTypes
<1> QED
  BY <1>1, <1>2 DEF InsertPR

\* CreatePR's draw of reviewers keeps the types of TypeInv.
LEMMA SelectCandidatesTypes ==
  ASSUME TypeInv, NEW c \in Client, SelectCandidates(c)
  PROVE  TypeInv'
<1> tx[c] \in Transaction /\ Shape(tx[c], users, prs)
  BY TxOfClient
<1> DEFINE p == tx[c].req.pr
           next(R) == [tx[c] EXCEPT !.pc = "commit", !.seen = R,
                                    !.wAdd = @ \cup ({p} \X R)]
<1>1. PICK R \in SUBSET User : Proceed(c, next(R))
  BY DEF SelectCandidates, PickRandom, TeamCandidates, ActiveUsers
<1>2. p \in PR
  BY RequestFields DEF SelectCandidates, Shape
<1>a. tx[c].wAdd \cup ({p} \X R) \in SUBSET (PR \X User)
  BY <1>2 DEF Transaction
<1>b. "commit" \in Label
  BY DEF Label
<1>3. next(R) \in Transaction
  BY <1>a, <1>b, Zenon DEF Transaction
<1>4. Shape(next(R), users, prs)
  BY DEF SelectCandidates, Shape, Transaction, DeactivateLabel
<1> QED
  BY <1>1, <1>3, <1>4, ProceedTypes

\* MergePR's SELECT ... FOR UPDATE and UPDATE keeps the types of TypeInv.
LEMMA SelectPRForMergeTypes ==
  ASSUME TypeInv, NEW c \in Client, SelectPRForMerge(c)
  PROVE  TypeInv'
<1> tx[c] \in Transaction /\ Shape(tx[c], users, prs)
  BY TxOfClient
<1> DEFINE p == tx[c].req.pr
           next == [tx[c] EXCEPT
             !.pc = "commit",
             !.locks = @ \cup {p},
             !.seen = ReviewersOf(reviewers, p),
             !.wPrs[p] = IF prs[p].status = "MERGED" THEN Nil
                         ELSE [prs[p] EXCEPT !.status = "MERGED"]]
<1>1. CASE Fail(c, "ErrPRNotFound")
  BY <1>1, FailTypes DEF Answer
<1>2. CASE prs[p] # Nil /\ Proceed(c, next)
  <2>1. p \in PR
    BY RequestFields DEF SelectPRForMerge, Shape
  <2>2. prs[p] \in PrRow
    BY <1>2, <2>1, DatabaseFields DEF TypeInv
  <2> DEFINE row == IF prs[p].status = "MERGED" THEN Nil
                    ELSE [prs[p] EXCEPT !.status = "MERGED"]
  <2>a. row \in PrRow \cup {Nil} /\ ReviewersOf(reviewers, p) \in SUBSET User
    BY <2>2 DEF PrRow, Status, ReviewersOf
  <2>b. [tx[c].wPrs EXCEPT ![p] = row] \in [PR -> PrRow \cup {Nil}]
    BY <2>a DEF Transaction
  <2> HIDE DEF row
  <2>c. tx[c].locks \cup {p} \in SUBSET Row /\ "commit" \in Label
    BY <2>1 DEF Transaction, Row, Label
  <2>3. next \in Transaction
    BY <2>a, <2>b, <2>c, Zenon DEF Transaction, row
  <2>4. Shape(next, users, prs)
    BY DEF SelectPRForMerge, Shape, Transaction, DeactivateLabel
  <2> QED BY <1>2, <2>3, <2>4, ProceedTypes
<1> QED
  BY <1>1, <1>2 DEF SelectPRForMerge

\* ReassignReviewer's SELECT ... FOR UPDATE and checks keeps the types of
\* TypeInv.
LEMMA SelectPRForReassignTypes ==
  ASSUME TypeInv, NEW c \in Client, SelectPRForReassign(c)
  PROVE  TypeInv'
<1> tx[c] \in Transaction /\ Shape(tx[c], users, prs)
  BY TxOfClient
<1> DEFINE p == tx[c].req.pr
           next == [tx[c] EXCEPT
             !.pc = "selectReviewerTeamQuery",
             !.locks = @ \cup {p},
             !.seen = ReviewersOf(reviewers, p)]
<1>1. CASE \E err \in {"ErrPRNotFound", "ErrPRMerged", "ErrNotAssigned"} :
             Fail(c, err)
  BY <1>1, FailTypes DEF Answer
<1>2. CASE prs[p] # Nil /\ Proceed(c, next)
  <2>1. p \in PR
    BY RequestFields DEF SelectPRForReassign, Shape
  <2>a. /\ "selectReviewerTeamQuery" \in Label
        /\ tx[c].locks \cup {p} \in SUBSET Row
        /\ ReviewersOf(reviewers, p) \in SUBSET User
    BY <2>1 DEF Transaction, Label, Row, ReviewersOf
  <2>2. next \in Transaction
    BY <2>a, Zenon DEF Transaction
  <2>3. Shape(next, users, prs)
    BY <1>2
       DEF SelectPRForReassign, Shape, Transaction, DeactivateLabel
  <2> QED BY <1>2, <2>2, <2>3, ProceedTypes
<1> QED
  BY <1>1, <1>2 DEF SelectPRForReassign

\* ReassignReviewer's look-up of the old reviewer's team keeps the types of
\* TypeInv.
LEMMA SelectReviewerTeamTypes ==
  ASSUME TypeInv, NEW c \in Client, SelectReviewerTeam(c)
  PROVE  TypeInv'
<1> tx[c] \in Transaction /\ Shape(tx[c], users, prs)
  BY TxOfClient
<1> DEFINE old == users[tx[c].req.user]
           next == [tx[c] EXCEPT !.pc = "selectReplacementCandidatesQuery",
                                 !.team = old.team]
<1>1. CASE Fail(c, "ErrUserNotFound")
  BY <1>1, FailTypes DEF Answer
<1>2. CASE old # Nil /\ Proceed(c, next)
  <2>1. old \in UserRow
    BY <1>2, RequestFields, DatabaseFields
       DEF SelectReviewerTeam, Shape, TypeInv
  <2>a. "selectReplacementCandidatesQuery" \in Label /\ old.team \in Team
    BY <2>1 DEF Label, UserRow
  <2>2. next \in Transaction
    BY <2>a, Zenon DEF Transaction
  <2>3. Shape(next, users, prs)
    BY DEF SelectReviewerTeam, Shape, Transaction, DeactivateLabel
  <2> QED BY <1>2, <2>2, <2>3, ProceedTypes
<1> QED
  BY <1>1, <1>2 DEF SelectReviewerTeam

\* ReassignReviewer's draw and swap keeps the types of TypeInv.
LEMMA SelectReplacementTypes ==
  ASSUME TypeInv, NEW c \in Client, SelectReplacement(c)
  PROVE  TypeInv'
<1> tx[c] \in Transaction /\ Shape(tx[c], users, prs)
  BY TxOfClient
<1> DEFINE p == tx[c].req.pr
           old == tx[c].req.user
           next(new) == [tx[c] EXCEPT
               !.pc = "commit",
               !.seen = (@ \ {old}) \cup {new},
               !.wDel = @ \cup {<<p, old>>},
               !.wAdd = @ \cup {<<p, new>>},
               !.wLog[p] = Append(@, Logged(old, new))]
<1>1. CASE Fail(c, "ErrNoCandidate")
  BY <1>1, FailTypes DEF Answer
<1>2. CASE \E new \in User : Proceed(c, next(new))
  <2>1. PICK new \in User : Proceed(c, next(new))
    BY <1>2
  <2>2. p \in PR /\ old \in User
    BY RequestFields DEF SelectReplacement, Shape
  <2>a. tx[c].wLog[p] \in Seq(Event) /\ Logged(old, new) \in Event
    BY <2>2 DEF Transaction, Logged, Event
  <2>3. Append(tx[c].wLog[p], Logged(old, new)) \in Seq(Event)
    BY <2>a, AppendProperties
  <2>b. [tx[c].wLog EXCEPT ![p] = Append(@, Logged(old, new))]
          \in [PR -> Seq(Event)]
    BY <2>3 DEF Transaction
  <2>c. /\ tx[c].wDel \cup {<<p, old>>} \in SUBSET (PR \X User)
        /\ tx[c].wAdd \cup {<<p, new>>} \in SUBSET (PR \X User)
        /\ (tx[c].seen \ {old}) \cup {new} \in SUBSET User
        /\ "commit" \in Label
    BY <2>2 DEF Transaction, Label
  <2>4. next(new) \in Transaction
    BY <2>b, <2>c, Zenon DEF Transaction
  <2>5. Shape(next(new), users, prs)
    BY DEF SelectReplacement, Shape, Transaction, DeactivateLabel
  <2> QED BY <2>1, <2>4, <2>5, ProceedTypes
<1> QED
  BY <1>1, <1>2 DEF SelectReplacement, TeamCandidates, ActiveUsers

\* The start of SetUserActive's statement keeps the types of TypeInv.
LEMMA StartSetUserActiveTypes ==
  ASSUME TypeInv, NEW c \in Client, StartSetUserActive(c)
  PROVE  TypeInv'
<1> tx[c] \in Transaction /\ Shape(tx[c], users, prs)
  BY TxOfClient
<1> DEFINE next == [tx[c] EXCEPT !.pc = "updated", !.snapshot = teams]
<1>1. CASE Fail(c, "ErrUserNotFound")
  BY <1>1, FailTypes DEF Answer
<1>2. CASE users[tx[c].req.user] # Nil /\ Proceed(c, next)
  <2>1. teams \in SUBSET Team /\ "updated" \in Label
    BY DatabaseFields DEF TypeInv, Label
  <2>2. next \in Transaction
    BY <2>1, Zenon DEF Transaction
  <2>3. Shape(next, users, prs)
    BY <1>2 DEF StartSetUserActive, Shape, Transaction, DeactivateLabel
  <2> QED BY <1>2, <2>2, <2>3, ProceedTypes
<1> QED
  BY <1>1, <1>2 DEF StartSetUserActive

\* SetUserActive's UPDATE keeps the types of TypeInv.
LEMMA UpdateUserActiveTypes ==
  ASSUME TypeInv, NEW c \in Client, UpdateUserActive(c)
  PROVE  TypeInv'
<1> tx[c] \in Transaction /\ Shape(tx[c], users, prs)
  BY TxOfClient
<1> DEFINE u == tx[c].req.user
<1>1. u \in User /\ tx[c].req.active \in BOOLEAN /\ users[u] # Nil
  BY RequestFields DEF UpdateUserActive, Shape
<1>2. /\ users \in [User -> UserRow \cup {Nil}]
      /\ users' = [users EXCEPT ![u].active = tx[c].req.active]
  BY DatabaseFields DEF TypeInv, UpdateUserActive
<1>3. [users[u] EXCEPT !.active = tx[c].req.active] \in UserRow
  BY <1>1, <1>2 DEF UserRow
<1>4. /\ users' \in [User -> UserRow \cup {Nil}]
      /\ \A w \in User : users[w] # Nil => users'[w] # Nil
  BY <1>1, <1>2, <1>3, NilAssumption
<1>5. TablesStep
  BY <1>4, DatabaseFields DEF TypeInv, UpdateUserActive, TablesStep, Database
<1>6. \E answer \in Answer : Finish(c, answer)
  BY DEF UpdateUserActive, Answer
<1> QED
  BY <1>5, <1>6, FinishTypes

\* CreateTeam's INSERT of the team keeps the types of TypeInv.
LEMMA InsertTeamTypes ==
  ASSUME TypeInv, NEW c \in Client, InsertTeam(c)
  PROVE  TypeInv'
<1> tx[c] \in Transaction /\ Shape(tx[c], users, prs)
  BY TxOfClient
<1> DEFINE t == tx[c].req.team
           next == [tx[c] EXCEPT !.pc = AfterMember(tx[c].req.members),
                                 !.locks = @ \cup {t},
                                 !.members = tx[c].req.members,
                                 !.wTeams = @ \cup {t}]
<1>1. CASE Fail(c, "ErrTeamExists")
  BY <1>1, FailTypes DEF Answer
<1>2. CASE Proceed(c, next)
  <2>1. t \in Team /\ tx[c].req.members \in Seq(Member)
    BY RequestFields DEF InsertTeam, Shape
  <2>2. /\ tx[c].locks \cup {t} \in SUBSET Row
        /\ tx[c].wTeams \cup {t} \in SUBSET Team
    BY <2>1 DEF Transaction, Row
  <2>3. AfterMember(tx[c].req.members) \in Label
    BY DEF AfterMember, Label
  <2>4. next \in Transaction
    BY <2>1, <2>2, <2>3, Zenon DEF Transaction
  <2>5. Shape(next, users, prs)
    BY DEF InsertTeam, Shape, Transaction, DeactivateLabel, AfterMember
  <2> QED BY <1>2, <2>4, <2>5, ProceedTypes
<1> QED
  BY <1>1, <1>2 DEF InsertTeam

\* CreateTeam's upsert of one member keeps the types of TypeInv.
LEMMA UpsertUserTypes ==
  ASSUME TypeInv, NEW c \in Client, UpsertUser(c)
  PROVE  TypeInv'
<1> tx[c] \in Transaction /\ Shape(tx[c], users, prs)
  BY TxOfClient
<1> DEFINE m == Head(tx[c].members)
           row == [team |-> tx[c].req.team, active |-> m.active]
           next == [tx[c] EXCEPT
             !.pc = AfterMember(Tail(tx[c].members)),
             !.locks = @ \cup {m.id},
             !.members = Tail(@),
             !.wUsers[m.id] = row]
<1>1. tx[c].members \in Seq(Member) /\ tx[c].members # <<>>
  BY DEF UpsertUser, Shape, Transaction
<1>2. m \in Member /\ Tail(tx[c].members) \in Seq(Member)
  BY <1>1
<1>3. m.id \in User /\ row \in UserRow
  BY <1>2, RequestFields DEF Member, UserRow, UpsertUser, Shape
<1>4. /\ AfterMember(Tail(tx[c].members)) \in Label
      /\ tx[c].locks \cup {m.id} \in SUBSET Row
      /\ [tx[c].wUsers EXCEPT ![m.id] = row] \in [User -> UserRow \cup {Nil}]
  BY <1>3 DEF AfterMember, Label, Transaction, Row
<1> HIDE DEF row, m
<1>5. next \in Transaction
  BY <1>2, <1>4, Zenon DEF Transaction
<1>6. Shape(next, users, prs)
  BY DEF UpsertUser, Shape, Transaction, DeactivateLabel, AfterMember
<1>7. Proceed(c, next)
  BY DEF UpsertUser, m, row
<1> QED
  BY <1>5, <1>6, <1>7, ProceedTypes

\* CreateTeam's read of its answer keeps the types of TypeInv.
LEMMA GetTeamTypes ==
  ASSUME TypeInv, NEW c \in Client, GetTeam(c)
  PROVE  TypeInv'
<1> tx[c] \in Transaction /\ Shape(tx[c], users, prs)
  BY TxOfClient
<1>1. \E answer \in Answer : Fail(c, answer)
  BY DEF GetTeam, Fail, Answer
<1> QED
  BY <1>1, FailTypes

\* The start of DeactivateTeam's UPDATE keeps the types of TypeInv.
LEMMA SelectTeamForDeactivateTypes ==
  ASSUME TypeInv, NEW c \in Client, SelectTeamForDeactivate(c)
  PROVE  TypeInv'
<1> tx[c] \in Transaction /\ Shape(tx[c], users, prs)
  BY TxOfClient
<1> DEFINE t == tx[c].req.team
           rows == {u \in ActiveUsers(users) : users[u].team = t}
           label(r) == IF r = Nil THEN "commit" ELSE "deactivateUsersQuery"
           next(r) == [tx[c] EXCEPT
               !.pc = label(r),
               !.team = t,
               !.at = r,
               !.todo = rows \ {r}]
<1>1. CASE Fail(c, "ErrTeamNotFound")
  BY <1>1, FailTypes DEF Answer
<1>2. ASSUME NEW r \in NextRow(rows), Proceed(c, next(r)) PROVE TypeInv'
  <2>1. t \in Team
    BY RequestFields DEF SelectTeamForDeactivate, Shape, DeactivateLabel
  <2>2. \A u \in rows : u \in User /\ users[u] # Nil
    BY DEF ActiveUsers
  <2>3. r \in rows \cup {Nil} /\ (r # Nil => r \in rows)
    BY DEF NextRow
  <2> HIDE DEF rows
  <2>4. r \in Row \cup {Nil} /\ rows \ {r} \in SUBSET Row
    BY <2>2, <2>3 DEF Row
  <2>5. /\ label(r) \in {"commit", "deactivateUsersQuery"}
        /\ label(r) = "deactivateUsersQuery" => r # Nil
    OBVIOUS
  <2>6. label(r) \in Label
    BY <2>5 DEF Label
  <2> HIDE DEF label
  <2>7. next(r) \in Transaction
    BY <2>1, <2>4, <2>6, Zenon DEF Transaction
  <2>8. Shape(next(r), users, prs)
    BY <2>1, <2>2, <2>3, <2>5
       DEF SelectTeamForDeactivate, Shape, Transaction, DeactivateLabel
  <2> QED BY <1>2, <2>7, <2>8, ProceedTypes
<1> QED
  BY <1>1, <1>2 DEF SelectTeamForDeactivate

\* DeactivateTeam's UPDATE of one user keeps the types of TypeInv.
LEMMA DeactivateUserTypes ==
  ASSUME TypeInv, NEW c \in Client, DeactivateUser(c)
  PROVE  TypeInv'
<1> tx[c] \in Transaction /\ Shape(tx[c], users, prs)
  BY TxOfClient
<1> DEFINE u == tx[c].at
           match == users[u].team = tx[c].team /\ users[u].active
           hit == IF match THEN tx[c].deactivated \cup {u}
                           ELSE tx[c].deactivated
           label(r) == CASE r # Nil -> "deactivateUsersQuery"
                         [] r = Nil /\ hit = {} -> "commit"
                         [] r = Nil /\ hit # {} -> "selectImpactedPRsQuery"
           row == IF match THEN [users[u] EXCEPT !.active = FALSE]
                           ELSE tx[c].wUsers[u]
           next(r) == [tx[c] EXCEPT
             !.pc = label(r),
             !.locks = @ \cup {u},
             !.at = r,
             !.todo = @ \ {r},
             !.deactivated = hit,
             !.wUsers[u] = row]
<1>1. PICK r \in NextRow(tx[c].todo) : Proceed(c, next(r))
  BY DEF DeactivateUser
<1>2. /\ tx[c].team \in Team /\ u \in User /\ users[u] # Nil
      /\ \A w \in tx[c].todo : w \in User /\ users[w] # Nil
      /\ tx[c].req.op = "DeactivateTeam" /\ tx[c].req \in AnyRequest
      /\ \A p \in tx[c].impacted : prs[p] # Nil
  BY DEF DeactivateUser, Shape, DeactivateLabel
<1>3. r # Nil => r \in tx[c].todo
  BY DEF NextRow
<1>3a. users[u] \in UserRow
  BY <1>2, DatabaseFields DEF TypeInv
<1>3b. [users[u] EXCEPT !.active = FALSE] \in UserRow
  BY <1>3a DEF UserRow
<1>4. row \in UserRow \cup {Nil}
  BY <1>2, <1>3b DEF Transaction
<1>5. hit \in SUBSET User /\ label(r) \in Label
  <2>1. hit \in SUBSET User
    BY <1>2 DEF Transaction
  <2>2. label(r) \in Label
    BY DEF Label
  <2> QED BY <2>1, <2>2
<1>6. label(r) \in {"deactivateUsersQuery", "commit", "selectImpactedPRsQuery"}
  OBVIOUS
<1>7. label(r) = "deactivateUsersQuery" => r # Nil
  OBVIOUS
<1> HIDE DEF hit, row, label
<1>8. /\ [tx[c].wUsers EXCEPT ![u] = row] \in [User -> UserRow \cup {Nil}]
      /\ tx[c].locks \cup {u} \in SUBSET Row
      /\ r \in Row \cup {Nil}
      /\ tx[c].todo \ {r} \in SUBSET Row
  BY <1>2, <1>3, <1>4 DEF Transaction, Row
<1>9. next(r) \in Transaction
  BY <1>5, <1>8, Zenon DEF Transaction
<1>10. Shape(next(r), users, prs)
  BY <1>2, <1>3, <1>6, <1>7 DEF Shape, Transaction, DeactivateLabel
<1> QED
  BY <1>1, <1>9, <1>10, ProceedTypes

\* The start of DeactivateTeam's scan of open PRs keeps the types of TypeInv.
LEMMA SelectImpactedPRsTypes ==
  ASSUME TypeInv, NEW c \in Client, SelectImpactedPRs(c)
  PROVE  TypeInv'
<1> tx[c] \in Transaction /\ Shape(tx[c], users, prs)
  BY TxOfClient
<1> DEFINE rows == ImpactedPRs(prs, reviewers, tx[c].deactivated)
           label(r) == IF r = Nil THEN "commit" ELSE "lockImpacted"
           next(r) == [tx[c] EXCEPT !.pc = label(r),
                                    !.at = r,
                                    !.todo = rows \ {r}]
<1>1. PICK r \in NextRow(rows) : Proceed(c, next(r))
  BY DEF SelectImpactedPRs
<1>2. \A p \in rows : p \in PR /\ prs[p] # Nil
  BY DEF ImpactedPRs
<1>3. r # Nil => r \in rows
  BY DEF NextRow
<1>4. label(r) \in Label /\ (label(r) = "lockImpacted" => r # Nil)
  BY DEF Label
<1>5. label(r) \in {"commit", "lockImpacted"}
  OBVIOUS
<1> HIDE DEF rows, label
<1>6. r \in Row \cup {Nil} /\ rows \ {r} \in SUBSET Row
  BY <1>2, <1>3 DEF Row
<1>7. next(r) \in Transaction
  BY <1>4, <1>6, Zenon DEF Transaction
<1>8. Shape(next(r), users, prs)
  BY <1>2, <1>3, <1>4, <1>5
     DEF SelectImpactedPRs, Shape, Transaction, DeactivateLabel
<1> QED
  BY <1>1, <1>7, <1>8, ProceedTypes

\* DeactivateTeam goes on with the next PR or commits.
LEMMA AfterPRLabel ==
  ASSUME NEW S
  PROVE  /\ AfterPR(S) \in Label
         /\ AfterPR(S) \in {"commit", "selectPRStatusQuery"}
BY DEF AfterPR, Label

\* A transaction with other values of the fields LockImpacted changes is one.
LEMMA LockingTransaction ==
  ASSUME NEW t \in Transaction, NEW label \in Label,
         NEW locks \in SUBSET Row, NEW at \in Row \cup {Nil},
         NEW todo \in SUBSET Row, NEW impacted \in SUBSET PR
  PROVE  [t EXCEPT !.pc = label, !.locks = locks, !.at = at, !.todo = todo,
                   !.impacted = impacted] \in Transaction
BY Zenon DEF Transaction

\* A transaction with other values of the fields ReplaceReviewer changes is
\* one.
LEMMA ReplacingTransaction ==
  ASSUME NEW t \in Transaction, NEW label \in Label,
         NEW todo \in SUBSET Row, NEW seen \in SUBSET User,
         NEW del \in SUBSET (PR \X User), NEW add \in SUBSET (PR \X User),
         NEW log \in [PR -> Seq(Event)]
  PROVE  [t EXCEPT !.pc = label, !.todo = todo, !.seen = seen,
                   !.wDel = del, !.wAdd = add, !.wLog = log] \in Transaction
BY Zenon DEF Transaction

\* FOR UPDATE on one row of that scan keeps the types of TypeInv.
LEMMA LockImpactedTypes ==
  ASSUME TypeInv, NEW c \in Client, LockImpacted(c)
  PROVE  TypeInv'
<1> tx[c] \in Transaction /\ Shape(tx[c], users, prs)
  BY TxOfClient
<1> DEFINE p == tx[c].at
           hit == IF prs[p].status = "OPEN" THEN tx[c].impacted \cup {p}
                                            ELSE tx[c].impacted
           label(r) == IF r # Nil THEN "lockImpacted" ELSE AfterPR(hit)
           next(r) == [tx[c] EXCEPT !.pc = label(r),
                                    !.locks = @ \cup {p},
                                    !.at = r,
                                    !.todo = @ \ {r},
                                    !.impacted = hit]
<1>1. PICK r \in NextRow(tx[c].todo) : Proceed(c, next(r))
  BY DEF LockImpacted
<1>2. /\ p \in PR /\ prs[p] # Nil
      /\ \A q \in tx[c].todo : q \in PR /\ prs[q] # Nil
      /\ \A q \in tx[c].impacted : prs[q] # Nil
      /\ tx[c].req.op = "DeactivateTeam" /\ tx[c].req \in AnyRequest
  BY DEF LockImpacted, Shape, DeactivateLabel
<1>3. r # Nil => r \in tx[c].todo
  BY DEF NextRow
<1>4. /\ label(r) \in Label
      /\ label(r) \in {"lockImpacted", "commit", "selectPRStatusQuery"}
      /\ label(r) = "lockImpacted" => r # Nil
  BY AfterPRLabel DEF Label
<1>5. hit \in SUBSET PR /\ \A q \in hit : prs[q] # Nil
  BY <1>2 DEF Transaction
<1> HIDE DEF hit, label
<1>6. /\ tx[c].locks \cup {p} \in SUBSET Row
      /\ r \in Row \cup {Nil}
      /\ tx[c].todo \ {r} \in SUBSET Row
  BY <1>2, <1>3 DEF Transaction, Row
<1>7. next(r) \in Transaction
  <2>1. label(r) \in Label /\ hit \in SUBSET PR
    BY <1>4, <1>5
  <2> QED BY <2>1, <1>6, LockingTransaction
<1>8. Shape(next(r), users, prs)
  BY <1>2, <1>3, <1>4, <1>5 DEF Shape, Transaction, DeactivateLabel
<1> QED
  BY <1>1, <1>7, <1>8, ProceedTypes

\* One turn of DeactivateTeam's loop over PRs keeps the types of TypeInv.
LEMMA BeginPRTypes ==
  ASSUME TypeInv, NEW c \in Client, BeginPR(c)
  PROVE  TypeInv'
<1> tx[c] \in Transaction /\ Shape(tx[c], users, prs)
  BY TxOfClient
<1> DEFINE existing(p) == ReviewersOf(ReviewersSeenBy(c), p)
           leaving(p) == IF PrsSeenBy(c)[p].status = "OPEN"
                         THEN existing(p) \cap tx[c].deactivated ELSE {}
           label(p) == IF leaving(p) = {} THEN AfterPR(tx[c].impacted \ {p})
                                          ELSE "activeReplacementQuery"
           next(p) == [tx[c] EXCEPT !.pc = label(p),
                                    !.at = p,
                                    !.seen = existing(p),
                                    !.todo = leaving(p),
                                    !.impacted = @ \ {p}]
<1>1. PICK p \in tx[c].impacted : Proceed(c, next(p))
  BY DEF BeginPR
<1>2. /\ p \in PR /\ prs[p] # Nil
      /\ \A q \in tx[c].impacted : prs[q] # Nil
      /\ tx[c].req.op = "DeactivateTeam" /\ tx[c].req \in AnyRequest
  BY DEF BeginPR, Shape, DeactivateLabel, Transaction
<1>3. /\ label(p) \in Label
      /\ label(p) \in {"activeReplacementQuery", "commit",
                       "selectPRStatusQuery"}
  BY AfterPRLabel DEF Label
<1>4. existing(p) \in SUBSET User /\ leaving(p) \in SUBSET User
  BY DEF ReviewersOf
<1> HIDE DEF existing, leaving, label
<1>5. /\ leaving(p) \in SUBSET Row
      /\ p \in Row \cup {Nil}
      /\ tx[c].impacted \ {p} \in SUBSET PR
  BY <1>2, <1>4 DEF Transaction, Row
<1>6. next(p) \in Transaction
  BY <1>3, <1>4, <1>5, Zenon DEF Transaction
<1>7. Shape(next(p), users, prs)
  BY <1>2, <1>3, <1>4 DEF Shape, Transaction, DeactivateLabel
<1> QED
  BY <1>1, <1>6, <1>7, ProceedTypes

\* DeactivateTeam's replacement of one reviewer keeps the types of TypeInv.
LEMMA ReplaceReviewerTypes ==
  ASSUME TypeInv, NEW c \in Client, ReplaceReviewer(c)
  PROVE  TypeInv'
<1> tx[c] \in Transaction /\ Shape(tx[c], users, prs)
  BY TxOfClient
<1> DEFINE p == tx[c].at
           author == PrsSeenBy(c)[p].author
           label(r) == IF tx[c].todo # {r} THEN "activeReplacementQuery"
                                           ELSE AfterPR(tx[c].impacted)
           kept(r) == tx[c].seen \ {r}
           inserted(new) == {new} \ {Nil}
           next(r, new) == [tx[c] EXCEPT
             !.pc = label(r),
             !.todo = @ \ {r},
             !.seen = kept(r) \cup inserted(new),
             !.wDel = @ \cup {<<p, r>>},
             !.wAdd = (@ \ {<<p, r>>}) \cup ({p} \X inserted(new)),
             !.wLog[p] = Append(@, Logged(r, new))]
<1> DEFINE picks(r) ==
             PickReplacement(UsersSeenBy(c), tx[c].team, author, kept(r))
<1>0. PICK r \in tx[c].todo : \E new \in picks(r) : Proceed(c, next(r, new))
  BY DEF ReplaceReviewer
<1>1. PICK new \in picks(r) : Proceed(c, next(r, new))
  BY <1>0
<1>2. /\ p \in PR /\ prs[p] # Nil
      /\ tx[c].todo \subseteq User
      /\ \A q \in tx[c].impacted : prs[q] # Nil
      /\ tx[c].req.op = "DeactivateTeam" /\ tx[c].req \in AnyRequest
  BY DEF ReplaceReviewer, Shape, DeactivateLabel
<1>3. new \in User \cup {Nil}
  BY DEF PickReplacement, NextRow, OtherTeamCandidates, ActiveUsers
<1>4. /\ label(r) \in Label
      /\ label(r) \in {"activeReplacementQuery", "commit",
                       "selectPRStatusQuery"}
  BY AfterPRLabel DEF Label
<1>5. /\ tx[c].todo \ {r} \in SUBSET Row
      /\ kept(r) \cup inserted(new) \in SUBSET User
      /\ tx[c].wDel \cup {<<p, r>>} \in SUBSET (PR \X User)
      /\ (tx[c].wAdd \ {<<p, r>>}) \cup ({p} \X inserted(new))
           \in SUBSET (PR \X User)
  BY <1>2, <1>3 DEF Transaction, Row
<1>6. tx[c].wLog[p] \in Seq(Event) /\ Logged(r, new) \in Event
  BY <1>2, <1>3 DEF Transaction, Logged, Event
<1>7. Append(tx[c].wLog[p], Logged(r, new)) \in Seq(Event)
  BY <1>6, AppendProperties
<1>8. [tx[c].wLog EXCEPT ![p] = Append(@, Logged(r, new))] \in [PR -> Seq(Event)]
  BY <1>7 DEF Transaction
<1> HIDE DEF label, kept, inserted
<1>9. next(r, new) \in Transaction
  <2>1. label(r) \in Label
    BY <1>4
  <2> DEFINE todo == tx[c].todo \ {r}
             seen == kept(r) \cup inserted(new)
             del == tx[c].wDel \cup {<<p, r>>}
             add == (tx[c].wAdd \ {<<p, r>>}) \cup ({p} \X inserted(new))
             log == [tx[c].wLog EXCEPT ![p] = Append(@, Logged(r, new))]
             set == [tx[c] EXCEPT !.pc = label(r), !.todo = todo,
                                  !.seen = seen, !.wDel = del,
                                  !.wAdd = add, !.wLog = log]
  <2>2. next(r, new) = set
    OBVIOUS
  <2>3. /\ todo \in SUBSET Row /\ seen \in SUBSET User
        /\ del \in SUBSET (PR \X User) /\ add \in SUBSET (PR \X User)
        /\ log \in [PR -> Seq(Event)]
    BY <1>5, <1>8
  <2> HIDE DEF todo, seen, del, add, log
  <2>4. set \in Transaction
    BY <2>1, <2>3, ReplacingTransaction
  <2> QED BY <2>2, <2>4
<1>10. Shape(next(r, new), users, prs)
  BY <1>2, <1>4 DEF Shape, Transaction, DeactivateLabel
<1> QED
  BY <1>1, <1>9, <1>10, ProceedTypes

\* COMMIT keeps the types of TypeInv.
LEMMA CommitTypes ==
  ASSUME TypeInv, NEW c \in Client, Commit(c)
  PROVE  TypeInv'
<1> tx[c] \in Transaction /\ Shape(tx[c], users, prs)
  BY TxOfClient
<1>1. TablesStep
  BY PublishTables DEF Commit
<1>2. CASE Finish(c, "ok")
  BY <1>1, <1>2, FinishTypes DEF Answer
<1>3. CASE /\ tx[c].req.op = "CreateTeam"
           /\ tx' = [tx EXCEPT ![c] = [Idle EXCEPT !.pc = "selectTeamIDQuery",
                                                   !.req = tx[c].req]]
           /\ UNCHANGED <<resp, issued>>
  <2> DEFINE next == [Idle EXCEPT !.pc = "selectTeamIDQuery",
                                  !.req = tx[c].req]
  <2>1. tx[c].req \in AnyRequest /\ "selectTeamIDQuery" \in Label
    BY DEF Commit, Shape, Label
  <2>2. next \in Transaction
    BY <2>1, IdleShape, StartedTransaction
  <2>3. Shape(next, users, prs)
    BY <2>1, <1>3 DEF Shape, Idle, DeactivateLabel
  <2>4. TypeOK'
    BY <1>1, <1>3, <2>2 DEF TypeInv, TypeOK, TablesStep
  <2>5. ASSUME NEW d \in Client PROVE Shape(tx'[d], users', prs')
    <3>1. tx'[d] = IF d = c THEN next ELSE tx[d]
      BY <1>3 DEF TypeInv, TypeOK
    <3>2. tx'[d] \in Transaction /\ Shape(tx'[d], users, prs)
      BY <3>1, <2>2, <2>3, TxOfClient
    <3> QED BY <3>2, <1>1, ShapeStable
  <2> QED BY <2>4, <2>5 DEF TypeInv
<1> QED
  BY <1>2, <1>3 DEF Commit

\* A COMMIT whose answer is lost keeps the types of TypeInv.
LEMMA CommitLostTypes ==
  ASSUME TypeInv, NEW c \in Client, CommitLost(c)
  PROVE  TypeInv'
BY PublishTables, FinishTypes DEF CommitLost, Answer

\* An expired deadline or a detected deadlock keeps the types of TypeInv.
LEMMA AbortTypes ==
  ASSUME TypeInv, NEW c \in Client, Expire(c) \/ DeadlockAbort(c)
  PROVE  TypeInv'
BY FailTypes DEF Expire, DeadlockAbort, Answer

-------------------------------------------------------------------------------
\* The database the service starts on is well-typed.
LEMMA TypeInvInit == Init => TypeInv
<1> SUFFICES ASSUME Init PROVE TypeInv
  OBVIOUS
<1>1. PICK d \in Seeds :
        /\ teams = d.teams /\ users = d.users /\ prs = d.prs
        /\ reviewers = d.reviewers /\ history = d.history
        /\ tx = [c \in Client |-> Idle]
        /\ resp = [c \in Client |-> Nil]
        /\ issued = 0
  BY DEF Init
<1>2. [teams |-> teams, users |-> users, prs |-> prs,
       reviewers |-> reviewers, history |-> history] \in Database
  BY <1>1, SeedAssumption DEF Database
<1>3. TypeOK
  BY <1>1, <1>2, IdleShape, MaxRequestsAssumption DEF TypeOK
<1> QED
  BY <1>1, <1>3, IdleShape DEF TypeInv

\* Every step of the service keeps TypeInv.
LEMMA TypeInvNext == TypeInv /\ [Next]_vars => TypeInv'
<1> SUFFICES ASSUME TypeInv, [Next]_vars PROVE TypeInv'
  OBVIOUS
<1>1. CASE UNCHANGED vars
  BY <1>1 DEF vars, TypeInv, TypeOK
<1>2. ASSUME NEW c \in Client, Statement(c) PROVE TypeInv'
  BY <1>2, SelectAuthorTypes, InsertPRTypes, SelectCandidatesTypes,
     SelectPRForMergeTypes, SelectPRForReassignTypes, SelectReviewerTeamTypes,
     SelectReplacementTypes, StartSetUserActiveTypes, UpdateUserActiveTypes,
     InsertTeamTypes, UpsertUserTypes, GetTeamTypes,
     SelectTeamForDeactivateTypes, DeactivateUserTypes, SelectImpactedPRsTypes,
     LockImpactedTypes, BeginPRTypes, ReplaceReviewerTypes, CommitTypes
     DEF Statement
<1>3. ASSUME NEW c \in Client,
             Receive(c) \/ CommitLost(c) \/ Expire(c) \/ DeadlockAbort(c)
      PROVE  TypeInv'
  BY <1>3, RequestAssumption, BeginTypes, CommitLostTypes, AbortTypes
     DEF Receive
<1> QED
  BY <1>1, <1>2, <1>3 DEF Next, Quiesce

\* For every set of clients, requests and initial databases, every row the
\* service commits, and every value it carries from one SQL statement to the
\* next, has its type: no NOT NULL column gets a NULL, no statement reads a
\* row that is not there.
THEOREM TypeCorrect == Spec => []TypeInv
BY TypeInvInit, TypeInvNext, PTL DEF Spec

\* TypeOK holds in every reachable state of every instance of ReviewTx.
THEOREM TypesHold == Spec => []TypeOK
<1>1. TypeInv => TypeOK
  BY DEF TypeInv
<1> QED
  BY <1>1, TypeCorrect, PTL

-------------------------------------------------------------------------------
(* Row locks.  The inductive invariant: a transaction changes only rows it *)
(* has locked, only PRs it has found open (or absent) under that lock, and *)
(* no two transactions lock the same row.                                  *)

\* t has uncommitted changes of PR p, its reviewers or its history.
Touches(t, p) ==
  \/ t.wPrs[p] # Nil
  \/ t.wLog[p] # <<>>
  \/ \E u \in User : <<p, u>> \in t.wAdd \cup t.wDel

\* p is locked by t and still open.
HoldsOpen(t, p, ps) == p \in t.locks /\ ps[p] # Nil /\ ps[p].status = "OPEN"

Careful(t, ps) ==
  /\ \A p \in PR : Touches(t, p) =>
       p \in t.locks /\ (ps[p] # Nil => ps[p].status = "OPEN")
  /\ \A p \in PR : p \in t.locks /\ ps[p] = Nil => t.wPrs[p] # Nil
  /\ \A u \in User : t.wUsers[u] # Nil => u \in t.locks
  /\ t.pc = "selectCandidatesQuery" =>
       t.req.pr \in t.locks /\ ps[t.req.pr] = Nil
  /\ t.pc \in {"selectReviewerTeamQuery", "selectReplacementCandidatesQuery"}
       => HoldsOpen(t, t.req.pr, ps)
  /\ \A p \in t.impacted : HoldsOpen(t, p, ps)
  /\ t.pc = "activeReplacementQuery" => HoldsOpen(t, t.at, ps)
  /\ t.pc \in {"selectAuthorQuery", "insertPRQuery", "selectPRForUpdateQuery",
               "setUserActiveQuery", "updated"} => t.locks = {}

Exclusive ==
  \A c, d \in Client : c # d => tx[c].locks \cap tx[d].locks = {}

LockInv == Exclusive /\ \A c \in Client : Careful(tx[c], prs)

Inv == TypeInv /\ LockInv

-------------------------------------------------------------------------------
\* A handler between requests has locked and written nothing.
LEMMA IdleCareful == Careful(Idle, prs) /\ Idle.locks = {}
BY DEF Idle, Careful, Touches

\* Careful(t, ps) looks at the rows t has locked or touched only.
LEMMA CarefulStable ==
  ASSUME NEW t \in Transaction, Shape(t, users, prs), Careful(t, prs),
         \A p \in PR : p \in t.locks => prs'[p] = prs[p]
  PROVE  Careful(t, prs')
<1>1. \A p \in PR : HoldsOpen(t, p, prs) => HoldsOpen(t, p, prs')
  BY DEF HoldsOpen
<1>2. t.pc \in {"selectCandidatesQuery", "selectReviewerTeamQuery",
                "selectReplacementCandidatesQuery"} => t.req.pr \in PR
  BY RequestFields DEF Shape
<1>3. t.pc = "activeReplacementQuery" => t.at \in PR
  BY DEF Shape
<1>4. t.impacted \subseteq PR
  BY DEF Transaction
<1>5. \A p \in PR : Touches(t, p) =>
        p \in t.locks /\ (prs'[p] # Nil => prs'[p].status = "OPEN")
  BY DEF Careful
<1> QED
  BY <1>1, <1>2, <1>3, <1>4, <1>5 DEF Careful

\* A statement inside a transaction keeps the lock discipline of LockInv.
LEMMA ProceedLocks ==
  ASSUME Inv, NEW c \in Client, NEW next, Proceed(c, next),
         Careful(next, prs),
         \A d \in Client \ {c} : next.locks \cap tx[d].locks = {}
  PROVE  LockInv'
<1>1. tx' = [tx EXCEPT ![c] = next] /\ prs' = prs
  BY DEF Proceed
<1>2. tx \in [Client -> Transaction]
  BY DEF Inv, TypeInv, TypeOK
<1>3. Exclusive'
  BY <1>1, <1>2 DEF Inv, LockInv, Exclusive
<1>4. \A d \in Client : Careful(tx'[d], prs)
  BY <1>1, <1>2 DEF Inv, LockInv
<1> QED
  BY <1>1, <1>3, <1>4 DEF LockInv

\* The end of a transaction, by commit or rollback: PRs that it has not
\* locked are as before.
LEMMA EndLocks ==
  ASSUME Inv, NEW c \in Client, NEW next,
         tx' = [tx EXCEPT ![c] = next],
         next.locks = {}, Careful(next, prs'),
         \A p \in PR : p \notin tx[c].locks => prs'[p] = prs[p]
  PROVE  LockInv'
<1>1. tx \in [Client -> Transaction]
  BY DEF Inv, TypeInv, TypeOK
<1>2. Exclusive'
  BY <1>1 DEF Inv, LockInv, Exclusive
<1>3. ASSUME NEW d \in Client PROVE Careful(tx'[d], prs')
  <2>1. CASE d = c
    BY <1>1, <2>1
  <2>2. CASE d # c
    <3>1. tx'[d] = tx[d] /\ tx[d] \in Transaction /\ Shape(tx[d], users, prs)
      BY <1>1, <2>2, TxOfClient DEF Inv
    <3>2. \A p \in PR : p \in tx[d].locks => prs'[p] = prs[p]
      BY <2>2 DEF Inv, LockInv, Exclusive
    <3> QED BY <3>1, <3>2, CarefulStable DEF Inv, LockInv
  <2> QED BY <2>1, <2>2
<1> QED
  BY <1>2, <1>3 DEF LockInv

\* A rollback keeps the lock discipline of LockInv.
LEMMA FailLocks ==
  ASSUME Inv, NEW c \in Client, NEW err \in Answer, Fail(c, err)
  PROVE  LockInv'
<1>1. tx' = [tx EXCEPT ![c] = Idle] /\ prs' = prs
  BY DEF Fail, Finish, tables
<1>2. Careful(Idle, prs')
  BY <1>1, IdleCareful
<1> QED
  BY <1>1, <1>2, IdleCareful, IdleShape, EndLocks

\* COMMIT changes no PR, user, reviewer or history the transaction has not
\* locked, and none of a merged PR.
LEMMA PublishLocked ==
  ASSUME Inv, NEW c \in Client, Publish(c)
  PROVE  /\ \A u \in User : u \notin tx[c].locks => users'[u] = users[u]
         /\ \A p \in PR :
              p \notin tx[c].locks \/ (prs[p] # Nil /\ prs[p].status = "MERGED")
              => /\ prs'[p] = prs[p]
                 /\ ReviewersOf(reviewers', p) = ReviewersOf(reviewers, p)
                 /\ history'[p] = history[p]
<1> tx[c] \in Transaction /\ Careful(tx[c], prs)
  BY TxOfClient DEF Inv, LockInv
<1> /\ users \in [User -> UserRow \cup {Nil}]
    /\ prs \in [PR -> PrRow \cup {Nil}]
    /\ history \in [PR -> Seq(Event)]
  BY DatabaseFields DEF Inv, TypeInv
<1>1. ASSUME NEW u \in User, u \notin tx[c].locks PROVE users'[u] = users[u]
  BY <1>1 DEF Publish, UsersSeenBy, Careful
<1>2. ASSUME NEW p \in PR,
             p \notin tx[c].locks \/ (prs[p] # Nil /\ prs[p].status = "MERGED")
      PROVE  /\ prs'[p] = prs[p]
             /\ ReviewersOf(reviewers', p) = ReviewersOf(reviewers, p)
             /\ history'[p] = history[p]
  <2>1. ~Touches(tx[c], p)
    BY <1>2 DEF Careful
  <2>2. prs'[p] = prs[p]
    BY <2>1 DEF Publish, PrsSeenBy, Touches
  <2>3. ReviewersOf(reviewers', p) = ReviewersOf(reviewers, p)
    BY <2>1 DEF Publish, ReviewersSeenBy, ReviewersOf, Touches
  <2>4. history'[p] = history[p] \o <<>>
    BY <2>1 DEF Publish, Touches
  <2>5. history[p] \o <<>> = history[p]
    BY ConcatEmptySeq
  <2> QED BY <2>2, <2>3, <2>4, <2>5
<1> QED
  BY <1>1, <1>2

-------------------------------------------------------------------------------
(* One lemma per action.                                                   *)

\* A request that arrives (its transaction begins) keeps the lock discipline
\* of LockInv.
LEMMA BeginLocks ==
  ASSUME Inv, NEW c \in Client, NEW r \in AnyRequest, Begin(c, r)
  PROVE  LockInv'
<1> tx[c] \in Transaction /\ Shape(tx[c], users, prs) /\ Careful(tx[c], prs)
  BY TxOfClient DEF Inv, LockInv
<1>1. tx' = [tx EXCEPT ![c].pc = FirstStatement[r.op], ![c].req = r]
  BY DEF Begin
<1> DEFINE next == [tx[c] EXCEPT !.pc = FirstStatement[r.op], !.req = r]
<1>2. tx' = [tx EXCEPT ![c] = next] /\ prs' = prs
  BY <1>1 DEF Begin, tables, Inv, TypeInv, TypeOK
<1>3. tx[c] = Idle
  BY DEF Begin, Shape
<1>4. r \in AnyRequest
  OBVIOUS
<1>5. FirstStatement[r.op] \in Label
        \ {"selectCandidatesQuery", "selectReviewerTeamQuery",
           "selectReplacementCandidatesQuery", "activeReplacementQuery"}
  BY <1>4, RequestFields DEF FirstStatement, Label
<1>6. Careful(next, prs) /\ next.locks = {}
  BY <1>3, <1>5 DEF Idle, Careful, Touches
<1> QED
  BY <1>2, <1>6, EndLocks

\* CreatePR's look-up of the author keeps the lock discipline of LockInv.
LEMMA SelectAuthorLocks ==
  ASSUME Inv, NEW c \in Client, SelectAuthor(c)
  PROVE  LockInv'
<1> tx[c] \in Transaction /\ Shape(tx[c], users, prs) /\ Careful(tx[c], prs)
  BY TxOfClient DEF Inv, LockInv
<1> DEFINE next == [tx[c] EXCEPT !.pc = "insertPRQuery",
                                 !.team = users[tx[c].req.user].team]
<1>1. CASE \E err \in {"ErrUserNotFound", "ErrInvalidArgument"} : Fail(c, err)
  BY <1>1, FailLocks DEF Answer
<1>2. CASE Proceed(c, next)
  <2>1. Careful(next, prs)
    BY DEF SelectAuthor, Careful, HoldsOpen, Touches, Transaction
  <2>2. \A d \in Client \ {c} : next.locks \cap tx[d].locks = {}
    BY DEF Inv, LockInv, Exclusive, Transaction
  <2> QED BY <1>2, <2>1, <2>2, ProceedLocks
<1> QED
  BY <1>1, <1>2 DEF SelectAuthor

\* ReassignReviewer's look-up of the old reviewer's team keeps the lock
\* discipline of LockInv.
LEMMA SelectReviewerTeamLocks ==
  ASSUME Inv, NEW c \in Client, SelectReviewerTeam(c)
  PROVE  LockInv'
<1> tx[c] \in Transaction /\ Shape(tx[c], users, prs) /\ Careful(tx[c], prs)
  BY TxOfClient DEF Inv, LockInv
<1> DEFINE next == [tx[c] EXCEPT !.pc = "selectReplacementCandidatesQuery",
                                 !.team = users[tx[c].req.user].team]
<1>1. CASE \E err \in {"ErrUserNotFound"} : Fail(c, err)
  BY <1>1, FailLocks DEF Answer
<1>2. CASE Proceed(c, next)
  <2>1. Careful(next, prs)
    BY DEF SelectReviewerTeam, Careful, HoldsOpen, Touches, Transaction
  <2>2. \A d \in Client \ {c} : next.locks \cap tx[d].locks = {}
    BY DEF Inv, LockInv, Exclusive, Transaction
  <2> QED BY <1>2, <2>1, <2>2, ProceedLocks
<1> QED
  BY <1>1, <1>2 DEF SelectReviewerTeam

\* The start of SetUserActive's statement keeps the lock discipline of LockInv.
LEMMA StartSetUserActiveLocks ==
  ASSUME Inv, NEW c \in Client, StartSetUserActive(c)
  PROVE  LockInv'
<1> tx[c] \in Transaction /\ Shape(tx[c], users, prs) /\ Careful(tx[c], prs)
  BY TxOfClient DEF Inv, LockInv
<1> DEFINE next == [tx[c] EXCEPT !.pc = "updated", !.snapshot = teams]
<1>1. CASE \E err \in {"ErrUserNotFound"} : Fail(c, err)
  BY <1>1, FailLocks DEF Answer
<1>2. CASE Proceed(c, next)
  <2>1. Careful(next, prs)
    BY DEF StartSetUserActive, Careful, HoldsOpen, Touches, Transaction
  <2>2. \A d \in Client \ {c} : next.locks \cap tx[d].locks = {}
    BY DEF Inv, LockInv, Exclusive, Transaction
  <2> QED BY <1>2, <2>1, <2>2, ProceedLocks
<1> QED
  BY <1>1, <1>2 DEF StartSetUserActive

\* CreatePR's INSERT of the PR keeps the lock discipline of LockInv.
LEMMA InsertPRLocks ==
  ASSUME Inv, NEW c \in Client, InsertPR(c)
  PROVE  LockInv'
<1> tx[c] \in Transaction /\ Shape(tx[c], users, prs) /\ Careful(tx[c], prs)
  BY TxOfClient DEF Inv, LockInv
<1> DEFINE p == tx[c].req.pr
           row == [author |-> tx[c].req.user, status |-> "OPEN"]
           next == [tx[c] EXCEPT !.pc = "selectCandidatesQuery",
                                 !.locks = @ \cup {p},
                                 !.wPrs[p] = row]
<1>1. CASE Fail(c, "ErrPRExists")
  BY <1>1, FailLocks DEF Answer
<1>2. CASE prs[p] = Nil /\ Proceed(c, next)
  <2>1. p \in PR /\ tx[c].req.user \in User
    BY RequestFields DEF InsertPR, Shape
  <2>2. row # Nil
    BY <2>1, NilAssumption DEF PrRow, Status
  <2>3. \A d \in Client \ {c} : p \notin tx[d].locks
    BY <1>2, <2>1 DEF InsertPR, WrittenByOther, Inv, LockInv, Careful
  <2>4. tx[c].locks = {}
    BY DEF InsertPR, Careful
  <2> HIDE DEF row
  <2>5. /\ next.pc = "selectCandidatesQuery" /\ next.req = tx[c].req
        /\ next.locks = {p} /\ next.impacted = tx[c].impacted
        /\ next.wPrs[p] = row
        /\ \A q \in PR : q # p => next.wPrs[q] = tx[c].wPrs[q]
        /\ next.wUsers = tx[c].wUsers /\ next.wLog = tx[c].wLog
        /\ next.wAdd = tx[c].wAdd /\ next.wDel = tx[c].wDel
    BY <2>1, <2>4 DEF Transaction
  <2>6. Proceed(c, next)
    BY <1>2 DEF row
  <2> HIDE DEF next
  <2>7. \A q \in PR : Touches(next, q) => q = p \/ Touches(tx[c], q)
    BY <2>5 DEF Touches
  <2>8. Careful(next, prs)
    BY <1>2, <2>1, <2>2, <2>4, <2>5, <2>7 DEF Careful, HoldsOpen
  <2>9. \A d \in Client \ {c} : next.locks \cap tx[d].locks = {}
    BY <2>3, <2>5
  <2> QED BY <2>6, <2>8, <2>9, ProceedLocks
<1> QED
  BY <1>1, <1>2 DEF InsertPR

\* CreatePR's draw of reviewers keeps the lock discipline of LockInv.
LEMMA SelectCandidatesLocks ==
  ASSUME Inv, NEW c \in Client, SelectCandidates(c)
  PROVE  LockInv'
<1> tx[c] \in Transaction /\ Shape(tx[c], users, prs) /\ Careful(tx[c], prs)
  BY TxOfClient DEF Inv, LockInv
<1> DEFINE p == tx[c].req.pr
           next(R) == [tx[c] EXCEPT !.pc = "commit", !.seen = R,
                                    !.wAdd = @ \cup ({p} \X R)]
<1>1. PICK R \in SUBSET User : Proceed(c, next(R))
  BY DEF SelectCandidates, PickRandom, TeamCandidates, ActiveUsers
<1>2. p \in PR /\ p \in tx[c].locks /\ prs[p] = Nil
  BY RequestFields DEF SelectCandidates, Shape, Careful
<1>3. \A q \in PR : Touches(next(R), q) => q = p \/ Touches(tx[c], q)
  BY DEF Touches, Transaction
<1>4. Careful(next(R), prs)
  BY <1>2, <1>3 DEF SelectCandidates, Careful, HoldsOpen, Transaction
<1>5. \A d \in Client \ {c} : next(R).locks \cap tx[d].locks = {}
  BY DEF Inv, LockInv, Exclusive, Transaction
<1> QED
  BY <1>1, <1>4, <1>5, ProceedLocks

\* MergePR's SELECT ... FOR UPDATE and UPDATE keeps the lock discipline of
\* LockInv.
LEMMA SelectPRForMergeLocks ==
  ASSUME Inv, NEW c \in Client, SelectPRForMerge(c)
  PROVE  LockInv'
<1> tx[c] \in Transaction /\ Shape(tx[c], users, prs) /\ Careful(tx[c], prs)
  BY TxOfClient DEF Inv, LockInv
<1> DEFINE p == tx[c].req.pr
           row == IF prs[p].status = "MERGED" THEN Nil
                  ELSE [prs[p] EXCEPT !.status = "MERGED"]
           next == [tx[c] EXCEPT !.pc = "commit",
                                 !.locks = @ \cup {p},
                                 !.seen = ReviewersOf(reviewers, p),
                                 !.wPrs[p] = row]
<1>1. CASE Fail(c, "ErrPRNotFound")
  BY <1>1, FailLocks DEF Answer
<1>2. CASE prs[p] # Nil /\ ~LockedByOther(c, p) /\ Proceed(c, next)
  <2>1. p \in PR
    BY RequestFields DEF SelectPRForMerge, Shape
  <2>2. prs[p].status \in {"OPEN", "MERGED"}
    BY <1>2, <2>1, DatabaseFields DEF Inv, TypeInv, PrRow, Status
  <2>3. row # Nil => prs[p].status = "OPEN"
    BY <2>2
  <2>4. tx[c].locks = {}
    BY DEF SelectPRForMerge, Careful
  <2> HIDE DEF row
  <2>5. /\ next.pc = "commit" /\ next.locks = {p}
        /\ next.impacted = tx[c].impacted
        /\ next.wPrs[p] = row
        /\ \A q \in PR : q # p => next.wPrs[q] = tx[c].wPrs[q]
        /\ next.wUsers = tx[c].wUsers /\ next.wLog = tx[c].wLog
        /\ next.wAdd = tx[c].wAdd /\ next.wDel = tx[c].wDel
    BY <2>1, <2>4 DEF Transaction
  <2>6. Proceed(c, next)
    BY <1>2 DEF row
  <2> HIDE DEF next
  <2>7. \A q \in PR : Touches(next, q) =>
          (q = p /\ row # Nil) \/ Touches(tx[c], q)
    BY <2>5 DEF Touches
  <2>8. Careful(next, prs)
    BY <1>2, <2>1, <2>3, <2>4, <2>5, <2>7 DEF Careful, HoldsOpen
  <2>9. \A d \in Client \ {c} : next.locks \cap tx[d].locks = {}
    BY <1>2, <2>5 DEF LockedByOther
  <2> QED BY <2>6, <2>8, <2>9, ProceedLocks
<1> QED
  BY <1>1, <1>2 DEF SelectPRForMerge

\* ReassignReviewer's SELECT ... FOR UPDATE and checks keeps the lock
\* discipline of LockInv.
LEMMA SelectPRForReassignLocks ==
  ASSUME Inv, NEW c \in Client, SelectPRForReassign(c)
  PROVE  LockInv'
<1> tx[c] \in Transaction /\ Shape(tx[c], users, prs) /\ Careful(tx[c], prs)
  BY TxOfClient DEF Inv, LockInv
<1> DEFINE p == tx[c].req.pr
           next == [tx[c] EXCEPT !.pc = "selectReviewerTeamQuery",
                                 !.locks = @ \cup {p},
                                 !.seen = ReviewersOf(reviewers, p)]
<1>1. CASE \E err \in {"ErrPRNotFound", "ErrPRMerged", "ErrNotAssigned"} :
             Fail(c, err)
  BY <1>1, FailLocks DEF Answer
<1>2. CASE /\ prs[p] # Nil /\ prs[p].status # "MERGED"
           /\ ~LockedByOther(c, p) /\ Proceed(c, next)
  <2>1. p \in PR
    BY RequestFields DEF SelectPRForReassign, Shape
  <2>2. prs[p].status = "OPEN"
    BY <1>2, <2>1, DatabaseFields DEF Inv, TypeInv, PrRow, Status
  <2>3. next.locks = {p}
    BY DEF SelectPRForReassign, Careful, Transaction
  <2>4. Careful(next, prs)
    BY <1>2, <2>1, <2>2, <2>3
       DEF SelectPRForReassign, Careful, HoldsOpen, Touches, Transaction
  <2>5. \A d \in Client \ {c} : next.locks \cap tx[d].locks = {}
    BY <1>2, <2>3 DEF LockedByOther
  <2> QED BY <1>2, <2>4, <2>5, ProceedLocks
<1> QED
  BY <1>1, <1>2 DEF SelectPRForReassign

\* ReassignReviewer's draw and swap keeps the lock discipline of LockInv.
LEMMA SelectReplacementLocks ==
  ASSUME Inv, NEW c \in Client, SelectReplacement(c)
  PROVE  LockInv'
<1> tx[c] \in Transaction /\ Shape(tx[c], users, prs) /\ Careful(tx[c], prs)
  BY TxOfClient DEF Inv, LockInv
<1> DEFINE p == tx[c].req.pr
           old == tx[c].req.user
           next(new) == [tx[c] EXCEPT
               !.pc = "commit",
               !.seen = (@ \ {old}) \cup {new},
               !.wDel = @ \cup {<<p, old>>},
               !.wAdd = @ \cup {<<p, new>>},
               !.wLog[p] = Append(@, Logged(old, new))]
<1>1. CASE Fail(c, "ErrNoCandidate")
  BY <1>1, FailLocks DEF Answer
<1>2. ASSUME NEW new \in User, Proceed(c, next(new)) PROVE LockInv'
  <2>1. p \in PR /\ HoldsOpen(tx[c], p, prs)
    BY RequestFields DEF SelectReplacement, Shape, Careful
  <2>2. \A q \in PR : Touches(next(new), q) => q = p \/ Touches(tx[c], q)
    BY DEF Touches, Transaction
  <2>3. Careful(next(new), prs)
    <3>1. /\ next(new).pc = "commit" /\ next(new).locks = tx[c].locks
          /\ next(new).impacted = tx[c].impacted
          /\ next(new).wPrs = tx[c].wPrs /\ next(new).wUsers = tx[c].wUsers
      BY DEF Transaction
    <3> HIDE DEF next
    <3> QED BY <2>1, <2>2, <3>1 DEF Careful, HoldsOpen
  <2>4. \A d \in Client \ {c} : next(new).locks \cap tx[d].locks = {}
    BY DEF Inv, LockInv, Exclusive, Transaction
  <2> QED BY <1>2, <2>3, <2>4, ProceedLocks
<1> QED
  BY <1>1, <1>2 DEF SelectReplacement, TeamCandidates, ActiveUsers

\* SetUserActive's UPDATE keeps the lock discipline of LockInv.
LEMMA UpdateUserActiveLocks ==
  ASSUME Inv, NEW c \in Client, UpdateUserActive(c)
  PROVE  LockInv'
<1> tx[c] \in Transaction /\ Shape(tx[c], users, prs) /\ Careful(tx[c], prs)
  BY TxOfClient DEF Inv, LockInv
<1>1. tx' = [tx EXCEPT ![c] = Idle] /\ prs' = prs
  BY DEF UpdateUserActive, Finish
<1>2. Careful(Idle, prs')
  BY <1>1, IdleCareful
<1> QED
  BY <1>1, <1>2, IdleCareful, EndLocks

\* CreateTeam's INSERT of the team keeps the lock discipline of LockInv.
LEMMA InsertTeamLocks ==
  ASSUME Inv, NEW c \in Client, InsertTeam(c)
  PROVE  LockInv'
<1> tx[c] \in Transaction /\ Shape(tx[c], users, prs) /\ Careful(tx[c], prs)
  BY TxOfClient DEF Inv, LockInv
<1> DEFINE t == tx[c].req.team
           next == [tx[c] EXCEPT !.pc = AfterMember(tx[c].req.members),
                                 !.locks = @ \cup {t},
                                 !.members = tx[c].req.members,
                                 !.wTeams = @ \cup {t}]
<1>1. CASE Fail(c, "ErrTeamExists")
  BY <1>1, FailLocks DEF Answer
<1>2. CASE ~LockedByOther(c, t) /\ Proceed(c, next)
  <2>1. t \notin PR
    BY RequestFields, RowAssumption DEF InsertTeam, Shape
  <2>2. AfterMember(tx[c].req.members) \in {"commit", "upsertUserQuery"}
    BY DEF AfterMember
  <2>3. Careful(next, prs)
    <3>1. /\ next.pc \in {"commit", "upsertUserQuery"}
          /\ next.locks = tx[c].locks \cup {t}
          /\ next.impacted = tx[c].impacted
          /\ next.wPrs = tx[c].wPrs /\ next.wUsers = tx[c].wUsers
          /\ next.wLog = tx[c].wLog
          /\ next.wAdd = tx[c].wAdd /\ next.wDel = tx[c].wDel
      BY <2>2 DEF Transaction
    <3> HIDE DEF next
    <3> QED BY <2>1, <3>1 DEF Careful, HoldsOpen, Touches
  <2>4. \A d \in Client \ {c} : next.locks \cap tx[d].locks = {}
    BY <1>2 DEF LockedByOther, Inv, LockInv, Exclusive, Transaction
  <2> QED BY <1>2, <2>3, <2>4, ProceedLocks
<1> QED
  BY <1>1, <1>2 DEF InsertTeam

\* CreateTeam's upsert of one member keeps the lock discipline of LockInv.
LEMMA UpsertUserLocks ==
  ASSUME Inv, NEW c \in Client, UpsertUser(c)
  PROVE  LockInv'
<1> tx[c] \in Transaction /\ Shape(tx[c], users, prs) /\ Careful(tx[c], prs)
  BY TxOfClient DEF Inv, LockInv
<1> DEFINE u == Head(tx[c].members).id
           row == [team |-> tx[c].req.team, active |-> Head(tx[c].members).active]
           next == [tx[c] EXCEPT
             !.pc = AfterMember(Tail(tx[c].members)),
             !.locks = @ \cup {u},
             !.members = Tail(@),
             !.wUsers[u] = row]
<1>1. tx[c].members \in Seq(Member) /\ tx[c].members # <<>>
  BY DEF UpsertUser, Shape, Transaction
<1>2a. Head(tx[c].members) \in Member
  BY <1>1
<1>2. u \in User /\ u \notin PR
  BY <1>2a, RowAssumption DEF Member
<1>3. AfterMember(Tail(tx[c].members)) \in {"commit", "upsertUserQuery"}
  BY DEF AfterMember
<1>4. ~LockedByOther(c, u) /\ Proceed(c, next)
  BY DEF UpsertUser
<1> HIDE DEF u, row
<1>5. Careful(next, prs)
  BY <1>2, <1>3 DEF Careful, HoldsOpen, Touches, Transaction
<1>6. \A d \in Client \ {c} : next.locks \cap tx[d].locks = {}
  BY <1>4 DEF LockedByOther, Inv, LockInv, Exclusive, Transaction
<1> QED
  BY <1>4, <1>5, <1>6, ProceedLocks

\* CreateTeam's read of its answer keeps the lock discipline of LockInv.
LEMMA GetTeamLocks ==
  ASSUME Inv, NEW c \in Client, GetTeam(c)
  PROVE  LockInv'
<1> tx[c] \in Transaction /\ Shape(tx[c], users, prs) /\ Careful(tx[c], prs)
  BY TxOfClient DEF Inv, LockInv
<1>1. \E answer \in Answer : Fail(c, answer)
  BY DEF GetTeam, Fail, Answer
<1> QED
  BY <1>1, FailLocks

\* The start of DeactivateTeam's UPDATE keeps the lock discipline of LockInv.
LEMMA SelectTeamForDeactivateLocks ==
  ASSUME Inv, NEW c \in Client, SelectTeamForDeactivate(c)
  PROVE  LockInv'
<1> tx[c] \in Transaction /\ Shape(tx[c], users, prs) /\ Careful(tx[c], prs)
  BY TxOfClient DEF Inv, LockInv
<1> DEFINE rows == {u \in ActiveUsers(users) : users[u].team = tx[c].req.team}
           label(r) == IF r = Nil THEN "commit" ELSE "deactivateUsersQuery"
           next(r) == [tx[c] EXCEPT !.pc = label(r),
                                    !.team = tx[c].req.team,
                                    !.at = r,
                                    !.todo = rows \ {r}]
<1>1. CASE Fail(c, "ErrTeamNotFound")
  BY <1>1, FailLocks DEF Answer
<1>2. ASSUME NEW r, Proceed(c, next(r)) PROVE LockInv'
  <2>1. label(r) \in {"commit", "deactivateUsersQuery"}
    OBVIOUS
  <2>2. Careful(next(r), prs)
    BY <2>1 DEF Careful, HoldsOpen, Touches, Transaction
  <2>3. \A d \in Client \ {c} : next(r).locks \cap tx[d].locks = {}
    BY DEF Inv, LockInv, Exclusive, Transaction
  <2> QED BY <1>2, <2>2, <2>3, ProceedLocks
<1> QED
  BY <1>1, <1>2 DEF SelectTeamForDeactivate

\* DeactivateTeam's UPDATE of one user keeps the lock discipline of LockInv.
LEMMA DeactivateUserLocks ==
  ASSUME Inv, NEW c \in Client, DeactivateUser(c)
  PROVE  LockInv'
<1> tx[c] \in Transaction /\ Shape(tx[c], users, prs) /\ Careful(tx[c], prs)
  BY TxOfClient DEF Inv, LockInv
<1> DEFINE u == tx[c].at
           match == users[u].team = tx[c].team /\ users[u].active
           hit == IF match THEN tx[c].deactivated \cup {u}
                           ELSE tx[c].deactivated
           label(r) == CASE r # Nil -> "deactivateUsersQuery"
                         [] r = Nil /\ hit = {} -> "commit"
                         [] r = Nil /\ hit # {} -> "selectImpactedPRsQuery"
           row == IF match THEN [users[u] EXCEPT !.active = FALSE]
                           ELSE tx[c].wUsers[u]
           next(r) == [tx[c] EXCEPT
             !.pc = label(r),
             !.locks = @ \cup {u},
             !.at = r,
             !.todo = @ \ {r},
             !.deactivated = hit,
             !.wUsers[u] = row]
<1>1. PICK r \in NextRow(tx[c].todo) : Proceed(c, next(r))
  BY DEF DeactivateUser
<1>2. u \in User /\ u \notin PR /\ ~LockedByOther(c, u)
  BY RowAssumption DEF DeactivateUser, Shape
<1>3. label(r) \in {"deactivateUsersQuery", "commit", "selectImpactedPRsQuery"}
  OBVIOUS
<1> HIDE DEF hit, row, label
<1>4. Careful(next(r), prs)
  <2>1. /\ next(r).pc = label(r)
        /\ next(r).locks = tx[c].locks \cup {u}
        /\ next(r).impacted = tx[c].impacted
        /\ \A w \in User : w # u => next(r).wUsers[w] = tx[c].wUsers[w]
        /\ next(r).wPrs = tx[c].wPrs /\ next(r).wLog = tx[c].wLog
        /\ next(r).wAdd = tx[c].wAdd /\ next(r).wDel = tx[c].wDel
    BY <1>2 DEF Transaction
  <2> HIDE DEF next
  <2> QED BY <1>2, <1>3, <2>1 DEF Careful, HoldsOpen, Touches
<1>5. \A d \in Client \ {c} : next(r).locks \cap tx[d].locks = {}
  BY <1>2 DEF LockedByOther, Inv, LockInv, Exclusive, Transaction
<1> QED
  BY <1>1, <1>4, <1>5, ProceedLocks

\* The start of DeactivateTeam's scan of open PRs keeps the lock discipline of
\* LockInv.
LEMMA SelectImpactedPRsLocks ==
  ASSUME Inv, NEW c \in Client, SelectImpactedPRs(c)
  PROVE  LockInv'
<1> tx[c] \in Transaction /\ Shape(tx[c], users, prs) /\ Careful(tx[c], prs)
  BY TxOfClient DEF Inv, LockInv
<1> DEFINE rows == ImpactedPRs(prs, reviewers, tx[c].deactivated)
           label(r) == IF r = Nil THEN "commit" ELSE "lockImpacted"
           next(r) == [tx[c] EXCEPT !.pc = label(r),
                                    !.at = r,
                                    !.todo = rows \ {r}]
<1>1. PICK r \in NextRow(rows) : Proceed(c, next(r))
  BY DEF SelectImpactedPRs
<1>2. label(r) \in {"commit", "lockImpacted"}
  OBVIOUS
<1>3. Careful(next(r), prs)
  BY <1>2 DEF Careful, HoldsOpen, Touches, Transaction
<1>4. \A d \in Client \ {c} : next(r).locks \cap tx[d].locks = {}
  BY DEF Inv, LockInv, Exclusive, Transaction
<1> QED
  BY <1>1, <1>3, <1>4, ProceedLocks

\* FOR UPDATE on one row of that scan keeps the lock discipline of LockInv.
LEMMA LockImpactedLocks ==
  ASSUME Inv, NEW c \in Client, LockImpacted(c)
  PROVE  LockInv'
<1> tx[c] \in Transaction /\ Shape(tx[c], users, prs) /\ Careful(tx[c], prs)
  BY TxOfClient DEF Inv, LockInv
<1> DEFINE p == tx[c].at
           hit == IF prs[p].status = "OPEN" THEN tx[c].impacted \cup {p}
                                            ELSE tx[c].impacted
           label(r) == IF r # Nil THEN "lockImpacted" ELSE AfterPR(hit)
           next(r) == [tx[c] EXCEPT !.pc = label(r),
                                    !.locks = @ \cup {p},
                                    !.at = r,
                                    !.todo = @ \ {r},
                                    !.impacted = hit]
<1>1. PICK r \in NextRow(tx[c].todo) : Proceed(c, next(r))
  BY DEF LockImpacted
<1>2. p \in PR /\ prs[p] # Nil /\ ~LockedByOther(c, p)
  BY DEF LockImpacted, Shape
<1>3. label(r) \in {"lockImpacted", "commit", "selectPRStatusQuery"}
  BY AfterPRLabel
<1>4. next(r).locks = tx[c].locks \cup {p} /\ next(r).impacted = hit
  BY DEF Transaction
<1>5. \A q \in hit : HoldsOpen(next(r), q, prs)
  BY <1>2, <1>4 DEF Careful, HoldsOpen
<1> HIDE DEF hit, label
<1>5a. \A q \in PR : Touches(next(r), q) <=> Touches(tx[c], q)
  BY DEF Touches, Transaction
<1>5b. next(r).pc = label(r) /\ next(r).wPrs = tx[c].wPrs
       /\ next(r).wUsers = tx[c].wUsers
  BY DEF Transaction
<1> HIDE DEF next
<1>6. Careful(next(r), prs)
  BY <1>2, <1>3, <1>4, <1>5, <1>5a, <1>5b DEF Careful
<1> USE DEF next
<1>7. \A d \in Client \ {c} : next(r).locks \cap tx[d].locks = {}
  BY <1>2, <1>4 DEF LockedByOther, Inv, LockInv, Exclusive
<1> QED
  BY <1>1, <1>6, <1>7, ProceedLocks

\* One turn of DeactivateTeam's loop over PRs keeps the lock discipline of
\* LockInv.
LEMMA BeginPRLocks ==
  ASSUME Inv, NEW c \in Client, BeginPR(c)
  PROVE  LockInv'
<1> tx[c] \in Transaction /\ Shape(tx[c], users, prs) /\ Careful(tx[c], prs)
  BY TxOfClient DEF Inv, LockInv
<1> DEFINE existing(p) == ReviewersOf(ReviewersSeenBy(c), p)
           leaving(p) == IF PrsSeenBy(c)[p].status = "OPEN"
                         THEN existing(p) \cap tx[c].deactivated ELSE {}
           label(p) == IF leaving(p) = {} THEN AfterPR(tx[c].impacted \ {p})
                                          ELSE "activeReplacementQuery"
           next(p) == [tx[c] EXCEPT !.pc = label(p),
                                    !.at = p,
                                    !.seen = existing(p),
                                    !.todo = leaving(p),
                                    !.impacted = @ \ {p}]
<1>1. PICK p \in tx[c].impacted : Proceed(c, next(p))
  BY DEF BeginPR
<1>2. HoldsOpen(tx[c], p, prs)
  BY DEF Careful
<1>3. label(p) \in {"activeReplacementQuery", "commit", "selectPRStatusQuery"}
  BY AfterPRLabel
<1> HIDE DEF existing, leaving, label
<1>4. Careful(next(p), prs)
  BY <1>2, <1>3 DEF Careful, HoldsOpen, Touches, Transaction
<1>5. \A d \in Client \ {c} : next(p).locks \cap tx[d].locks = {}
  BY DEF Inv, LockInv, Exclusive, Transaction
<1> QED
  BY <1>1, <1>4, <1>5, ProceedLocks

\* DeactivateTeam's replacement of one reviewer keeps the lock discipline of
\* LockInv.
LEMMA ReplaceReviewerLocks ==
  ASSUME Inv, NEW c \in Client, ReplaceReviewer(c)
  PROVE  LockInv'
<1> tx[c] \in Transaction /\ Shape(tx[c], users, prs) /\ Careful(tx[c], prs)
  BY TxOfClient DEF Inv, LockInv
<1> DEFINE p == tx[c].at
           author == PrsSeenBy(c)[p].author
           label(r) == IF tx[c].todo # {r} THEN "activeReplacementQuery"
                                           ELSE AfterPR(tx[c].impacted)
           kept(r) == tx[c].seen \ {r}
           inserted(new) == {new} \ {Nil}
           next(r, new) == [tx[c] EXCEPT
             !.pc = label(r),
             !.todo = @ \ {r},
             !.seen = kept(r) \cup inserted(new),
             !.wDel = @ \cup {<<p, r>>},
             !.wAdd = (@ \ {<<p, r>>}) \cup ({p} \X inserted(new)),
             !.wLog[p] = Append(@, Logged(r, new))]
           picks(r) ==
             PickReplacement(UsersSeenBy(c), tx[c].team, author, kept(r))
<1>1. PICK r \in tx[c].todo : \E new \in picks(r) : Proceed(c, next(r, new))
  BY DEF ReplaceReviewer
<1>2. PICK new \in picks(r) : Proceed(c, next(r, new))
  BY <1>1
<1>3. p \in PR /\ HoldsOpen(tx[c], p, prs)
  BY DEF ReplaceReviewer, Shape, Careful
<1>4. label(r) \in {"activeReplacementQuery", "commit", "selectPRStatusQuery"}
  BY AfterPRLabel
<1> HIDE DEF label, kept, inserted
<1>5. \A q \in PR : Touches(next(r, new), q) => q = p \/ Touches(tx[c], q)
  BY DEF Touches, Transaction
<1>6. Careful(next(r, new), prs)
  BY <1>3, <1>4, <1>5 DEF Careful, HoldsOpen, Transaction
<1>7. \A d \in Client \ {c} : next(r, new).locks \cap tx[d].locks = {}
  BY DEF Inv, LockInv, Exclusive, Transaction
<1> QED
  BY <1>2, <1>6, <1>7, ProceedLocks

\* COMMIT keeps the lock discipline of LockInv.
LEMMA CommitLocks ==
  ASSUME Inv, NEW c \in Client, Commit(c) \/ CommitLost(c)
  PROVE  LockInv'
<1> DEFINE next == [Idle EXCEPT !.pc = "selectTeamIDQuery",
                                !.req = tx[c].req]
<1>1. \A p \in PR : p \notin tx[c].locks => prs'[p] = prs[p]
  BY PublishLocked DEF Commit, CommitLost
<1>2. Careful(Idle, prs') /\ Idle.locks = {}
  BY DEF Idle, Careful, Touches
<1>3. Careful(next, prs') /\ next.locks = {}
  BY DEF Idle, Careful, Touches
<1>4. \/ tx' = [tx EXCEPT ![c] = Idle]
      \/ tx' = [tx EXCEPT ![c] = next]
  BY DEF Commit, CommitLost, Finish
<1> QED
  BY <1>1, <1>2, <1>3, <1>4, EndLocks

-------------------------------------------------------------------------------
\* No transaction is in flight at the start.
LEMMA LockInvInit == Init => LockInv
<1> SUFFICES ASSUME Init PROVE LockInv
  OBVIOUS
<1>1. \A c \in Client : tx[c] = Idle
  BY DEF Init
<1> QED
  BY <1>1, IdleCareful DEF LockInv, Exclusive

\* Every step of the service keeps LockInv.
LEMMA LockInvNext == Inv /\ [Next]_vars => LockInv'
<1> SUFFICES ASSUME Inv, [Next]_vars PROVE LockInv'
  OBVIOUS
<1>1. CASE UNCHANGED vars
  BY <1>1 DEF vars, Inv, LockInv, Exclusive
<1>2. ASSUME NEW c \in Client, Statement(c) PROVE LockInv'
  BY <1>2, SelectAuthorLocks, InsertPRLocks, SelectCandidatesLocks,
     SelectPRForMergeLocks, SelectPRForReassignLocks, SelectReviewerTeamLocks,
     SelectReplacementLocks, StartSetUserActiveLocks, UpdateUserActiveLocks,
     InsertTeamLocks, UpsertUserLocks, GetTeamLocks,
     SelectTeamForDeactivateLocks, DeactivateUserLocks, SelectImpactedPRsLocks,
     LockImpactedLocks, BeginPRLocks, ReplaceReviewerLocks, CommitLocks
     DEF Statement
<1>3. ASSUME NEW c \in Client, Receive(c) \/ CommitLost(c) PROVE LockInv'
  BY <1>3, RequestAssumption, BeginLocks, CommitLocks DEF Receive
<1>4. ASSUME NEW c \in Client, Expire(c) \/ DeadlockAbort(c) PROVE LockInv'
  BY <1>4, FailLocks DEF Expire, DeadlockAbort, Answer
<1> QED
  BY <1>1, <1>2, <1>3, <1>4 DEF Next, Quiesce

\* In every reachable state two transactions never lock the same row, and a
\* transaction has changed only rows that it has locked and, of PRs, only
\* those it has found open or absent under the lock.
THEOREM LocksHold == Spec => []Inv
<1>1. Init => Inv
  BY TypeInvInit, LockInvInit DEF Inv
<1>2. Inv /\ [Next]_vars => Inv'
  BY TypeInvNext, LockInvNext DEF Inv
<1> QED
  BY <1>1, <1>2, PTL DEF Spec

-------------------------------------------------------------------------------
(* Consequences.                                                           *)

\* A step that changes tables is c's COMMIT, which ends its transaction,
\* or is SetUserActive's UPDATE of a user nobody has locked.
LEMMA TablesChange ==
  ASSUME Inv, [Next]_vars
  PROVE  \/ UNCHANGED tables
         \/ \E c \in Client :
              Publish(c) /\ tx[c].pc = "commit" /\ tx'[c].locks = {}
         \/ \E c \in Client :
              /\ UpdateUserActive(c) /\ ~LockedByOther(c, tx[c].req.user)
              /\ tx'[c].locks = {}
              /\ UNCHANGED <<teams, prs, reviewers, history>>
              /\ users' = [users EXCEPT
                             ![tx[c].req.user].active = tx[c].req.active]
<1> tx \in [Client -> Transaction]
  BY DEF Inv, TypeInv, TypeOK
<1>1. CASE UNCHANGED vars
  BY <1>1 DEF vars, tables
<1>2. ASSUME NEW c \in Client, Commit(c) \/ CommitLost(c)
      PROVE  Publish(c) /\ tx[c].pc = "commit" /\ tx'[c].locks = {}
  <2> DEFINE next == [Idle EXCEPT !.pc = "selectTeamIDQuery",
                                  !.req = tx[c].req]
  <2>1. Idle.locks = {} /\ next.locks = {}
    BY DEF Idle
  <2>2. tx'[c] = Idle \/ tx'[c] = next
    BY <1>2 DEF Commit, CommitLost, Finish
  <2> QED BY <1>2, <2>1, <2>2 DEF Commit, CommitLost
<1>3. ASSUME NEW c \in Client, UpdateUserActive(c)
      PROVE  /\ ~LockedByOther(c, tx[c].req.user)
             /\ tx'[c].locks = {}
             /\ UNCHANGED <<teams, prs, reviewers, history>>
             /\ users' = [users EXCEPT
                            ![tx[c].req.user].active = tx[c].req.active]
  BY <1>3 DEF UpdateUserActive, Finish, Idle
<1>4. ASSUME NEW c \in Client, Statement(c),
             ~Commit(c), ~UpdateUserActive(c)
      PROVE  UNCHANGED tables
  BY <1>4 DEF Statement, SelectAuthor, InsertPR, SelectCandidates,
     SelectPRForMerge, SelectPRForReassign, SelectReviewerTeam,
     SelectReplacement, StartSetUserActive, InsertTeam, UpsertUser, GetTeam,
     SelectTeamForDeactivate, DeactivateUser, SelectImpactedPRs, LockImpacted,
     BeginPR, ReplaceReviewer, Proceed, Fail, tables
<1>5. ASSUME NEW c \in Client, Receive(c) \/ Expire(c) \/ DeadlockAbort(c)
      PROVE  UNCHANGED tables
  BY <1>5 DEF Receive, Begin, Expire, DeadlockAbort, Fail
<1> QED
  BY <1>1, <1>2, <1>3, <1>4, <1>5 DEF Next, Quiesce, vars, tables

\* Once a PR is merged, nothing the service does changes its row, its
\* reviewers or its history, whatever was in flight when it was merged.
THEOREM MergedStaysFrozen == Spec => MergedFrozen
<1> DEFINE Frozen ==
      \A p \in PR : prs[p] # Nil /\ prs[p].status = "MERGED" =>
        /\ prs'[p] = prs[p]
        /\ ReviewersOf(reviewers', p) = ReviewersOf(reviewers, p)
        /\ history'[p] = history[p]
<1>1. ASSUME Inv, [Next]_vars PROVE Frozen
  BY <1>1, TablesChange, PublishLocked DEF tables
<1> QED
  BY <1>1, LocksHold, PTL DEF Spec, MergedFrozen

\* No update is lost: what a transaction in flight has written or locked is
\* not changed by anybody else.
THEOREM NoUpdateIsLost == Spec => NoLostUpdate
<1> DEFINE Kept ==
      \A c \in Client : tx'[c].locks # {} =>
        /\ \A u \in User : tx[c].wUsers[u] # Nil => users'[u] = users[u]
        /\ \A p \in PR : p \in tx[c].locks =>
             /\ prs'[p] = prs[p]
             /\ ReviewersOf(reviewers', p) = ReviewersOf(reviewers, p)
<1>1. ASSUME Inv, [Next]_vars, NEW c \in Client, tx'[c].locks # {}
      PROVE  /\ \A u \in User : u \in tx[c].locks => users'[u] = users[u]
             /\ \A p \in PR : p \in tx[c].locks =>
                  /\ prs'[p] = prs[p]
                  /\ ReviewersOf(reviewers', p) = ReviewersOf(reviewers, p)
  <2>1. CASE UNCHANGED tables
    BY <2>1 DEF tables
  <2>2. ASSUME NEW d \in Client, Publish(d), tx'[d].locks = {}
        PROVE  /\ \A u \in User : u \in tx[c].locks => users'[u] = users[u]
               /\ \A p \in PR : p \in tx[c].locks =>
                    /\ prs'[p] = prs[p]
                    /\ ReviewersOf(reviewers', p) = ReviewersOf(reviewers, p)
    <3>1. tx[c].locks \cap tx[d].locks = {}
      BY <1>1, <2>2 DEF Inv, LockInv, Exclusive
    <3> QED BY <1>1, <2>2, <3>1, PublishLocked
  <2>3. ASSUME NEW d \in Client, ~LockedByOther(d, tx[d].req.user),
               tx'[d].locks = {},
               UNCHANGED <<teams, prs, reviewers, history>>,
               users' = [users EXCEPT
                           ![tx[d].req.user].active = tx[d].req.active]
        PROVE  /\ \A u \in User : u \in tx[c].locks => users'[u] = users[u]
               /\ prs' = prs /\ reviewers' = reviewers
    <3>1. tx[d].req.user \notin tx[c].locks
      BY <1>1, <2>3 DEF LockedByOther
    <3>2. users \in [User -> UserRow \cup {Nil}]
      BY <1>1, DatabaseFields DEF Inv, TypeInv
    <3> QED BY <2>3, <3>1, <3>2
  <2> QED BY <1>1, <2>1, <2>2, <2>3, TablesChange
<1>2. ASSUME Inv, [Next]_vars PROVE Kept
  BY <1>1, <1>2 DEF Inv, LockInv, Careful
<1> QED
  BY <1>2, LocksHold, PTL DEF Spec, NoLostUpdate

\* A request about one PR or one user is never part of a deadlock: when it
\* waits for a row it holds none.
THEOREM DeadlocksOnlyBulk == Spec => []DeadlocksAreBulk
<1>1. ASSUME Inv, NEW c \in Client, InCycle(c)
      PROVE  tx[c].req.op \in {"CreateTeam", "DeactivateTeam"}
  <2>1. PICK S \in SUBSET Client : /\ c \in S
                                   /\ \E e \in S : WaitsFor(c, e)
                                   /\ \E e \in S : WaitsFor(e, c)
    BY <1>1 DEF InCycle
  <2>2. Wanted(c) # {} /\ tx[c].locks # {}
    BY <2>1 DEF WaitsFor
  <2>3. Careful(tx[c], prs) /\ Shape(tx[c], users, prs)
    BY <1>1, TxOfClient DEF Inv, LockInv
  <2>4. tx[c].pc \in {"insertTeamQuery", "upsertUserQuery",
                      "deactivateUsersQuery", "lockImpacted"}
    BY <2>2, <2>3 DEF Wanted, Careful
  <2> QED BY <2>3, <2>4 DEF Shape, DeactivateLabel
<1>2. Inv => DeadlocksAreBulk
  BY <1>1 DEF DeadlocksAreBulk
<1> QED
  BY <1>2, LocksHold, PTL

===============================================================================
