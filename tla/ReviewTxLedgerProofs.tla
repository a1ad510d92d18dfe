------------------------- MODULE ReviewTxLedgerProofs -------------------------
(***************************************************************************)
(* What the transactions make of the pull requests: proofs of              *)
(* AtMostTwoNeverAuthor, AnswerIsCurrent, ImpactedCleaned, of              *)
(* ImplementsLedger and of ImplementsTeamLedger, for every instance of     *)
(* ReviewTx.                                                               *)
(***************************************************************************)
EXTENDS ReviewTxLedger, ReviewTxProofs, DataLemmas, FiniteSetTheorems

-------------------------------------------------------------------------------
(* The inductive invariant.  The committed tables are read as the records  *)
(* of the ledger; a transaction t in flight has a draft of some of them.   *)
(* Drafted says, label by label, how far the draft has got: from the first *)
(* write on it is what one step of the ledger may make of the record.      *)

Records == LedgerOf(prs, reviewers, history)

Added(t, p)   == {u \in User : <<p, u>> \in t.wAdd}
Removed(t, p) == {u \in User : <<p, u>> \in t.wDel}

\* Record r of PR p, with t's uncommitted changes.
Draft(t, r, p) ==
  [author    |-> IF t.wPrs[p] = Nil THEN r.author ELSE t.wPrs[p].author,
   status    |-> IF t.wPrs[p] = Nil THEN r.status ELSE t.wPrs[p].status,
   reviewers |-> ((IF r = Nil THEN {} ELSE r.reviewers) \ Removed(t, p))
                   \cup Added(t, p),
   history   |-> (IF r = Nil THEN <<>> ELSE r.history) \o t.wLog[p]]

\* t has changed no PR but p.
TouchesOnly(t, p) == \A q \in PR : Touches(t, q) => q = p

\* Where a transaction may have changed PRs.
DraftLabel == {"selectCandidatesQuery", "selectPRStatusQuery",
               "activeReplacementQuery", "commit"}

\* Before DeactivateTeam looks at PRs.
DeactivateUsersLabel == {"selectTeamIDForDeactivate", "deactivateUsersQuery",
                         "selectImpactedPRsQuery"}

Creating(t, rec) ==
  LET p == t.req.pr IN
  t.pc = "selectCandidatesQuery" =>
    /\ rec[p] = Nil /\ p \in t.locks
    /\ TouchesOnly(t, p)
    /\ t.wPrs[p] = [author |-> t.req.user, status |-> "OPEN"]
    /\ Added(t, p) = {} /\ Removed(t, p) = {} /\ t.wLog[p] = <<>>

Created(t, rec) ==
  LET p == t.req.pr IN
  t.pc = "commit" /\ t.req.op = "CreatePR" =>
    /\ rec[p] = Nil /\ p \in t.locks
    /\ TouchesOnly(t, p)
    /\ t.seen = Draft(t, Nil, p).reviewers
    /\ Draft(t, Nil, p) \in Ledger!NewRecord

Merged(t, rec) ==
  LET p == t.req.pr IN
  t.pc = "commit" /\ t.req.op = "MergePR" =>
    /\ rec[p] # Nil /\ p \in t.locks
    /\ TouchesOnly(t, p)
    /\ t.seen = Draft(t, rec[p], p).reviewers
    /\ IF Touches(t, p)
       THEN Draft(t, rec[p], p) = [rec[p] EXCEPT !.status = "MERGED"]
       ELSE rec[p].status = "MERGED"

Reassigning(t, rec) ==
  LET p == t.req.pr IN
  t.pc \in {"selectReviewerTeamQuery", "selectReplacementCandidatesQuery"} =>
    t.seen = rec[p].reviewers /\ t.req.user \in t.seen

Reassigned(t, rec) ==
  LET p == t.req.pr IN
  t.pc = "commit" /\ t.req.op = "ReassignReviewer" =>
    /\ rec[p] # Nil /\ p \in t.locks
    /\ TouchesOnly(t, p)
    /\ t.seen = Draft(t, rec[p], p).reviewers
    /\ \E old \in rec[p].reviewers, new \in Ledger!Newcomers(rec[p]) :
         Draft(t, rec[p], p) = Ledger!Replaced(rec[p], old, new)

\* r after one or two of its reviewers in S have been replaced by somebody
\* not in S, or removed.
HandedOverBy(r, S) ==
  Ledger!Relieved(r, S)
    \cup UNION {Ledger!Relieved(q, S) : q \in Ledger!Relieved(r, S)}

\* DeactivateTeam: a PR it has locked and found open is still to do, in
\* work, or free of deactivated reviewers.
HandingOver(t, rec) ==
  t.pc \in DeactivateLabel \/ (t.pc = "commit" /\ t.req.op = "DeactivateTeam") =>
    /\ \A u \in t.deactivated : t.wUsers[u] # Nil /\ ~t.wUsers[u].active
    /\ t.pc \in DeactivateUsersLabel => t.locks \cap PR = {}
    /\ t.pc \in DeactivateUsersLabel \cup {"commit"} => t.impacted = {}
    /\ \A p \in PR : t.wPrs[p] = Nil
    /\ \A p \in t.impacted : ~Touches(t, p)
    /\ \A p \in PR :
         Touches(t, p) => Draft(t, rec[p], p) \in HandedOverBy(rec[p], t.deactivated)
    /\ \A p \in t.locks \cap PR :
         \/ rec[p] = Nil \/ rec[p].status # "OPEN"
         \/ p \in t.impacted
         \/ t.pc = "activeReplacementQuery" /\ p = t.at
         \/ Draft(t, rec[p], p).reviewers \cap t.deactivated = {}

\* DeactivateTeam, at one PR: todo are the deactivated reviewers it still has.
HandingOne(t, rec) ==
  LET p == t.at
      draft == Draft(t, rec[p], p)
  IN
  t.pc = "activeReplacementQuery" =>
    /\ p \notin t.impacted
    /\ t.seen = draft.reviewers
    /\ t.todo = t.seen \cap t.deactivated
    /\ Touches(t, p) =>
         /\ draft \in Ledger!Relieved(rec[p], t.deactivated)
         /\ \E r \in User : t.todo = {r}

Drafted(t, rec) ==
  /\ t.pc \notin DraftLabel => \A p \in PR : ~Touches(t, p)
  /\ t.pc = "commit" => t.req.op # "SetUserActive"
  /\ t.pc = "commit" /\ t.req.op = "CreateTeam" => \A p \in PR : ~Touches(t, p)
  /\ Creating(t, rec)
  /\ Created(t, rec)
  /\ Merged(t, rec)
  /\ Reassigning(t, rec)
  /\ Reassigned(t, rec)
  /\ HandingOver(t, rec)
  /\ HandingOne(t, rec)

\* A PR that does not exist has neither reviewers nor a history.
NoOrphans ==
  \A p \in PR : prs[p] = Nil => ReviewersOf(reviewers, p) = {} /\ history[p] = <<>>

DraftInv ==
  /\ NoOrphans
  /\ AtMostTwoNeverAuthor
  /\ \A c \in Client : Drafted(tx[c], Records)

LedgerInv == Inv /\ DraftInv


-------------------------------------------------------------------------------
(* Lemmas about records.                                                   *)

\* The ledger has a record of exactly the PRs that have a row.
LEMMA RecordExists ==
  ASSUME NEW ps, NEW rv, NEW hs, NEW p \in PR,
         ps[p] \in PrRow \cup {Nil}, hs[p] \in Seq(Event)
  PROVE  /\ ps[p] = Nil => LedgerOf(ps, rv, hs)[p] = Nil
         /\ ps[p] # Nil => /\ LedgerOf(ps, rv, hs)[p] \in Ledger!Record
                          /\ LedgerOf(ps, rv, hs)[p] # Nil
<1> DEFINE row == [author    |-> ps[p].author,
                   status    |-> ps[p].status,
                   reviewers |-> ReviewersOf(rv, p),
                   history   |-> hs[p]]
<1>1. LedgerOf(ps, rv, hs)[p] = IF ps[p] = Nil THEN Nil ELSE row
  BY DEF LedgerOf
<1>2. ASSUME ps[p] # Nil PROVE row \in Ledger!Record
  <2>1. ps[p].author \in User /\ ps[p].status \in {"OPEN", "MERGED"}
    BY <1>2 DEF PrRow, Status
  <2>2. ReviewersOf(rv, p) \in SUBSET User /\ hs[p] \in Seq(Event)
    BY DEF ReviewersOf
  <2> QED BY <2>1, <2>2 DEF Ledger!Record, Event
<1> QED
  BY <1>1, <1>2, RecordAssumption

\* Its fields come from the three tables.
LEMMA RecordFields ==
  ASSUME NEW ps, NEW rv, NEW hs, NEW p \in PR, ps[p] # Nil
  PROVE  /\ LedgerOf(ps, rv, hs)[p].author = ps[p].author
         /\ LedgerOf(ps, rv, hs)[p].status = ps[p].status
         /\ LedgerOf(ps, rv, hs)[p].reviewers = ReviewersOf(rv, p)
         /\ LedgerOf(ps, rv, hs)[p].history = hs[p]
BY DEF LedgerOf

\* The ledger counts as everybody does.
LEMMA LedgerCardinality ==
  ASSUME NEW S
  PROVE  Ledger!Cardinality(S) = Cardinality(S)
BY DEF Cardinality, Ledger!Cardinality

\* The set R of reviewers after a replacement; Nil: by nobody.
Swapped(R, old, new) == (R \ {old}) \cup ({new} \ {Nil})

\* A set of users loses or swaps an element without growing.
LEMMA SwapCardinality ==
  ASSUME NEW R \in SUBSET User, Cardinality(R) <= 2,
         NEW old \in R, NEW new \in User \cup {Nil}
  PROVE  Cardinality(Swapped(R, old, new)) <= 2
<1>1. IsFiniteSet(R) /\ Cardinality(R) \in Nat
  BY UserAssumption, FS_Subset, FS_CardinalityType
<1>2. /\ IsFiniteSet(R \ {old})
      /\ Cardinality(R \ {old}) = Cardinality(R) - 1
  BY <1>1, FS_RemoveElement
<1>3. CASE new = Nil
  <2>1. Swapped(R, old, new) = R \ {old}
    BY <1>3 DEF Swapped
  <2> QED BY <1>1, <1>2, <2>1
<1>4. CASE new # Nil
  <2>1. Swapped(R, old, new) = (R \ {old}) \cup {new}
    BY <1>4 DEF Swapped
  <2>2. Cardinality((R \ {old}) \cup {new}) =
          IF new \in R \ {old} THEN Cardinality(R \ {old})
                              ELSE Cardinality(R \ {old}) + 1
    BY <1>2, FS_AddElement
  <2> QED BY <1>1, <1>2, <2>1, <2>2
<1> QED
  BY <1>3, <1>4

\* A record with one reviewer replaced or removed: its fields.
LEMMA ReplacedFields ==
  ASSUME NEW r \in Ledger!Record, NEW old \in User, NEW new \in User \cup {Nil}
  PROVE  /\ Ledger!Replaced(r, old, new) \in Ledger!Record
         /\ Ledger!Replaced(r, old, new).author = r.author
         /\ Ledger!Replaced(r, old, new).status = r.status
         /\ Ledger!Replaced(r, old, new).reviewers =
              Swapped(r.reviewers, old, new)
         /\ Ledger!Replaced(r, old, new).history =
              Append(r.history, [old |-> old, new |-> new])
<1> DEFINE kept == Swapped(r.reviewers, old, new)
           log == Append(r.history, [old |-> old, new |-> new])
           s == Ledger!Replaced(r, old, new)
<1>1. kept \in SUBSET User
  BY DEF Ledger!Record, Swapped
<1>2. log \in Seq([old : User, new : User \cup {Nil}])
  BY AppendProperties DEF Ledger!Record
<1>3. s = [r EXCEPT !.reviewers = kept, !.history = log]
  BY Zenon DEF Ledger!Replaced, Swapped
<1> HIDE DEF kept, log, s
<1>4. /\ s \in Ledger!Record
      /\ s.author = r.author /\ s.status = r.status
      /\ s.reviewers = kept /\ s.history = log
  BY <1>1, <1>2, <1>3 DEF Ledger!Record
<1> QED
  BY <1>4 DEF kept, log, s

\* Replacing or removing one reviewer keeps a record sound.
LEMMA ChangedSound ==
  ASSUME NEW r \in Ledger!Record, Ledger!Sound(r), NEW s \in Ledger!Changed(r)
  PROVE  s \in Ledger!Record /\ Ledger!Sound(s) /\ s.author = r.author
<1>1. PICK old \in r.reviewers, new \in Ledger!Newcomers(r) \cup {Nil} :
        s = Ledger!Replaced(r, old, new)
  BY DEF Ledger!Changed
<1>2. r.reviewers \in SUBSET User /\ new # r.author
  BY <1>1, NilAssumption DEF Ledger!Record, Ledger!Newcomers, Row
<1>2a. old \in User
  BY <1>2
<1>2b. new \in User \cup {Nil}
  BY DEF Ledger!Newcomers
<1>3. /\ s \in Ledger!Record /\ s.author = r.author
      /\ s.reviewers = Swapped(r.reviewers, old, new)
  BY <1>1, <1>2a, <1>2b, ReplacedFields
<1>4. Cardinality(s.reviewers) <= 2
  BY <1>2, <1>2b, <1>3, SwapCardinality, LedgerCardinality DEF Ledger!Sound
<1>5. s.author \notin s.reviewers
  BY <1>2, <1>3 DEF Ledger!Sound, Swapped
<1> QED
  BY <1>3, <1>4, <1>5, LedgerCardinality DEF Ledger!Sound

\* So does replacing or removing both.
LEMMA HandedOverSound ==
  ASSUME NEW r \in Ledger!Record, Ledger!Sound(r), NEW s \in Ledger!HandedOver(r)
  PROVE  s \in Ledger!Record /\ Ledger!Sound(s)
<1>1. CASE s \in Ledger!Changed(r)
  BY <1>1, ChangedSound
<1>2. CASE \E q \in Ledger!Changed(r) : s \in Ledger!Changed(q)
  BY <1>2, ChangedSound
<1> QED
  BY <1>1, <1>2 DEF Ledger!HandedOver

\* Handing over the reviews of some is handing over reviews.
LEMMA RelievedChanged ==
  ASSUME NEW r, NEW S, NEW q \in Ledger!Relieved(r, S)
  PROVE  q \in Ledger!Changed(r)
BY DEF Ledger!Relieved, Ledger!Changed

\* So is handing over the reviews of some, one or both of them.
LEMMA HandedOverByIs ==
  ASSUME NEW r, NEW S, NEW q \in HandedOverBy(r, S)
  PROVE  q \in Ledger!HandedOver(r)
<1>1. CASE q \in Ledger!Relieved(r, S)
  BY <1>1, RelievedChanged DEF Ledger!HandedOver
<1>2. ASSUME NEW s \in Ledger!Relieved(r, S), q \in Ledger!Relieved(s, S)
      PROVE  q \in Ledger!HandedOver(r)
  <2>1. s \in Ledger!Changed(r) /\ q \in Ledger!Changed(s)
    BY <1>2, RelievedChanged
  <2> QED BY <2>1 DEF Ledger!HandedOver
<1> QED
  BY <1>1, <1>2 DEF HandedOverBy

-------------------------------------------------------------------------------
(* Lemmas about drafts.                                                    *)

\* The records of the committed tables.
LEMMA RecordsOfTables ==
  ASSUME TypeInv, NEW p \in PR
  PROVE  /\ prs[p] = Nil <=> Records[p] = Nil
         /\ prs[p] # Nil =>
              /\ Records[p] \in Ledger!Record
              /\ Records[p].author = prs[p].author
              /\ Records[p].status = prs[p].status
              /\ Records[p].reviewers = ReviewersOf(reviewers, p)
              /\ Records[p].history = history[p]
<1>1. prs[p] \in PrRow \cup {Nil} /\ history[p] \in Seq(Event)
  BY DatabaseFields DEF TypeInv
<1> QED
  BY <1>1, RecordExists, RecordFields DEF Records

\* What a transaction reads of the reviewers of a PR is what its draft says.
LEMMA DraftReviewers ==
  ASSUME TypeInv, NoOrphans, NEW c \in Client, NEW p \in PR
  PROVE  ReviewersOf(ReviewersSeenBy(c), p) =
           Draft(tx[c], Records[p], p).reviewers
<1>1. ReviewersOf(reviewers, p) =
        IF Records[p] = Nil THEN {} ELSE Records[p].reviewers
  <2>1. CASE prs[p] = Nil
    BY <2>1, RecordsOfTables DEF NoOrphans
  <2>2. CASE prs[p] # Nil
    BY <2>2, RecordsOfTables
  <2> QED BY <2>1, <2>2
<1>2. ReviewersOf(ReviewersSeenBy(c), p) =
        (ReviewersOf(reviewers, p) \ Removed(tx[c], p)) \cup Added(tx[c], p)
  BY DEF ReviewersOf, ReviewersSeenBy, Removed, Added
<1> QED
  BY <1>1, <1>2 DEF Draft

\* The draft of a PR that has not been touched is the committed record.
LEMMA DraftUntouched ==
  ASSUME NEW t \in Transaction, NEW r \in Ledger!Record, NEW p \in PR,
         ~Touches(t, p)
  PROVE  Draft(t, r, p) = r
<1> DEFINE d == Draft(t, r, p)
<1>1. Added(t, p) = {} /\ Removed(t, p) = {} /\ t.wLog[p] = <<>>
  BY DEF Touches, Added, Removed
<1>2. r # Nil /\ t.wPrs[p] = Nil
  BY RecordAssumption DEF Touches
<1>3. r.history \o <<>> = r.history
  BY ConcatEmptySeq DEF Ledger!Record
<1>4. /\ d.author = r.author /\ d.status = r.status
      /\ d.reviewers = r.reviewers /\ d.history = r.history
  BY <1>1, <1>2, <1>3 DEF Draft
<1>5. d = [author |-> d.author, status |-> d.status,
           reviewers |-> d.reviewers, history |-> d.history]
  BY DEF Draft
<1> HIDE DEF d
<1>6. d = r
  BY <1>4, <1>5 DEF Ledger!Record
<1> QED
  BY <1>6 DEF d

\* COMMIT turns the drafts of the PRs touched into their records, and leaves
\* the other records as they are.
LEMMA PublishRecords ==
  ASSUME Inv, NoOrphans, NEW c \in Client, Publish(c)
  PROVE  /\ NoOrphans'
         /\ \A p \in PR :
              Records'[p] = IF Touches(tx[c], p)
                            THEN Draft(tx[c], Records[p], p) ELSE Records[p]
<1> tx[c] \in Transaction /\ Careful(tx[c], prs)
  BY TxOfClient DEF Inv, LockInv
<1> /\ prs \in [PR -> PrRow \cup {Nil}]
    /\ history \in [PR -> Seq(Event)]
  BY DatabaseFields DEF Inv, TypeInv
<1>1. ASSUME NEW p \in PR
      PROVE  /\ prs'[p] = IF tx[c].wPrs[p] # Nil THEN tx[c].wPrs[p] ELSE prs[p]
             /\ ReviewersOf(reviewers', p) =
                  Draft(tx[c], Records[p], p).reviewers
             /\ history'[p] = history[p] \o tx[c].wLog[p]
  <2>1. ReviewersOf(reviewers', p) = Draft(tx[c], Records[p], p).reviewers
    BY DraftReviewers DEF Publish, Inv
  <2> QED BY <2>1 DEF Publish, PrsSeenBy
<1>2. ASSUME NEW p \in PR, ~Touches(tx[c], p)
      PROVE  /\ prs'[p] = prs[p]
             /\ ReviewersOf(reviewers', p) = ReviewersOf(reviewers, p)
             /\ history'[p] = history[p]
  <2>1. prs'[p] = prs[p]
    BY <1>2 DEF Publish, PrsSeenBy, Touches
  <2>2. ReviewersOf(reviewers', p) = ReviewersOf(reviewers, p)
    BY <1>2 DEF Publish, ReviewersSeenBy, ReviewersOf, Touches
  <2>3. history'[p] = history[p] \o <<>>
    BY <1>2 DEF Publish, Touches
  <2>4. history[p] \o <<>> = history[p]
    BY ConcatEmptySeq
  <2> QED BY <2>1, <2>2, <2>3, <2>4
<1>3. \A p \in PR : Touches(tx[c], p) /\ prs[p] = Nil => tx[c].wPrs[p] # Nil
  BY DEF Careful
<1>4. ASSUME NEW p \in PR, prs'[p] = Nil
      PROVE  ReviewersOf(reviewers', p) = {} /\ history'[p] = <<>>
  <2>1. prs[p] = Nil /\ tx[c].wPrs[p] = Nil
    BY <1>1, <1>4
  <2>2. ~Touches(tx[c], p)
    BY <1>3, <2>1
  <2> QED BY <1>2, <2>1, <2>2 DEF NoOrphans
<1>5. ASSUME NEW p \in PR, ~Touches(tx[c], p) PROVE Records'[p] = Records[p]
  BY <1>2, <1>5 DEF Records, LedgerOf
<1>6. ASSUME NEW p \in PR, Touches(tx[c], p)
      PROVE  Records'[p] = Draft(tx[c], Records[p], p)
  <2>1. prs'[p] # Nil
    BY <1>1, <1>3, <1>6
  <2>2. Records'[p] = [author    |-> prs'[p].author,
                       status    |-> prs'[p].status,
                       reviewers |-> ReviewersOf(reviewers', p),
                       history   |-> history'[p]]
    BY <2>1 DEF Records, LedgerOf
  <2>3. history'[p] =
          (IF Records[p] = Nil THEN <<>> ELSE Records[p].history) \o tx[c].wLog[p]
    BY <1>1, RecordsOfTables DEF NoOrphans, Inv
  <2>4. /\ prs'[p].author = IF tx[c].wPrs[p] = Nil THEN Records[p].author
                                                   ELSE tx[c].wPrs[p].author
        /\ prs'[p].status = IF tx[c].wPrs[p] = Nil THEN Records[p].status
                                                   ELSE tx[c].wPrs[p].status
    BY <1>1, <1>3, <1>6, RecordsOfTables DEF Inv
  <2>5. ReviewersOf(reviewers', p) = Draft(tx[c], Records[p], p).reviewers
    BY <1>1
  <2>6. Draft(tx[c], Records[p], p).reviewers =
          ((IF Records[p] = Nil THEN {} ELSE Records[p].reviewers)
             \ Removed(tx[c], p)) \cup Added(tx[c], p)
    BY DEF Draft
  <2> QED BY <2>2, <2>3, <2>4, <2>5, <2>6 DEF Draft
<1> QED
  BY <1>4, <1>5, <1>6 DEF NoOrphans

\* Drafted(t, rec) looks at the records of the PRs t has locked only.
LEMMA DraftStable ==
  ASSUME NEW t \in Transaction, Shape(t, users, prs), Careful(t, prs),
         NEW rec, NEW new, Drafted(t, rec),
         \A p \in PR : p \in t.locks => new[p] = rec[p]
  PROVE  Drafted(t, new)
<1>1. t.pc \in {"selectCandidatesQuery", "selectReviewerTeamQuery",
                "selectReplacementCandidatesQuery"} => t.req.pr \in PR
  BY RequestFields DEF Shape
<1>2. t.pc = "commit" /\ t.req.op \in {"CreatePR", "MergePR", "ReassignReviewer"}
        => t.req.pr \in PR
  BY RequestFields DEF Shape
<1>3. t.pc = "activeReplacementQuery" => t.at \in PR /\ t.at \in t.locks
  BY DEF Shape, Careful, HoldsOpen
<1>4. t.pc \in {"selectReviewerTeamQuery", "selectReplacementCandidatesQuery"}
        => t.req.pr \in t.locks
  BY DEF Careful, HoldsOpen
<1>5. \A p \in PR : Touches(t, p) => new[p] = rec[p]
  BY DEF Careful
<1>6. Creating(t, new)
  BY <1>1 DEF Drafted, Creating
<1>7. Created(t, new)
  BY <1>2 DEF Drafted, Created
<1>8. Merged(t, new)
  BY <1>2 DEF Drafted, Merged
<1>9. Reassigning(t, new)
  BY <1>1, <1>4 DEF Drafted, Reassigning
<1>10. Reassigned(t, new)
  BY <1>2 DEF Drafted, Reassigned
<1>11. HandingOver(t, new)
  BY <1>5 DEF Drafted, HandingOver
<1>12. HandingOne(t, new)
  BY <1>3 DEF Drafted, HandingOne
<1> QED
  BY <1>6, <1>7, <1>8, <1>9, <1>10, <1>11, <1>12 DEF Drafted

\* A transaction that has changed nothing has no draft; DeactivateTeam, which
\* also keeps lists of users and PRs, starts with empty ones.
LEMMA NothingDrafted ==
  ASSUME NEW rec, NEW t,
         t.pc \in Label \ DraftLabel,
         t.pc \notin {"selectReviewerTeamQuery",
                     "selectReplacementCandidatesQuery"},
         t.locks = {}, t.impacted = {}, t.deactivated = {},
         t.wPrs = Idle.wPrs, t.wLog = Idle.wLog, t.wAdd = {}, t.wDel = {}
  PROVE  Drafted(t, rec)
<1>1. /\ Idle.wPrs = [p \in PR |-> Nil]
      /\ Idle.wLog = [p \in PR |-> <<>>]
  BY DEF Idle
<1>2. \A p \in PR : ~Touches(t, p) /\ t.wPrs[p] = Nil
  BY <1>1 DEF Touches
<1>3. /\ Creating(t, rec) /\ Created(t, rec) /\ Merged(t, rec)
      /\ Reassigning(t, rec) /\ Reassigned(t, rec) /\ HandingOne(t, rec)
  BY DEF DraftLabel, Creating, Created, Merged, Reassigning, Reassigned,
         HandingOne
<1>4. HandingOver(t, rec)
  BY <1>2 DEF DraftLabel, HandingOver
<1> QED
  BY <1>2, <1>3, <1>4 DEF DraftLabel, Drafted

\* A handler between requests has no draft.
LEMMA IdleDrafted ==
  ASSUME NEW rec
  PROVE  Drafted(Idle, rec)
<1>1. /\ Idle.pc \in Label \ DraftLabel
      /\ Idle.pc \notin {"selectReviewerTeamQuery",
                        "selectReplacementCandidatesQuery"}
      /\ Idle.locks = {} /\ Idle.impacted = {} /\ Idle.deactivated = {}
      /\ Idle.wAdd = {} /\ Idle.wDel = {}
  BY DEF Idle, Label, DraftLabel
<1> QED
  BY <1>1, NothingDrafted

\* A statement inside a transaction keeps the drafts of DraftInv.
LEMMA ProceedDrafts ==
  ASSUME LedgerInv, NEW c \in Client, NEW next, Proceed(c, next),
         Drafted(next, Records)
  PROVE  DraftInv'
<1>1. /\ tx' = [tx EXCEPT ![c] = next]
      /\ prs' = prs /\ reviewers' = reviewers /\ history' = history
  BY DEF Proceed
<1>2. tx \in [Client -> Transaction]
  BY DEF LedgerInv, Inv, TypeInv, TypeOK
<1>3. Records' = Records
  BY <1>1 DEF Records
<1>4. NoOrphans' /\ AtMostTwoNeverAuthor'
  BY <1>1 DEF LedgerInv, DraftInv, NoOrphans, AtMostTwoNeverAuthor
<1>5. \A d \in Client : Drafted(tx'[d], Records)
  BY <1>1, <1>2 DEF LedgerInv, DraftInv
<1> QED
  BY <1>3, <1>4, <1>5 DEF DraftInv

\* The end of a transaction: records of PRs it has not locked are as before.
LEMMA EndDrafts ==
  ASSUME LedgerInv, NEW c \in Client, NEW next,
         tx' = [tx EXCEPT ![c] = next], Drafted(next, Records'),
         NoOrphans', AtMostTwoNeverAuthor',
         \A p \in PR : p \notin tx[c].locks => Records'[p] = Records[p]
  PROVE  DraftInv'
<1>1. tx \in [Client -> Transaction]
  BY DEF LedgerInv, Inv, TypeInv, TypeOK
<1>2. ASSUME NEW d \in Client PROVE Drafted(tx'[d], Records')
  <2>1. CASE d = c
    BY <1>1, <2>1
  <2>2. CASE d # c
    <3>1. /\ tx'[d] = tx[d] /\ tx[d] \in Transaction
          /\ Shape(tx[d], users, prs) /\ Careful(tx[d], prs)
          /\ Drafted(tx[d], Records)
      BY <1>1, <2>2, TxOfClient DEF LedgerInv, Inv, LockInv, DraftInv
    <3>2. \A p \in PR : p \in tx[d].locks => Records'[p] = Records[p]
      BY <2>2 DEF LedgerInv, Inv, LockInv, Exclusive
    <3> QED BY <3>1, <3>2, DraftStable
  <2> QED BY <2>1, <2>2
<1> QED
  BY <1>2 DEF DraftInv

\* The end of a transaction that changes no PR.
LEMMA KeptDrafts ==
  ASSUME LedgerInv, NEW c \in Client, NEW next,
         tx' = [tx EXCEPT ![c] = next], Drafted(next, Records),
         prs' = prs, reviewers' = reviewers, history' = history
  PROVE  DraftInv'
<1>1. Records' = Records
  BY DEF Records
<1>2. NoOrphans' /\ AtMostTwoNeverAuthor'
  BY DEF LedgerInv, DraftInv, NoOrphans, AtMostTwoNeverAuthor
<1> QED
  BY <1>1, <1>2, EndDrafts

\* A rollback keeps the drafts of DraftInv.
LEMMA FailDrafts ==
  ASSUME LedgerInv, NEW c \in Client, NEW err, Fail(c, err)
  PROVE  DraftInv'
BY IdleDrafted, KeptDrafts DEF Fail, Finish, tables

-------------------------------------------------------------------------------
(* One lemma per action.                                                   *)

\* What every action lemma starts from.
LEMMA ClientFacts ==
  ASSUME LedgerInv, NEW c \in Client
  PROVE  /\ tx[c] \in Transaction /\ Shape(tx[c], users, prs)
         /\ Careful(tx[c], prs) /\ Drafted(tx[c], Records)
BY TxOfClient DEF LedgerInv, Inv, LockInv, DraftInv

\* A request that arrives (its transaction begins) keeps the drafts of
\* DraftInv.
LEMMA BeginDrafts ==
  ASSUME LedgerInv, NEW c \in Client, NEW r \in AnyRequest, Begin(c, r)
  PROVE  DraftInv'
<1> tx[c] \in Transaction /\ Shape(tx[c], users, prs)
  BY ClientFacts
<1>1. tx' = [tx EXCEPT ![c].pc = FirstStatement[r.op], ![c].req = r]
  BY DEF Begin
<1> DEFINE next == [Idle EXCEPT !.pc = FirstStatement[r.op], !.req = r]
<1>2. r \in AnyRequest
  OBVIOUS
<1>3. tx[c] = Idle
  BY DEF Begin, Shape
<1>4. /\ FirstStatement[r.op] \in Label \ DraftLabel
      /\ FirstStatement[r.op] \notin {"selectReviewerTeamQuery",
                                     "selectReplacementCandidatesQuery"}
  BY <1>2, RequestFields DEF FirstStatement, Label, DraftLabel
<1>5. tx' = [tx EXCEPT ![c] = next]
  BY <1>1, <1>3 DEF LedgerInv, Inv, TypeInv, TypeOK, Idle
<1>6. Drafted(next, Records)
  <2>1. /\ next.pc = FirstStatement[r.op] /\ next.locks = {}
        /\ next.impacted = {} /\ next.deactivated = {}
        /\ next.wPrs = Idle.wPrs /\ next.wLog = Idle.wLog
        /\ next.wAdd = {} /\ next.wDel = {}
    BY DEF Idle
  <2> HIDE DEF next
  <2> QED BY <1>4, <2>1, NothingDrafted
<1>7. prs' = prs /\ reviewers' = reviewers /\ history' = history
  BY DEF Begin, tables
<1> QED
  BY <1>5, <1>6, <1>7, KeptDrafts

\* A transaction with the same writes has the same drafts.
LEMMA SameDraft ==
  ASSUME NEW t, NEW next, next.wPrs = t.wPrs, next.wLog = t.wLog,
         next.wAdd = t.wAdd, next.wDel = t.wDel, NEW p \in PR
  PROVE  /\ Touches(next, p) <=> Touches(t, p)
         /\ \A r : Draft(next, r, p) = Draft(t, r, p)
<1>1. Added(next, p) = Added(t, p) /\ Removed(next, p) = Removed(t, p)
  BY DEF Added, Removed
<1>2. Touches(next, p) <=> Touches(t, p)
  BY DEF Touches
<1>3. ASSUME NEW r PROVE Draft(next, r, p) = Draft(t, r, p)
  BY <1>1, Zenon DEF Draft
<1> QED
  BY <1>2, <1>3

\* The step from t to next deletes the reviewer old of p, inserts new (Nil:
\* nobody) and logs it.
Replaces(t, next, p, old, new) ==
  /\ next.wPrs = t.wPrs
  /\ next.wDel = t.wDel \cup {<<p, old>>}
  /\ next.wAdd = (t.wAdd \ {<<p, old>>}) \cup ({p} \X ({new} \ {Nil}))
  /\ next.wLog = [t.wLog EXCEPT ![p] = Append(@, Logged(old, new))]

\* A replacement at p leaves the drafts of other PRs alone.
LEMMA OtherDraft ==
  ASSUME NEW t, NEW next, NEW p \in PR, NEW old, NEW new,
         t.wLog \in [PR -> Seq(Event)],
         Replaces(t, next, p, old, new), NEW q \in PR, q # p
  PROVE  /\ Touches(next, q) <=> Touches(t, q)
         /\ \A r : Draft(next, r, q) = Draft(t, r, q)
<1>1. next.wPrs = t.wPrs /\ next.wLog[q] = t.wLog[q]
  BY DEF Replaces
<1>2. \A u : /\ <<q, u>> \in next.wAdd <=> <<q, u>> \in t.wAdd
             /\ <<q, u>> \in next.wDel <=> <<q, u>> \in t.wDel
  BY DEF Replaces
<1>3. Touches(next, q) <=> Touches(t, q)
  BY <1>1, <1>2 DEF Touches
<1>4. Added(next, q) = Added(t, q) /\ Removed(next, q) = Removed(t, q)
  BY <1>2 DEF Added, Removed
<1>5. ASSUME NEW r PROVE Draft(next, r, q) = Draft(t, r, q)
  BY <1>1, <1>4, Zenon DEF Draft
<1> QED
  BY <1>3, <1>5

\* A statement of a request that is not about PRs, or of one that has not
\* reached its PR.
LEMMA UndraftedStep ==
  ASSUME NEW rec, NEW t, NEW next,
         \A p \in PR : ~Touches(t, p),
         next.wPrs = t.wPrs, next.wLog = t.wLog,
         next.wAdd = t.wAdd, next.wDel = t.wDel,
         \/ next.pc \notin DraftLabel \cup DeactivateLabel
                          \cup {"selectReviewerTeamQuery",
                                "selectReplacementCandidatesQuery"}
         \/ next.pc = "commit" /\ next.req.op = "CreateTeam"
  PROVE  Drafted(next, rec)
<1>1. \A p \in PR : ~Touches(next, p)
  BY SameDraft
<1> QED
  BY <1>1 DEF Drafted, DraftLabel, DeactivateLabel, Creating, Created, Merged,
              Reassigning, Reassigned, HandingOver, HandingOne

\* CreatePR's look-up of the author keeps the drafts of DraftInv.
LEMMA SelectAuthorDrafts ==
  ASSUME LedgerInv, NEW c \in Client, SelectAuthor(c)
  PROVE  DraftInv'
<1> tx[c] \in Transaction /\ Drafted(tx[c], Records)
  BY ClientFacts
<1> DEFINE next == [tx[c] EXCEPT !.pc = "insertPRQuery",
                                 !.team = users[tx[c].req.user].team]
<1>1. CASE \E err : Fail(c, err)
  BY <1>1, FailDrafts
<1>2. CASE Proceed(c, next)
  <2>1. \A p \in PR : ~Touches(tx[c], p)
    BY DEF SelectAuthor, Drafted, DraftLabel
  <2>2. /\ next.pc = "insertPRQuery"
        /\ next.wPrs = tx[c].wPrs /\ next.wLog = tx[c].wLog
        /\ next.wAdd = tx[c].wAdd /\ next.wDel = tx[c].wDel
    BY DEF Transaction
  <2> HIDE DEF next
  <2>3. Drafted(next, Records)
    BY <2>1, <2>2, UndraftedStep DEF DraftLabel, DeactivateLabel
  <2> QED BY <1>2, <2>3, ProceedDrafts
<1> QED
  BY <1>1, <1>2 DEF SelectAuthor

\* The start of SetUserActive's statement keeps the drafts of DraftInv.
LEMMA StartSetUserActiveDrafts ==
  ASSUME LedgerInv, NEW c \in Client, StartSetUserActive(c)
  PROVE  DraftInv'
<1> tx[c] \in Transaction /\ Drafted(tx[c], Records)
  BY ClientFacts
<1> DEFINE next == [tx[c] EXCEPT !.pc = "updated", !.snapshot = teams]
<1>1. CASE \E err : Fail(c, err)
  BY <1>1, FailDrafts
<1>2. CASE Proceed(c, next)
  <2>1. \A p \in PR : ~Touches(tx[c], p)
    BY DEF StartSetUserActive, Drafted, DraftLabel
  <2>2. /\ next.pc = "updated"
        /\ next.wPrs = tx[c].wPrs /\ next.wLog = tx[c].wLog
        /\ next.wAdd = tx[c].wAdd /\ next.wDel = tx[c].wDel
    BY DEF Transaction
  <2> HIDE DEF next
  <2>3. Drafted(next, Records)
    BY <2>1, <2>2, UndraftedStep DEF DraftLabel, DeactivateLabel
  <2> QED BY <1>2, <2>3, ProceedDrafts
<1> QED
  BY <1>1, <1>2 DEF StartSetUserActive

\* SetUserActive's UPDATE keeps the drafts of DraftInv.
LEMMA UpdateUserActiveDrafts ==
  ASSUME LedgerInv, NEW c \in Client, UpdateUserActive(c)
  PROVE  DraftInv'
BY IdleDrafted, KeptDrafts DEF UpdateUserActive, Finish

\* CreateTeam's INSERT of the team keeps the drafts of DraftInv.
LEMMA InsertTeamDrafts ==
  ASSUME LedgerInv, NEW c \in Client, InsertTeam(c)
  PROVE  DraftInv'
<1> tx[c] \in Transaction /\ Shape(tx[c], users, prs) /\ Drafted(tx[c], Records)
  BY ClientFacts
<1> DEFINE t == tx[c].req.team
           next == [tx[c] EXCEPT !.pc = AfterMember(tx[c].req.members),
                                 !.locks = @ \cup {t},
                                 !.members = tx[c].req.members,
                                 !.wTeams = @ \cup {t}]
<1>1. CASE \E err : Fail(c, err)
  BY <1>1, FailDrafts
<1>2. CASE Proceed(c, next)
  <2>1. /\ \A p \in PR : ~Touches(tx[c], p)
        /\ tx[c].req.op = "CreateTeam"
    BY DEF InsertTeam, Drafted, DraftLabel, Shape
  <2>2. /\ next.pc \in {"commit", "upsertUserQuery"} /\ next.req = tx[c].req
        /\ next.wPrs = tx[c].wPrs /\ next.wLog = tx[c].wLog
        /\ next.wAdd = tx[c].wAdd /\ next.wDel = tx[c].wDel
    BY DEF Transaction, AfterMember
  <2> HIDE DEF next
  <2>3. Drafted(next, Records)
    BY <2>1, <2>2, UndraftedStep DEF DraftLabel, DeactivateLabel
  <2> QED BY <1>2, <2>3, ProceedDrafts
<1> QED
  BY <1>1, <1>2 DEF InsertTeam

\* CreateTeam's upsert of one member keeps the drafts of DraftInv.
LEMMA UpsertUserDrafts ==
  ASSUME LedgerInv, NEW c \in Client, UpsertUser(c)
  PROVE  DraftInv'
<1> tx[c] \in Transaction /\ Shape(tx[c], users, prs) /\ Drafted(tx[c], Records)
  BY ClientFacts
<1> DEFINE m == Head(tx[c].members)
           row == [team |-> tx[c].req.team, active |-> m.active]
           next == [tx[c] EXCEPT
             !.pc = AfterMember(Tail(tx[c].members)),
             !.locks = @ \cup {m.id},
             !.members = Tail(@),
             !.wUsers[m.id] = row]
<1>1. Proceed(c, next)
  BY DEF UpsertUser
<1>2. /\ \A p \in PR : ~Touches(tx[c], p)
      /\ tx[c].req.op = "CreateTeam"
  BY DEF UpsertUser, Drafted, DraftLabel, Shape
<1> HIDE DEF m, row
<1>3. /\ next.pc \in {"commit", "upsertUserQuery"} /\ next.req = tx[c].req
      /\ next.wPrs = tx[c].wPrs /\ next.wLog = tx[c].wLog
      /\ next.wAdd = tx[c].wAdd /\ next.wDel = tx[c].wDel
  BY DEF Transaction, AfterMember
<1> HIDE DEF next
<1>4. Drafted(next, Records)
  BY <1>2, <1>3, UndraftedStep DEF DraftLabel, DeactivateLabel
<1> QED
  BY <1>1, <1>4, ProceedDrafts

\* CreateTeam's read of its answer keeps the drafts of DraftInv.
LEMMA GetTeamDrafts ==
  ASSUME LedgerInv, NEW c \in Client, GetTeam(c)
  PROVE  DraftInv'
BY IdleDrafted, KeptDrafts DEF GetTeam, Finish, tables

\* CreatePR's INSERT of the PR starts its draft.
LEMMA InsertPRDrafts ==
  ASSUME LedgerInv, NEW c \in Client, InsertPR(c)
  PROVE  DraftInv'
<1> tx[c] \in Transaction /\ Shape(tx[c], users, prs) /\ Drafted(tx[c], Records)
  BY ClientFacts
<1> DEFINE p == tx[c].req.pr
           row == [author |-> tx[c].req.user, status |-> "OPEN"]
           next == [tx[c] EXCEPT !.pc = "selectCandidatesQuery",
                                 !.locks = @ \cup {p},
                                 !.wPrs[p] = row]
<1>1. CASE \E err : Fail(c, err)
  BY <1>1, FailDrafts
<1>2. CASE prs[p] = Nil /\ Proceed(c, next)
  <2>1. p \in PR /\ \A q \in PR : ~Touches(tx[c], q)
    BY RequestFields DEF InsertPR, Shape, Drafted, DraftLabel
  <2>2. Records[p] = Nil
    BY <1>2, <2>1, RecordsOfTables DEF LedgerInv, Inv
  <2>3. /\ next.pc = "selectCandidatesQuery" /\ next.req = tx[c].req
        /\ p \in next.locks
        /\ next.wPrs[p] = row
        /\ \A q \in PR : q # p => next.wPrs[q] = tx[c].wPrs[q]
        /\ next.wLog = tx[c].wLog
        /\ next.wAdd = tx[c].wAdd /\ next.wDel = tx[c].wDel
    BY <2>1 DEF Transaction
  <2> HIDE DEF next
  <2>4. TouchesOnly(next, p)
    BY <2>1, <2>3 DEF TouchesOnly, Touches
  <2>5. Added(next, p) = {} /\ Removed(next, p) = {} /\ next.wLog[p] = <<>>
    BY <2>1, <2>3 DEF Added, Removed, Touches
  <2>6. Creating(next, Records)
    BY <2>2, <2>3, <2>4, <2>5 DEF Creating
  <2>7. Drafted(next, Records)
    BY <2>3, <2>6 DEF Drafted, DraftLabel, DeactivateLabel, Created, Merged,
                      Reassigning, Reassigned, HandingOver, HandingOne
  <2> QED BY <1>2, <2>7, ProceedDrafts
<1> QED
  BY <1>1, <1>2 DEF InsertPR

\* A draw of at most two users.
LEMMA PickTwo ==
  ASSUME NEW S \in SUBSET User, NEW R \in PickRandom(S, 2)
  PROVE  R \in SUBSET S /\ Cardinality(R) <= 2
<1>1. Cardinality(S) \in Nat
  BY UserAssumption, FS_Subset, FS_CardinalityType
<1> QED
  BY <1>1 DEF PickRandom

\* CreatePR's draw of reviewers completes the draft of a new record.
LEMMA SelectCandidatesDrafts ==
  ASSUME LedgerInv, NEW c \in Client, SelectCandidates(c)
  PROVE  DraftInv'
<1> tx[c] \in Transaction /\ Shape(tx[c], users, prs) /\ Drafted(tx[c], Records)
  BY ClientFacts
<1> DEFINE p == tx[c].req.pr
           a == tx[c].req.user
           S == TeamCandidates(users, tx[c].team, a)
           next(R) == [tx[c] EXCEPT !.pc = "commit", !.seen = R,
                                    !.wAdd = @ \cup ({p} \X R)]
<1>1. PICK R \in PickRandom(S, 2) : Proceed(c, next(R))
  BY DEF SelectCandidates
<1>2. /\ p \in PR /\ a \in User /\ tx[c].req.op = "CreatePR"
      /\ tx[c].pc = "selectCandidatesQuery"
  BY RequestFields DEF SelectCandidates, Shape
<1>3. S \in SUBSET User /\ a \notin S
  BY DEF TeamCandidates, ActiveUsers
<1> HIDE DEF S
<1>4. R \in SUBSET User /\ a \notin R /\ Cardinality(R) <= 2
  BY <1>3, PickTwo
<1>5. /\ Records[p] = Nil /\ p \in tx[c].locks
      /\ TouchesOnly(tx[c], p)
      /\ tx[c].wPrs[p] = [author |-> a, status |-> "OPEN"]
      /\ Added(tx[c], p) = {} /\ Removed(tx[c], p) = {}
      /\ tx[c].wLog[p] = <<>>
  BY <1>2 DEF Drafted, Creating
<1>6. /\ next(R).pc = "commit" /\ next(R).req = tx[c].req
      /\ next(R).locks = tx[c].locks /\ next(R).seen = R
      /\ next(R).wPrs = tx[c].wPrs /\ next(R).wLog = tx[c].wLog
      /\ next(R).wAdd = tx[c].wAdd \cup ({p} \X R)
      /\ next(R).wDel = tx[c].wDel
  BY DEF Transaction
<1> HIDE DEF next
<1>7. TouchesOnly(next(R), p)
  BY <1>2, <1>5, <1>6 DEF TouchesOnly, Touches
<1>8. Added(next(R), p) = R /\ Removed(next(R), p) = {}
  BY <1>2, <1>4, <1>5, <1>6 DEF Added, Removed
<1>9. tx[c].wPrs[p] # Nil
  BY <1>2, <1>5, NilAssumption DEF PrRow, Status
<1> DEFINE draft == Draft(next(R), Nil, p)
<1>10. /\ draft.author = a /\ draft.status = "OPEN" /\ draft.reviewers = R
       /\ draft.history = <<>>
  BY <1>5, <1>6, <1>8, <1>9 DEF Draft
<1>11. draft \in Ledger!NewRecord
  <2>1. draft = [author |-> a, status |-> "OPEN", reviewers |-> R,
                 history |-> <<>>]
    BY <1>10, Zenon DEF Draft
  <2> HIDE DEF draft
  <2>2. draft \in Ledger!Record
    BY <1>2, <1>4, <2>1 DEF Ledger!Record
  <2>3. Ledger!Sound(draft)
    BY <1>4, <2>1, LedgerCardinality DEF Ledger!Sound
  <2> QED BY <2>1, <2>2, <2>3 DEF Ledger!NewRecord
<1>12. Created(next(R), Records)
  BY <1>5, <1>6, <1>7, <1>10, <1>11 DEF Created
<1>13. Drafted(next(R), Records)
  BY <1>2, <1>6, <1>12
     DEF Drafted, DraftLabel, DeactivateLabel, Creating, Merged, Reassigning,
         Reassigned, HandingOver, HandingOne
<1> QED
  BY <1>1, <1>13, ProceedDrafts

\* MergePR's SELECT ... FOR UPDATE and UPDATE draft the merged record, or
\* nothing when the PR was merged before.
LEMMA SelectPRForMergeDrafts ==
  ASSUME LedgerInv, NEW c \in Client, SelectPRForMerge(c)
  PROVE  DraftInv'
<1> tx[c] \in Transaction /\ Shape(tx[c], users, prs) /\ Drafted(tx[c], Records)
  BY ClientFacts
<1> DEFINE p == tx[c].req.pr
           row == IF prs[p].status = "MERGED" THEN Nil
                  ELSE [prs[p] EXCEPT !.status = "MERGED"]
           next == [tx[c] EXCEPT !.pc = "commit",
                                 !.locks = @ \cup {p},
                                 !.seen = ReviewersOf(reviewers, p),
                                 !.wPrs[p] = row]
<1>1. CASE \E err : Fail(c, err)
  BY <1>1, FailDrafts
<1>2. CASE prs[p] # Nil /\ Proceed(c, next)
  <2>1. /\ p \in PR /\ tx[c].req.op = "MergePR"
        /\ \A q \in PR : ~Touches(tx[c], q)
    BY RequestFields DEF SelectPRForMerge, Shape, Drafted, DraftLabel
  <2>2. /\ Records[p] # Nil /\ Records[p] \in Ledger!Record
        /\ Records[p].author = prs[p].author
        /\ Records[p].status = prs[p].status
        /\ Records[p].reviewers = ReviewersOf(reviewers, p)
    BY <1>2, <2>1, RecordsOfTables DEF LedgerInv, Inv
  <2>3. prs[p] \in PrRow
    BY <1>2, <2>1, DatabaseFields DEF LedgerInv, Inv, TypeInv
  <2>4. row # Nil => row.author = prs[p].author /\ row.status = "MERGED"
    BY <2>3 DEF PrRow
  <2>5. Proceed(c, next)
    BY <1>2
  <2> HIDE DEF row
  <2>6. /\ next.pc = "commit" /\ next.req = tx[c].req
        /\ p \in next.locks /\ next.seen = ReviewersOf(reviewers, p)
        /\ next.wPrs[p] = row
        /\ \A q \in PR : q # p => next.wPrs[q] = tx[c].wPrs[q]
        /\ next.wLog = tx[c].wLog
        /\ next.wAdd = tx[c].wAdd /\ next.wDel = tx[c].wDel
    BY <2>1 DEF Transaction
  <2> HIDE DEF next
  <2>7. TouchesOnly(next, p)
    BY <2>1, <2>6 DEF TouchesOnly, Touches
  <2>8. Added(next, p) = {} /\ Removed(next, p) = {} /\ next.wLog[p] = <<>>
    BY <2>1, <2>6 DEF Added, Removed, Touches
  <2>9. Draft(next, Records[p], p).reviewers = Records[p].reviewers
    BY <2>2, <2>8 DEF Draft
  <2>10. ASSUME Touches(next, p)
         PROVE  Draft(next, Records[p], p) = [Records[p] EXCEPT !.status = "MERGED"]
    <3>1. row # Nil
      BY <2>1, <2>6, <2>10 DEF Touches
    <3>2. Records[p].history \o <<>> = Records[p].history
      BY <2>2, ConcatEmptySeq DEF Ledger!Record
    <3>3. Draft(next, Records[p], p) =
            [author |-> Records[p].author, status |-> "MERGED",
             reviewers |-> Records[p].reviewers,
             history |-> Records[p].history]
      BY <2>2, <2>4, <2>6, <2>8, <3>1, <3>2 DEF Draft
    <3>4. [Records[p] EXCEPT !.status = "MERGED"] =
            [author |-> Records[p].author, status |-> "MERGED",
             reviewers |-> Records[p].reviewers,
             history |-> Records[p].history]
      BY <2>2 DEF Ledger!Record
    <3> QED BY <3>3, <3>4
  <2>11. ASSUME ~Touches(next, p) PROVE Records[p].status = "MERGED"
    <3>1. row = Nil
      BY <2>1, <2>6, <2>11 DEF Touches
    <3>2. [prs[p] EXCEPT !.status = "MERGED"] \in PrRow
      BY <2>3 DEF PrRow, Status
    <3> QED BY <2>2, <3>1, <3>2, NilAssumption DEF row
  <2>12. Merged(next, Records)
    BY <2>2, <2>6, <2>7, <2>9, <2>10, <2>11 DEF Merged
  <2>13. Drafted(next, Records)
    BY <2>1, <2>6, <2>12
       DEF Drafted, DraftLabel, DeactivateLabel, Creating, Created,
           Reassigning, Reassigned, HandingOver, HandingOne
  <2> QED BY <2>5, <2>13, ProceedDrafts
<1> QED
  BY <1>1, <1>2 DEF SelectPRForMerge

\* ReassignReviewer's SELECT ... FOR UPDATE and checks: what it reads of the
\* reviewers is the committed record.
LEMMA SelectPRForReassignDrafts ==
  ASSUME LedgerInv, NEW c \in Client, SelectPRForReassign(c)
  PROVE  DraftInv'
<1> tx[c] \in Transaction /\ Shape(tx[c], users, prs) /\ Drafted(tx[c], Records)
  BY ClientFacts
<1> DEFINE p == tx[c].req.pr
           next == [tx[c] EXCEPT !.pc = "selectReviewerTeamQuery",
                                 !.locks = @ \cup {p},
                                 !.seen = ReviewersOf(reviewers, p)]
<1>1. CASE \E err : Fail(c, err)
  BY <1>1, FailDrafts
<1>2. CASE /\ prs[p] # Nil /\ tx[c].req.user \in ReviewersOf(reviewers, p)
           /\ Proceed(c, next)
  <2>1. p \in PR /\ \A q \in PR : ~Touches(tx[c], q)
    BY RequestFields DEF SelectPRForReassign, Shape, Drafted, DraftLabel
  <2>2. Records[p].reviewers = ReviewersOf(reviewers, p)
    BY <1>2, <2>1, RecordsOfTables DEF LedgerInv, Inv
  <2>3. /\ next.pc = "selectReviewerTeamQuery" /\ next.req = tx[c].req
        /\ next.seen = ReviewersOf(reviewers, p)
        /\ next.wPrs = tx[c].wPrs /\ next.wLog = tx[c].wLog
        /\ next.wAdd = tx[c].wAdd /\ next.wDel = tx[c].wDel
    BY DEF Transaction
  <2> HIDE DEF next
  <2>4. \A q \in PR : ~Touches(next, q)
    BY <2>1, <2>3, SameDraft
  <2>5. Reassigning(next, Records)
    BY <1>2, <2>2, <2>3 DEF Reassigning
  <2>6. Drafted(next, Records)
    BY <2>3, <2>4, <2>5
       DEF Drafted, DraftLabel, DeactivateLabel, Creating, Created, Merged,
           Reassigned, HandingOver, HandingOne
  <2> QED BY <1>2, <2>6, ProceedDrafts
<1> QED
  BY <1>1, <1>2 DEF SelectPRForReassign

\* ReassignReviewer's look-up of the old reviewer's team keeps the drafts of
\* DraftInv.
LEMMA SelectReviewerTeamDrafts ==
  ASSUME LedgerInv, NEW c \in Client, SelectReviewerTeam(c)
  PROVE  DraftInv'
<1> tx[c] \in Transaction /\ Shape(tx[c], users, prs) /\ Drafted(tx[c], Records)
  BY ClientFacts
<1> DEFINE next == [tx[c] EXCEPT !.pc = "selectReplacementCandidatesQuery",
                                 !.team = users[tx[c].req.user].team]
<1>1. CASE \E err : Fail(c, err)
  BY <1>1, FailDrafts
<1>2. CASE Proceed(c, next)
  <2>1. /\ \A q \in PR : ~Touches(tx[c], q)
        /\ tx[c].seen = Records[tx[c].req.pr].reviewers
        /\ tx[c].req.user \in tx[c].seen
    BY DEF SelectReviewerTeam, Drafted, DraftLabel, Reassigning
  <2>2. /\ next.pc = "selectReplacementCandidatesQuery"
        /\ next.req = tx[c].req /\ next.seen = tx[c].seen
        /\ next.wPrs = tx[c].wPrs /\ next.wLog = tx[c].wLog
        /\ next.wAdd = tx[c].wAdd /\ next.wDel = tx[c].wDel
    BY DEF Transaction
  <2> HIDE DEF next
  <2>3. \A q \in PR : ~Touches(next, q)
    BY <2>1, <2>2, SameDraft
  <2>4. Reassigning(next, Records)
    BY <2>1, <2>2 DEF Reassigning
  <2>5. Drafted(next, Records)
    BY <2>2, <2>3, <2>4
       DEF Drafted, DraftLabel, DeactivateLabel, Creating, Created, Merged,
           Reassigned, HandingOver, HandingOne
  <2> QED BY <1>2, <2>5, ProceedDrafts
<1> QED
  BY <1>1, <1>2 DEF SelectReviewerTeam

\* One more replacement in a draft.
LEMMA DraftReplaced ==
  ASSUME NEW t, NEW next, NEW r \in Ledger!Record, NEW p \in PR,
         t.wLog \in [PR -> Seq(Event)],
         Draft(t, r, p) \in Ledger!Record,
         NEW old \in User, NEW new \in User \cup {Nil},
         Replaces(t, next, p, old, new)
  PROVE  Draft(next, r, p) = Ledger!Replaced(Draft(t, r, p), old, new)
<1> USE DEF Replaces
<1> DEFINE d == Draft(t, r, p)
           e == Draft(next, r, p)
           ins == {new} \ {Nil}
<1>1. r # Nil
  BY RecordAssumption
<1>2. /\ Added(next, p) = (Added(t, p) \ {old}) \cup ins
      /\ Removed(next, p) = Removed(t, p) \cup {old}
  BY DEF Added, Removed
<1>3. e.reviewers = (d.reviewers \ {old}) \cup ins
  BY <1>1, <1>2 DEF Draft
<1>4. e.author = d.author /\ e.status = d.status
  BY DEF Draft
<1>5. e.history = Append(d.history, [old |-> old, new |-> new])
  <2> DEFINE x == [old |-> old, new |-> new]
             h == r.history
             l == t.wLog[p]
  <2>1. next.wLog[p] = Append(l, x)
    BY DEF Logged
  <2>2. h \in Seq(Event) /\ l \in Seq(Event) /\ x \in Event
    BY DEF Ledger!Record, Event
  <2>3. e.history = h \o next.wLog[p] /\ d.history = h \o l
    BY <1>1 DEF Draft
  <2> HIDE DEF d, e, x, h, l
  <2>4. h \o Append(l, x) = Append(h \o l, x)
    BY <2>2, AppendConcat
  <2>5. e.history = Append(d.history, x)
    BY <2>1, <2>3, <2>4
  <2> QED BY <2>5 DEF x
<1>6. e = [author |-> e.author, status |-> e.status,
           reviewers |-> e.reviewers, history |-> e.history]
  BY DEF Draft
<1>7. Ledger!Replaced(d, old, new) =
        [author |-> d.author, status |-> d.status,
         reviewers |-> (d.reviewers \ {old}) \cup ins,
         history |-> Append(d.history, [old |-> old, new |-> new])]
  <2> DEFINE kept == (d.reviewers \ {old}) \cup ins
             log == Append(d.history, [old |-> old, new |-> new])
  <2>1. d \in Ledger!Record
    OBVIOUS
  <2>2. Ledger!Replaced(d, old, new) = [d EXCEPT !.reviewers = kept, !.history = log]
    BY Zenon DEF Ledger!Replaced
  <2> HIDE DEF d, kept, log
  <2> QED BY <2>1, <2>2 DEF Ledger!Record, kept, log
<1> HIDE DEF d, e, ins
<1>8. e = Ledger!Replaced(d, old, new)
  BY <1>3, <1>4, <1>5, <1>6, <1>7
<1> QED
  BY <1>8 DEF d, e

\* ReassignReviewer's choice of the new reviewer completes the draft: the
\* committed record with one reviewer replaced by a newcomer.
LEMMA SelectReplacementDrafts ==
  ASSUME LedgerInv, NEW c \in Client, SelectReplacement(c)
  PROVE  DraftInv'
<1> /\ tx[c] \in Transaction /\ Shape(tx[c], users, prs)
    /\ Careful(tx[c], prs) /\ Drafted(tx[c], Records)
  BY ClientFacts
<1> DEFINE t == tx[c]
           p == tx[c].req.pr
           r == Records[p]
           old == tx[c].req.user
           S == TeamCandidates(users, tx[c].team, prs[p].author) \ tx[c].seen
           next(new) == [tx[c] EXCEPT
             !.pc = "commit",
             !.seen = (@ \ {old}) \cup {new},
             !.wDel = @ \cup {<<p, old>>},
             !.wAdd = @ \cup {<<p, new>>},
             !.wLog[p] = Append(@, Logged(old, new))]
<1>1. CASE \E err : Fail(c, err)
  BY <1>1, FailDrafts
<1>2. CASE \E new \in S : Proceed(c, next(new))
  <2>1. PICK new \in S : Proceed(c, next(new))
    BY <1>2
  <2>2. /\ t.pc = "selectReplacementCandidatesQuery" /\ p \in PR /\ old \in User
        /\ t.req.op = "ReassignReviewer"
    BY RequestFields DEF SelectReplacement, Shape
  <2>3. /\ \A q \in PR : ~Touches(t, q)
        /\ p \in t.locks /\ prs[p] # Nil
        /\ t.seen = r.reviewers /\ old \in t.seen
    BY <2>2 DEF Drafted, DraftLabel, Reassigning, Careful, HoldsOpen
  <2>4. r \in Ledger!Record /\ r # Nil /\ r.author = prs[p].author
    BY <2>2, <2>3, RecordsOfTables DEF LedgerInv, Inv
  <2>5. new \in User /\ new # r.author /\ new \notin r.reviewers /\ new # Nil
    BY <2>3, <2>4, NilAssumption DEF TeamCandidates, ActiveUsers, Row
  <2>6. Draft(t, r, p) = r
    BY <2>2, <2>3, <2>4, DraftUntouched
  <2> DEFINE n == next(new)
  <2>7. /\ n.pc = "commit" /\ n.req = t.req /\ n.locks = t.locks
        /\ n.seen = (t.seen \ {old}) \cup {new}
        /\ n.wPrs = t.wPrs
        /\ n.wDel = t.wDel \cup {<<p, old>>}
        /\ n.wAdd = t.wAdd \cup {<<p, new>>}
        /\ n.wLog = [t.wLog EXCEPT ![p] = Append(@, Logged(old, new))]
    BY DEF Transaction
  <2>8. t.wLog \in [PR -> Seq(Event)]
    BY DEF Transaction
  <2> HIDE DEF next, n, S
  <2>9. n.wAdd = (t.wAdd \ {<<p, old>>}) \cup ({p} \X ({new} \ {Nil}))
    <3>1. <<p, old>> \notin t.wAdd
      BY <2>2, <2>3 DEF Touches
    <3>2. {p} \X ({new} \ {Nil}) = {<<p, new>>}
      BY <2>5
    <3> QED BY <2>7, <3>1, <3>2
  <2>10. Draft(n, r, p) = Ledger!Replaced(r, old, new)
    <3> HIDE DEF t, p, r, old
    <3>1. Draft(t, r, p) \in Ledger!Record
      BY <2>4, <2>6
    <3>2. new \in User \cup {Nil}
      BY <2>5
    <3>3. Replaces(t, n, p, old, new)
      BY <2>7, <2>9 DEF Replaces
    <3>4. Draft(n, r, p) = Ledger!Replaced(Draft(t, r, p), old, new)
      BY <2>2, <2>4, <2>8, <3>1, <3>2, <3>3, DraftReplaced
    <3> QED BY <2>6, <3>4
  <2>11. Ledger!Replaced(r, old, new).reviewers = Swapped(r.reviewers, old, new)
    BY <2>2, <2>4, <2>5, ReplacedFields
  <2>12. n.seen = Draft(n, r, p).reviewers
    BY <2>3, <2>5, <2>7, <2>10, <2>11 DEF Swapped
  <2>13. TouchesOnly(n, p)
    BY <2>2, <2>3, <2>7, <2>8 DEF TouchesOnly, Touches
  <2>14. Reassigned(n, Records)
    <3>1. new \in Ledger!Newcomers(r) /\ old \in r.reviewers
      BY <2>3, <2>5 DEF Ledger!Newcomers
    <3>2. /\ Records[n.req.pr] # Nil /\ n.req.pr \in n.locks
          /\ TouchesOnly(n, n.req.pr)
          /\ n.seen = Draft(n, Records[n.req.pr], n.req.pr).reviewers
      BY <2>3, <2>4, <2>7, <2>12, <2>13
    <3>3. \E o \in Records[n.req.pr].reviewers,
             w \in Ledger!Newcomers(Records[n.req.pr]) :
            Draft(n, Records[n.req.pr], n.req.pr) =
              Ledger!Replaced(Records[n.req.pr], o, w)
      BY <2>7, <2>10, <3>1
    <3> QED BY <3>2, <3>3, Zenon DEF Reassigned
  <2>15. Drafted(n, Records)
    BY <2>2, <2>7, <2>14
       DEF Drafted, DraftLabel, DeactivateLabel, Creating, Created, Merged,
           Reassigning, HandingOver, HandingOne
  <2> QED BY <2>1, <2>15, ProceedDrafts DEF n
<1> QED
  BY <1>1, <1>2 DEF SelectReplacement

\* A statement of DeactivateTeam before it has locked a PR: what is left to
\* show is that the users it has deactivated are inactive.
LEMMA NoPRLocked ==
  ASSUME NEW rec, NEW t, NEW next,
         HandingOver(t, rec), t.pc \in DeactivateUsersLabel,
         \A p \in PR : ~Touches(t, p),
         next.wPrs = t.wPrs, next.wLog = t.wLog,
         next.wAdd = t.wAdd, next.wDel = t.wDel,
         next.locks \cap PR = {}, next.impacted = t.impacted,
         \A u \in next.deactivated : next.wUsers[u] # Nil /\ ~next.wUsers[u].active,
         next.pc \in DeactivateUsersLabel \cup {"lockImpacted", "commit"},
         next.req.op = "DeactivateTeam"
  PROVE  Drafted(next, rec)
<1>1. \A p \in PR : ~Touches(next, p)
  BY SameDraft
<1>2. t.impacted = {} /\ \A p \in PR : t.wPrs[p] = Nil
  BY DEF HandingOver, DeactivateUsersLabel, DeactivateLabel
<1>3. HandingOver(next, rec)
  BY <1>1, <1>2 DEF HandingOver
<1> QED
  BY <1>1, <1>3
     DEF Drafted, DraftLabel, DeactivateUsersLabel, Creating, Created, Merged,
         Reassigning, Reassigned, HandingOne

\* DeactivateTeam's look-up of the team keeps the drafts of DraftInv.
LEMMA SelectTeamForDeactivateDrafts ==
  ASSUME LedgerInv, NEW c \in Client, SelectTeamForDeactivate(c)
  PROVE  DraftInv'
<1> tx[c] \in Transaction /\ Shape(tx[c], users, prs) /\ Drafted(tx[c], Records)
  BY ClientFacts
<1> DEFINE t == tx[c].req.team
           rows == {u \in ActiveUsers(users) : users[u].team = t}
           next(r) == [tx[c] EXCEPT
             !.pc = IF r = Nil THEN "commit" ELSE "deactivateUsersQuery",
             !.team = t,
             !.at = r,
             !.todo = rows \ {r}]
<1>1. CASE \E err : Fail(c, err)
  BY <1>1, FailDrafts
<1>2. CASE \E r \in NextRow(rows) : Proceed(c, next(r))
  <2>1. PICK r \in NextRow(rows) : Proceed(c, next(r))
    BY <1>2
  <2>2. /\ tx[c].pc = "selectTeamIDForDeactivate"
        /\ tx[c].req.op = "DeactivateTeam"
    BY DEF SelectTeamForDeactivate, Shape, DeactivateLabel
  <2>3. /\ \A p \in PR : ~Touches(tx[c], p)
        /\ HandingOver(tx[c], Records)
        /\ tx[c].pc \in DeactivateUsersLabel
    BY <2>2 DEF Drafted, DraftLabel, DeactivateUsersLabel
  <2>4. /\ tx[c].locks \cap PR = {}
        /\ \A u \in tx[c].deactivated :
             tx[c].wUsers[u] # Nil /\ ~tx[c].wUsers[u].active
    BY <2>2, <2>3 DEF HandingOver, DeactivateLabel
  <2> DEFINE n == next(r)
  <2>5. /\ n.pc \in {"commit", "deactivateUsersQuery"}
        /\ n.req = tx[c].req /\ n.locks = tx[c].locks
        /\ n.impacted = tx[c].impacted /\ n.deactivated = tx[c].deactivated
        /\ n.wUsers = tx[c].wUsers
        /\ n.wPrs = tx[c].wPrs /\ n.wLog = tx[c].wLog
        /\ n.wAdd = tx[c].wAdd /\ n.wDel = tx[c].wDel
    BY DEF Transaction
  <2> HIDE DEF next, n
  <2>6. Drafted(n, Records)
    BY <2>2, <2>3, <2>4, <2>5, NoPRLocked DEF DeactivateUsersLabel
  <2> QED BY <2>1, <2>6, ProceedDrafts DEF n
<1> QED
  BY <1>1, <1>2 DEF SelectTeamForDeactivate

\* DeactivateTeam's UPDATE of one user: whoever it deactivates is inactive
\* from then on, as this transaction sees it.
LEMMA DeactivateUserDrafts ==
  ASSUME LedgerInv, NEW c \in Client, DeactivateUser(c)
  PROVE  DraftInv'
<1> tx[c] \in Transaction /\ Shape(tx[c], users, prs) /\ Drafted(tx[c], Records)
  BY ClientFacts
<1> DEFINE t == tx[c]
           u == tx[c].at
           match == users[u].team = tx[c].team /\ users[u].active
           hit == IF match THEN tx[c].deactivated \cup {u} ELSE tx[c].deactivated
           row == [users[u] EXCEPT !.active = FALSE]
           next(r) == [tx[c] EXCEPT
             !.pc = CASE r # Nil  -> "deactivateUsersQuery"
                      [] r = Nil /\ hit = {} -> "commit"
                      [] r = Nil /\ hit # {} -> "selectImpactedPRsQuery",
             !.locks = @ \cup {u},
             !.at = r,
             !.todo = @ \ {r},
             !.deactivated = hit,
             !.wUsers[u] = IF match THEN row ELSE @]
<1>1. PICK r \in NextRow(tx[c].todo) : Proceed(c, next(r))
  BY DEF DeactivateUser
<1>2. /\ t.pc = "deactivateUsersQuery" /\ t.req.op = "DeactivateTeam"
      /\ u \in User /\ users[u] # Nil
  BY DEF DeactivateUser, Shape, DeactivateLabel
<1>3. /\ \A p \in PR : ~Touches(t, p)
      /\ HandingOver(t, Records)
      /\ t.pc \in DeactivateUsersLabel
  BY <1>2 DEF Drafted, DraftLabel, DeactivateUsersLabel
<1>4. /\ t.locks \cap PR = {}
      /\ \A v \in t.deactivated : t.wUsers[v] # Nil /\ ~t.wUsers[v].active
  BY <1>2, <1>3 DEF HandingOver, DeactivateLabel
<1>5. row # Nil /\ ~row.active
  <2>1. users[u] \in UserRow
    BY <1>2, DatabaseFields DEF LedgerInv, Inv, TypeInv
  <2>2. row \in UserRow /\ ~row.active
    BY <2>1 DEF UserRow
  <2> QED BY <2>2, NilAssumption
<1> DEFINE n == next(r)
<1>6. n.pc \in {"commit", "deactivateUsersQuery", "selectImpactedPRsQuery"}
  BY DEF Transaction
<1> HIDE DEF match, row
<1>7. /\ n.req = t.req /\ n.locks = t.locks \cup {u}
      /\ n.impacted = t.impacted /\ n.deactivated = hit
      /\ n.wUsers = [t.wUsers EXCEPT ![u] = IF match THEN row ELSE @]
      /\ n.wPrs = t.wPrs /\ n.wLog = t.wLog
      /\ n.wAdd = t.wAdd /\ n.wDel = t.wDel
  BY DEF Transaction
<1>8. t.wUsers \in [User -> UserRow \cup {Nil}] /\ t.deactivated \subseteq User
  BY DEF Transaction
<1> HIDE DEF next, n
<1>9. \A v \in n.deactivated : n.wUsers[v] # Nil /\ ~n.wUsers[v].active
  BY <1>2, <1>4, <1>5, <1>7, <1>8
<1>10. n.locks \cap PR = {}
  BY <1>2, <1>4, <1>7, RowAssumption
<1>11. Drafted(n, Records)
  BY <1>2, <1>3, <1>6, <1>7, <1>9, <1>10, NoPRLocked DEF DeactivateUsersLabel
<1> QED
  BY <1>1, <1>11, ProceedDrafts DEF n

\* DeactivateTeam's query for the PRs to clean up keeps the drafts of DraftInv.
LEMMA SelectImpactedPRsDrafts ==
  ASSUME LedgerInv, NEW c \in Client, SelectImpactedPRs(c)
  PROVE  DraftInv'
<1> tx[c] \in Transaction /\ Shape(tx[c], users, prs) /\ Drafted(tx[c], Records)
  BY ClientFacts
<1> DEFINE rows == ImpactedPRs(prs, reviewers, tx[c].deactivated)
           next(r) == [tx[c] EXCEPT
             !.pc = IF r = Nil THEN "commit" ELSE "lockImpacted",
             !.at = r,
             !.todo = rows \ {r}]
<1>1. PICK r \in NextRow(rows) : Proceed(c, next(r))
  BY DEF SelectImpactedPRs
<1>2. /\ tx[c].pc = "selectImpactedPRsQuery"
      /\ tx[c].req.op = "DeactivateTeam"
  BY DEF SelectImpactedPRs, Shape, DeactivateLabel
<1>3. /\ \A p \in PR : ~Touches(tx[c], p)
      /\ HandingOver(tx[c], Records)
      /\ tx[c].pc \in DeactivateUsersLabel
  BY <1>2 DEF Drafted, DraftLabel, DeactivateUsersLabel
<1>4. /\ tx[c].locks \cap PR = {}
      /\ \A u \in tx[c].deactivated :
           tx[c].wUsers[u] # Nil /\ ~tx[c].wUsers[u].active
  BY <1>2, <1>3 DEF HandingOver, DeactivateLabel
<1> DEFINE n == next(r)
<1>5. /\ n.pc \in {"commit", "lockImpacted"}
      /\ n.req = tx[c].req /\ n.locks = tx[c].locks
      /\ n.impacted = tx[c].impacted /\ n.deactivated = tx[c].deactivated
      /\ n.wUsers = tx[c].wUsers
      /\ n.wPrs = tx[c].wPrs /\ n.wLog = tx[c].wLog
      /\ n.wAdd = tx[c].wAdd /\ n.wDel = tx[c].wDel
  BY DEF Transaction
<1> HIDE DEF next, n
<1>6. Drafted(n, Records)
  BY <1>2, <1>3, <1>4, <1>5, NoPRLocked
<1> QED
  BY <1>1, <1>6, ProceedDrafts DEF n

\* DeactivateTeam's lock on one PR: an open one goes on the list, one that was
\* merged meanwhile does not.
LEMMA LockImpactedDrafts ==
  ASSUME LedgerInv, NEW c \in Client, LockImpacted(c)
  PROVE  DraftInv'
<1> tx[c] \in Transaction /\ Shape(tx[c], users, prs) /\ Drafted(tx[c], Records)
  BY ClientFacts
<1> DEFINE t == tx[c]
           p == tx[c].at
           hit == IF prs[p].status = "OPEN" THEN tx[c].impacted \cup {p}
                                            ELSE tx[c].impacted
           next(r) == [tx[c] EXCEPT
             !.pc = IF r # Nil THEN "lockImpacted" ELSE AfterPR(hit),
             !.locks = @ \cup {p},
             !.at = r,
             !.todo = @ \ {r},
             !.impacted = hit]
<1>1. PICK r \in NextRow(tx[c].todo) : Proceed(c, next(r))
  BY DEF LockImpacted
<1>2. /\ t.pc = "lockImpacted" /\ t.req.op = "DeactivateTeam"
      /\ p \in PR /\ prs[p] # Nil
  BY DEF LockImpacted, Shape, DeactivateLabel
<1>3. /\ \A q \in PR : ~Touches(t, q)
      /\ \A u \in t.deactivated : t.wUsers[u] # Nil /\ ~t.wUsers[u].active
      /\ \A q \in PR : t.wPrs[q] = Nil
      /\ \A q \in t.locks \cap PR :
           \/ Records[q] = Nil \/ Records[q].status # "OPEN"
           \/ q \in t.impacted
           \/ Draft(t, Records[q], q).reviewers \cap t.deactivated = {}
  BY <1>2 DEF Drafted, HandingOver, DraftLabel, DeactivateLabel
<1>4. prs[p].status # "OPEN" => Records[p].status # "OPEN"
  BY <1>2, RecordsOfTables DEF LedgerInv, Inv
<1> DEFINE n == next(r)
<1>5. n.pc \in {"lockImpacted", "selectPRStatusQuery", "commit"}
      /\ (n.pc = "commit" => hit = {})
  BY DEF AfterPR, Transaction
<1>6. /\ n.req = t.req /\ n.locks = t.locks \cup {p}
      /\ n.impacted = hit /\ n.deactivated = t.deactivated
      /\ n.wUsers = t.wUsers
      /\ n.wPrs = t.wPrs /\ n.wLog = t.wLog
      /\ n.wAdd = t.wAdd /\ n.wDel = t.wDel
  BY DEF Transaction
<1>7. t.impacted \subseteq PR
  BY DEF Transaction
<1> HIDE DEF next, n
<1>8. \A q \in PR : /\ ~Touches(n, q)
                    /\ \A x : Draft(n, x, q) = Draft(t, x, q)
  BY <1>3, <1>6, SameDraft
<1>9. \A q \in n.locks \cap PR :
        \/ Records[q] = Nil \/ Records[q].status # "OPEN"
        \/ q \in n.impacted
        \/ Draft(n, Records[q], q).reviewers \cap n.deactivated = {}
  BY <1>3, <1>4, <1>6, <1>8
<1>10. HandingOver(n, Records)
  BY <1>2, <1>3, <1>5, <1>6, <1>7, <1>8, <1>9
     DEF HandingOver, DeactivateUsersLabel
<1>11. Drafted(n, Records)
  BY <1>2, <1>5, <1>6, <1>8, <1>10
     DEF Drafted, Creating, Created, Merged, Reassigning, Reassigned, HandingOne
<1> QED
  BY <1>1, <1>11, ProceedDrafts DEF n

\* DeactivateTeam's look at the next PR of its list: what it reads of the
\* status and the reviewers is the committed record.
LEMMA BeginPRDrafts ==
  ASSUME LedgerInv, NEW c \in Client, BeginPR(c)
  PROVE  DraftInv'
<1> /\ tx[c] \in Transaction /\ Shape(tx[c], users, prs)
    /\ Careful(tx[c], prs) /\ Drafted(tx[c], Records)
  BY ClientFacts
<1> DEFINE t == tx[c]
           existing(p) == ReviewersOf(ReviewersSeenBy(c), p)
           leaving(p) == IF PrsSeenBy(c)[p].status = "OPEN"
                         THEN existing(p) \cap tx[c].deactivated ELSE {}
           next(p) == [tx[c] EXCEPT
             !.pc = IF leaving(p) = {} THEN AfterPR(tx[c].impacted \ {p})
                                       ELSE "activeReplacementQuery",
             !.at = p,
             !.seen = existing(p),
             !.todo = leaving(p),
             !.impacted = @ \ {p}]
<1>1. PICK p \in tx[c].impacted : Proceed(c, next(p))
  BY DEF BeginPR
<1>2. t.pc = "selectPRStatusQuery" /\ t.req.op = "DeactivateTeam"
  BY DEF BeginPR, Shape, DeactivateLabel
<1>3. t.impacted \subseteq PR /\ p \in PR
  BY DEF Transaction
<1>4. /\ \A u \in t.deactivated : t.wUsers[u] # Nil /\ ~t.wUsers[u].active
      /\ \A q \in PR : t.wPrs[q] = Nil
      /\ \A q \in t.impacted : ~Touches(t, q)
      /\ \A q \in PR :
           Touches(t, q) =>
             Draft(t, Records[q], q) \in HandedOverBy(Records[q], t.deactivated)
      /\ \A q \in t.locks \cap PR :
           \/ Records[q] = Nil \/ Records[q].status # "OPEN"
           \/ q \in t.impacted
           \/ Draft(t, Records[q], q).reviewers \cap t.deactivated = {}
  BY <1>2 DEF Drafted, HandingOver, DeactivateLabel
<1> DEFINE R == Draft(t, Records[p], p).reviewers
<1>5. existing(p) = R
  BY <1>3, DraftReviewers DEF LedgerInv, Inv, DraftInv
<1>6. PrsSeenBy(c)[p].status = "OPEN"
  <2>1. t.wPrs[p] = Nil /\ prs[p].status = "OPEN"
    BY <1>3, <1>4 DEF Careful, HoldsOpen
  <2> QED BY <1>3, <2>1 DEF PrsSeenBy
<1>7. leaving(p) = R \cap t.deactivated
  BY <1>5, <1>6
<1> HIDE DEF existing, leaving, R
<1> DEFINE n == next(p)
<1>8. /\ leaving(p) # {} => n.pc = "activeReplacementQuery"
      /\ leaving(p) = {} => n.pc \in {"selectPRStatusQuery", "commit"}
      /\ n.pc = "commit" => n.impacted = {}
  BY DEF AfterPR, Transaction
<1>9. /\ n.req = t.req /\ n.locks = t.locks /\ n.at = p
      /\ n.seen = existing(p) /\ n.todo = leaving(p)
      /\ n.impacted = t.impacted \ {p} /\ n.deactivated = t.deactivated
      /\ n.wUsers = t.wUsers
      /\ n.wPrs = t.wPrs /\ n.wLog = t.wLog
      /\ n.wAdd = t.wAdd /\ n.wDel = t.wDel
  BY DEF Transaction
<1> HIDE DEF next, n
<1>10. \A q \in PR : /\ Touches(n, q) <=> Touches(t, q)
                     /\ \A x : Draft(n, x, q) = Draft(t, x, q)
  BY <1>9, SameDraft
<1>11. \A q \in n.locks \cap PR :
         \/ Records[q] = Nil \/ Records[q].status # "OPEN"
         \/ q \in n.impacted
         \/ n.pc = "activeReplacementQuery" /\ q = n.at
         \/ Draft(n, Records[q], q).reviewers \cap n.deactivated = {}
  <2> SUFFICES ASSUME NEW q \in n.locks \cap PR
               PROVE  \/ Records[q] = Nil \/ Records[q].status # "OPEN"
                      \/ q \in n.impacted
                      \/ n.pc = "activeReplacementQuery" /\ q = n.at
                      \/ Draft(n, Records[q], q).reviewers \cap n.deactivated = {}
    OBVIOUS
  <2>1. CASE q = p
    BY <1>7, <1>8, <1>9, <1>10, <2>1 DEF R
  <2>2. CASE q # p
    BY <1>4, <1>9, <1>10, <2>2
  <2> QED BY <2>1, <2>2
<1>12. HandingOver(n, Records)
  BY <1>2, <1>3, <1>4, <1>8, <1>9, <1>10, <1>11
     DEF HandingOver, DeactivateUsersLabel
<1>13. HandingOne(n, Records)
  <2>1. n.seen = Draft(n, Records[p], p).reviewers /\ ~Touches(n, p)
    BY <1>3, <1>4, <1>5, <1>9, <1>10 DEF R
  <2>2. n.todo = n.seen \cap n.deactivated /\ p \notin n.impacted
    BY <1>5, <1>7, <1>9
  <2> QED BY <1>9, <2>1, <2>2 DEF HandingOne
<1>14. Drafted(n, Records)
  BY <1>2, <1>8, <1>9, <1>12, <1>13
     DEF Drafted, DraftLabel, Creating, Created, Merged, Reassigning, Reassigned
<1> QED
  BY <1>1, <1>14, ProceedDrafts DEF n

\* Of at most two users, one is left when one is taken away and some remain.
LEMMA OneLeft ==
  ASSUME NEW R \in SUBSET User, Cardinality(R) <= 2,
         NEW T \in SUBSET R, NEW r \in T, T # {r}
  PROVE  \E x \in User : T \ {r} = {x}
<1>1. IsFiniteSet(R) /\ IsFiniteSet(T) /\ Cardinality(T) <= Cardinality(R)
      /\ Cardinality(R) \in Nat /\ Cardinality(T) \in Nat
  BY UserAssumption, FS_Subset, FS_CardinalityType
<1>2. /\ IsFiniteSet(T \ {r})
      /\ Cardinality(T \ {r}) = Cardinality(T) - 1
  BY <1>1, FS_RemoveElement
<1>3. PICK x \in T : x # r
  OBVIOUS
<1>4. /\ IsFiniteSet((T \ {r}) \ {x})
      /\ Cardinality((T \ {r}) \ {x}) = Cardinality(T \ {r}) - 1
  <2>1. x \in T \ {r}
    BY <1>3
  <2> HIDE DEF IsFiniteSet, Cardinality
  <2> QED BY <1>2, <2>1, FS_RemoveElement
<1>5. Cardinality((T \ {r}) \ {x}) \in Nat
  BY <1>4, FS_CardinalityType
<1>6. Cardinality((T \ {r}) \ {x}) = 0
  BY <1>1, <1>2, <1>4, <1>5
<1>7. (T \ {r}) \ {x} = {}
  BY <1>4, <1>6, FS_EmptySet
<1> QED
  BY <1>3, <1>7

\* Whom pickReplacement can return: nobody, or an active user other than the
\* author who is not on the PR.
LEMMA PickedReplacement ==
  ASSUME NEW us, NEW t, NEW author, NEW existing,
         NEW new \in PickReplacement(us, t, author, existing)
  PROVE  \/ new = Nil
         \/ /\ new \in User /\ us[new] # Nil /\ us[new].active
            /\ new # author /\ new \notin existing
BY DEF PickReplacement, NextRow, OtherTeamCandidates, ActiveUsers

\* DeactivateTeam's replacement of one reviewer: the draft is the committed
\* record with one reviewer handed over, or both.
LEMMA ReplaceReviewerDrafts ==
  ASSUME LedgerInv, NEW c \in Client, ReplaceReviewer(c)
  PROVE  DraftInv'
<1> /\ tx[c] \in Transaction /\ Shape(tx[c], users, prs)
    /\ Careful(tx[c], prs) /\ Drafted(tx[c], Records)
  BY ClientFacts
<1> DEFINE t == tx[c]
           p == tx[c].at
           author == PrsSeenBy(c)[p].author
           rest(r) == tx[c].seen \ {r}
           next(r, new) == [tx[c] EXCEPT
             !.pc = IF tx[c].todo # {r} THEN "activeReplacementQuery"
                                        ELSE AfterPR(tx[c].impacted),
             !.todo = @ \ {r},
             !.seen = rest(r) \cup ({new} \ {Nil}),
             !.wDel = @ \cup {<<p, r>>},
             !.wAdd = (@ \ {<<p, r>>}) \cup ({p} \X ({new} \ {Nil})),
             !.wLog[p] = Append(@, Logged(r, new))]
<1>0. PICK r \in t.todo :
        \E new \in PickReplacement(UsersSeenBy(c), t.team, author, rest(r)) :
          Proceed(c, next(r, new))
  BY DEF ReplaceReviewer
<1>1. PICK new \in PickReplacement(UsersSeenBy(c), t.team, author, rest(r)) :
        Proceed(c, next(r, new))
  BY <1>0
<1>2. /\ t.pc = "activeReplacementQuery" /\ t.req.op = "DeactivateTeam"
      /\ p \in PR /\ prs[p] # Nil /\ p \in t.locks
  BY DEF ReplaceReviewer, Shape, DeactivateLabel, Careful, HoldsOpen
<1>3. /\ \A u \in t.deactivated : t.wUsers[u] # Nil /\ ~t.wUsers[u].active
      /\ \A q \in PR : t.wPrs[q] = Nil
      /\ \A q \in t.impacted : ~Touches(t, q)
      /\ \A q \in PR :
           Touches(t, q) =>
             Draft(t, Records[q], q) \in HandedOverBy(Records[q], t.deactivated)
      /\ \A q \in t.locks \cap PR :
           \/ Records[q] = Nil \/ Records[q].status # "OPEN"
           \/ q \in t.impacted
           \/ t.pc = "activeReplacementQuery" /\ q = p
           \/ Draft(t, Records[q], q).reviewers \cap t.deactivated = {}
  BY <1>2 DEF Drafted, HandingOver, DeactivateLabel
<1> DEFINE rec == Records[p]
           d == Draft(t, rec, p)
<1>4. /\ p \notin t.impacted
      /\ t.seen = d.reviewers
      /\ t.todo = t.seen \cap t.deactivated
      /\ Touches(t, p) =>
           /\ d \in Ledger!Relieved(rec, t.deactivated)
           /\ \E x \in User : t.todo = {x}
  BY <1>2 DEF Drafted, HandingOne
<1>5. /\ rec \in Ledger!Record /\ rec # Nil /\ rec.author = prs[p].author
      /\ rec.reviewers = ReviewersOf(reviewers, p)
  BY <1>2, RecordsOfTables DEF LedgerInv, Inv
<1>6. Ledger!Sound(rec)
  BY <1>2, <1>5, LedgerCardinality
     DEF LedgerInv, DraftInv, AtMostTwoNeverAuthor, WellAssigned, Ledger!Sound
<1>7. ~Touches(t, p) => d = rec
  BY <1>2, <1>5, DraftUntouched
<1>8. d \in Ledger!Record /\ Ledger!Sound(d) /\ d.author = rec.author
  <2> HIDE DEF rec, d
  <2>1. Touches(t, p) => d \in Ledger!Changed(rec)
    BY <1>4, RelievedChanged
  <2> QED BY <1>5, <1>6, <1>7, <2>1, ChangedSound
<1>9. author = d.author
  BY <1>2, <1>3, <1>5, <1>8 DEF PrsSeenBy
<1>10. /\ t.seen \in SUBSET User /\ t.wLog \in [PR -> Seq(Event)]
       /\ t.impacted \subseteq PR /\ t.deactivated \subseteq User
  BY DEF Transaction
<1>11. r \in User /\ r \in t.deactivated /\ r \in d.reviewers
  BY <1>4, <1>10
<1>12. \A u \in t.deactivated : ~UsersSeenBy(c)[u].active
  BY <1>3, <1>10 DEF UsersSeenBy
<1>13. /\ new \in User \cup {Nil}
       /\ new = Nil \/ new \notin t.deactivated
       /\ new = Nil \/ new \in Ledger!Newcomers(d)
  <2>1. CASE new = Nil
    BY <2>1
  <2>2. CASE /\ new \in User /\ UsersSeenBy(c)[new].active
             /\ new # author /\ new \notin rest(r)
    <3>1. new \notin t.deactivated /\ new # r
      BY <1>11, <1>12, <2>2
    <3>2. new \notin d.reviewers
      BY <1>4, <2>2, <3>1
    <3> QED BY <1>9, <2>2, <3>1, <3>2 DEF Ledger!Newcomers
  <2> QED BY <2>1, <2>2, PickedReplacement
<1> DEFINE n == next(r, new)
<1>14. /\ t.todo # {r} => n.pc = "activeReplacementQuery"
       /\ t.todo = {r} => n.pc \in {"selectPRStatusQuery", "commit"}
       /\ n.pc = "commit" => n.impacted = {}
  BY DEF AfterPR, Transaction
<1>15. /\ n.req = t.req /\ n.locks = t.locks /\ n.at = p
       /\ n.seen = (t.seen \ {r}) \cup ({new} \ {Nil}) /\ n.todo = t.todo \ {r}
       /\ n.impacted = t.impacted /\ n.deactivated = t.deactivated
       /\ n.wUsers = t.wUsers
       /\ n.wPrs = t.wPrs
       /\ n.wLog = [t.wLog EXCEPT ![p] = Append(@, Logged(r, new))]
       /\ n.wDel = t.wDel \cup {<<p, r>>}
       /\ n.wAdd = (t.wAdd \ {<<p, r>>}) \cup ({p} \X ({new} \ {Nil}))
  BY DEF Transaction
<1>16. Proceed(c, n)
  BY <1>1
<1> HIDE DEF next, n
<1>17. Replaces(t, n, p, r, new)
  BY <1>15 DEF Replaces
<1> DEFINE e == Draft(n, rec, p)
<1>18. e = Ledger!Replaced(d, r, new)
  <2>1. new \in User \cup {Nil}
    BY <1>13 DEF Ledger!Newcomers
  <2> HIDE DEF t, p, rec
  <2> QED BY <1>2, <1>5, <1>8, <1>10, <1>11, <1>17, <2>1, DraftReplaced
<1> HIDE DEF d, e, rec
<1>19. e \in Ledger!Relieved(d, t.deactivated)
  <2>1. /\ r \in d.reviewers \cap t.deactivated
        /\ new \in (Ledger!Newcomers(d) \ t.deactivated) \cup {Nil}
    BY <1>11, <1>13
  <2> QED BY <1>18, <2>1 DEF Ledger!Relieved
<1>20. n.seen = e.reviewers
  <2>1. new \in User \cup {Nil}
    BY <1>13 DEF Ledger!Newcomers
  <2>2. e.reviewers = Swapped(d.reviewers, r, new)
    BY <1>8, <1>11, <1>18, <2>1, ReplacedFields
  <2> QED BY <1>4, <1>15, <2>2 DEF Swapped
<1>21. e \in HandedOverBy(rec, t.deactivated)
  BY <1>4, <1>7, <1>19 DEF HandedOverBy
<1>22. n.todo = n.seen \cap n.deactivated
  BY <1>4, <1>10, <1>11, <1>13, <1>15, NilAssumption DEF Row
<1>23. \A q \in PR : q # p => /\ Touches(n, q) <=> Touches(t, q)
                              /\ Draft(n, Records[q], q) = Draft(t, Records[q], q)
  <2> SUFFICES ASSUME NEW q \in PR, q # p
               PROVE  /\ Touches(n, q) <=> Touches(t, q)
                      /\ Draft(n, Records[q], q) = Draft(t, Records[q], q)
    OBVIOUS
  <2> HIDE DEF t, p
  <2>1. p \in PR /\ t.wLog \in [PR -> Seq(Event)]
    BY <1>2, <1>10
  <2>2. /\ Touches(n, q) <=> Touches(t, q)
        /\ \A x : Draft(n, x, q) = Draft(t, x, q)
    BY <1>17, <2>1, OtherDraft, Zenon
  <2> QED BY <2>2
<1>24. \A q \in n.locks \cap PR :
         \/ Records[q] = Nil \/ Records[q].status # "OPEN"
         \/ q \in n.impacted
         \/ n.pc = "activeReplacementQuery" /\ q = n.at
         \/ Draft(n, Records[q], q).reviewers \cap n.deactivated = {}
  <2> SUFFICES ASSUME NEW q \in n.locks \cap PR
               PROVE  \/ Records[q] = Nil \/ Records[q].status # "OPEN"
                      \/ q \in n.impacted
                      \/ n.pc = "activeReplacementQuery" /\ q = n.at
                      \/ Draft(n, Records[q], q).reviewers \cap n.deactivated = {}
    OBVIOUS
  <2>1. CASE q = p
    <3>1. t.todo = {r} => e.reviewers \cap n.deactivated = {}
      BY <1>15, <1>20, <1>22
    <3> QED BY <1>14, <1>15, <2>1, <3>1 DEF e, rec
  <2>2. CASE q # p
    BY <1>3, <1>15, <1>23, <2>2
  <2> QED BY <2>1, <2>2
<1>25. HandingOver(n, Records)
  <2>1. \A q \in PR :
          Touches(n, q) =>
            Draft(n, Records[q], q) \in HandedOverBy(Records[q], n.deactivated)
    BY <1>3, <1>15, <1>21, <1>23 DEF e, rec
  <2>2. \A q \in n.impacted : ~Touches(n, q)
    BY <1>3, <1>4, <1>10, <1>15, <1>23
  <2>3. /\ n.pc \notin DeactivateUsersLabel
        /\ n.pc \in DeactivateUsersLabel \cup {"commit"} => n.impacted = {}
    BY <1>14 DEF DeactivateUsersLabel
  <2>4. /\ \A u \in n.deactivated : n.wUsers[u] # Nil /\ ~n.wUsers[u].active
        /\ \A q \in PR : n.wPrs[q] = Nil
    BY <1>3, <1>15
  <2> QED BY <1>24, <2>1, <2>2, <2>3, <2>4 DEF HandingOver
<1>26. HandingOne(n, Records)
  <2>1. ASSUME n.pc = "activeReplacementQuery"
        PROVE  /\ e \in Ledger!Relieved(rec, n.deactivated)
               /\ \E x \in User : n.todo = {x}
    <3>1. t.todo # {r}
      BY <1>14, <2>1
    <3>2. ~Touches(t, p)
      BY <1>4, <3>1
    <3>3. e \in Ledger!Relieved(rec, n.deactivated)
      BY <1>7, <1>15, <1>19, <3>2
    <3>4. t.seen \in SUBSET User /\ Cardinality(t.seen) <= 2
      BY <1>4, <1>8, <1>10, LedgerCardinality DEF Ledger!Sound
    <3>5. t.todo \in SUBSET t.seen
      BY <1>4
    <3> QED BY <1>15, <3>1, <3>3, <3>4, <3>5, OneLeft
  <2> QED BY <1>4, <1>15, <1>20, <1>22, <2>1 DEF HandingOne, e, rec
<1>27. Drafted(n, Records)
  <2>1. n.pc \in DraftLabel
    BY <1>14 DEF DraftLabel
  <2> QED
    BY <1>2, <1>14, <1>15, <1>25, <1>26, <2>1
       DEF Drafted, Creating, Created, Merged, Reassigning, Reassigned
<1> QED
  BY <1>16, <1>27, ProceedDrafts

-------------------------------------------------------------------------------
(* COMMIT is a step of the ledger, and steps of the ledger keep records    *)
(* sound.                                                                  *)

\* WellAssigned, read off the records.
LEMMA SoundRecords ==
  ASSUME NEW ps \in [PR -> PrRow \cup {Nil}], NEW rv,
         NEW hs \in [PR -> Seq(Event)]
  PROVE  WellAssigned(ps, rv) <=>
           \A p \in PR : LedgerOf(ps, rv, hs)[p] # Nil =>
             Ledger!Sound(LedgerOf(ps, rv, hs)[p])
<1> DEFINE rec == LedgerOf(ps, rv, hs)
<1>1. ASSUME NEW p \in PR
      PROVE  /\ rec[p] = Nil <=> ps[p] = Nil
             /\ ps[p] # Nil => /\ rec[p].author = ps[p].author
                              /\ rec[p].reviewers = ReviewersOf(rv, p)
  <2>1. ps[p] \in PrRow \cup {Nil} /\ hs[p] \in Seq(Event)
    OBVIOUS
  <2> QED BY <2>1, RecordExists, RecordFields
<1> HIDE DEF rec
<1>2. WellAssigned(ps, rv) <=>
        \A p \in PR : rec[p] # Nil => Ledger!Sound(rec[p])
  BY <1>1, LedgerCardinality DEF WellAssigned, Ledger!Sound
<1> QED
  BY <1>2 DEF rec

\* What a record is and can become: the facts about one PR that the ledger
\* relies on.
LEMMA RecordOfPR ==
  ASSUME LedgerInv, NEW p \in PR, Records[p] # Nil
  PROVE  Records[p] \in Ledger!Record /\ Ledger!Sound(Records[p])
<1>1. Records[p] \in Ledger!Record
  BY RecordsOfTables DEF LedgerInv, Inv
<1>2. /\ prs \in [PR -> PrRow \cup {Nil}] /\ history \in [PR -> Seq(Event)]
      /\ WellAssigned(prs, reviewers)
  BY DatabaseFields DEF LedgerInv, Inv, TypeInv, DraftInv, AtMostTwoNeverAuthor
<1> QED
  BY <1>1, <1>2, SoundRecords DEF Records

\* COMMIT changes one record the way the request says, or several the way
\* DeactivateTeam does: at each of them, whoever it has deactivated is gone.
LEMMA CommitRecords ==
  ASSUME LedgerInv, NEW c \in Client, tx[c].pc = "commit", Publish(c)
  PROVE  \/ \A q \in PR : Records'[q] = Records[q]
         \/ \E p \in PR :
              /\ \A q \in PR : q # p => Records'[q] = Records[q]
              /\ \/ Records[p] = Nil /\ Records'[p] \in Ledger!NewRecord
                 \/ /\ Records[p] # Nil /\ Records[p].status = "OPEN"
                    /\ Records'[p] = [Records[p] EXCEPT !.status = "MERGED"]
                 \/ /\ Records[p] # Nil /\ Records[p].status = "OPEN"
                    /\ \E old \in Records[p].reviewers,
                          new \in Ledger!Newcomers(Records[p]) :
                         Records'[p] = Ledger!Replaced(Records[p], old, new)
         \/ \A q \in PR :
              \/ Records'[q] = Records[q]
              \/ /\ Records[q] # Nil /\ Records[q].status = "OPEN"
                 /\ Records'[q] \in HandedOverBy(Records[q], tx[c].deactivated)
                 /\ Records'[q].reviewers \cap tx[c].deactivated = {}
<1> /\ tx[c] \in Transaction /\ Shape(tx[c], users, prs)
    /\ Careful(tx[c], prs) /\ Drafted(tx[c], Records)
  BY ClientFacts
<1> DEFINE t == tx[c]
           p == tx[c].req.pr
           rec == Records
           new == Records'
<1>1. \A q \in PR : new[q] = IF Touches(t, q) THEN Draft(t, rec[q], q) ELSE rec[q]
  BY PublishRecords DEF LedgerInv, DraftInv
<1>2. ASSUME NEW q \in PR, Touches(t, q), rec[q] # Nil
      PROVE  rec[q].status = "OPEN"
  BY <1>2, RecordsOfTables DEF Careful, LedgerInv, Inv
<1>3. t.req \in AnyRequest
  BY DEF Shape
<1>4. CASE t.req.op = "CreateTeam"
  BY <1>1, <1>4 DEF Drafted
<1>5. CASE t.req.op = "CreatePR"
  <2>1. /\ p \in PR /\ rec[p] = Nil /\ p \in t.locks /\ TouchesOnly(t, p)
        /\ Draft(t, Nil, p) \in Ledger!NewRecord
    BY <1>3, <1>5, RequestFields DEF Drafted, Created
  <2>2. Touches(t, p)
    BY <2>1, RecordsOfTables DEF Careful, Touches, LedgerInv, Inv
  <2>3. new[p] \in Ledger!NewRecord
    BY <1>1, <2>1, <2>2
  <2>4. \A q \in PR : q # p => new[q] = rec[q]
    BY <1>1, <2>1 DEF TouchesOnly
  <2> QED BY <2>1, <2>3, <2>4
<1>6. CASE t.req.op = "MergePR"
  <2>1. /\ p \in PR /\ rec[p] # Nil /\ TouchesOnly(t, p)
        /\ Touches(t, p) => Draft(t, rec[p], p) = [rec[p] EXCEPT !.status = "MERGED"]
    BY <1>3, <1>6, RequestFields DEF Drafted, Merged
  <2>2. \A q \in PR : q # p => new[q] = rec[q]
    BY <1>1, <2>1 DEF TouchesOnly
  <2>3. CASE Touches(t, p)
    BY <1>1, <1>2, <2>1, <2>2, <2>3
  <2>4. CASE ~Touches(t, p)
    BY <1>1, <2>1, <2>2, <2>4
  <2> QED BY <2>3, <2>4
<1>7. CASE t.req.op = "ReassignReviewer"
  <2>1. /\ p \in PR /\ rec[p] # Nil /\ TouchesOnly(t, p)
        /\ \E old \in rec[p].reviewers, w \in Ledger!Newcomers(rec[p]) :
             Draft(t, rec[p], p) = Ledger!Replaced(rec[p], old, w)
    BY <1>3, <1>7, RequestFields DEF Drafted, Reassigned
  <2>2. \A q \in PR : q # p => new[q] = rec[q]
    BY <1>1, <2>1 DEF TouchesOnly
  <2>3. CASE Touches(t, p)
    <3>1. new[p] = Draft(t, rec[p], p) /\ rec[p].status = "OPEN"
      BY <1>1, <1>2, <2>1, <2>3
    <3> QED BY <2>1, <2>2, <3>1
  <2>4. CASE ~Touches(t, p)
    BY <1>1, <2>1, <2>2, <2>4
  <2> QED BY <2>3, <2>4
<1>8. CASE t.req.op = "DeactivateTeam"
  <2>1. /\ \A q \in PR : Touches(t, q) =>
             /\ t.wPrs[q] = Nil
             /\ Draft(t, rec[q], q) \in HandedOverBy(rec[q], t.deactivated)
        /\ t.impacted = {}
        /\ \A q \in t.locks \cap PR :
             \/ rec[q] = Nil \/ rec[q].status # "OPEN"
             \/ Draft(t, rec[q], q).reviewers \cap t.deactivated = {}
    BY <1>8 DEF Drafted, HandingOver
  <2>2. \A q \in PR : Touches(t, q) => rec[q] # Nil
    BY <2>1, RecordsOfTables DEF Careful, LedgerInv, Inv
  <2>3. ASSUME NEW q \in PR, Touches(t, q)
        PROVE  Draft(t, rec[q], q).reviewers \cap t.deactivated = {}
    BY <1>2, <2>1, <2>2, <2>3 DEF Careful
  <2> QED BY <1>1, <1>2, <2>1, <2>2, <2>3
<1>9. t.req.op # "SetUserActive"
  BY DEF Drafted
<1> QED
  BY <1>3, <1>4, <1>5, <1>6, <1>7, <1>8, <1>9, RequestFields

\* The same, whoever the reviews are taken from.
LEMMA CommitChanges ==
  ASSUME LedgerInv, NEW c \in Client, tx[c].pc = "commit", Publish(c)
  PROVE  \/ \A q \in PR : Records'[q] = Records[q]
         \/ \E p \in PR :
              /\ \A q \in PR : q # p => Records'[q] = Records[q]
              /\ \/ Records[p] = Nil /\ Records'[p] \in Ledger!NewRecord
                 \/ /\ Records[p] # Nil /\ Records[p].status = "OPEN"
                    /\ Records'[p] = [Records[p] EXCEPT !.status = "MERGED"]
                 \/ /\ Records[p] # Nil /\ Records[p].status = "OPEN"
                    /\ \E old \in Records[p].reviewers,
                          new \in Ledger!Newcomers(Records[p]) :
                         Records'[p] = Ledger!Replaced(Records[p], old, new)
         \/ \A q \in PR :
              \/ Records'[q] = Records[q]
              \/ /\ Records[q] # Nil /\ Records[q].status = "OPEN"
                 /\ Records'[q] \in Ledger!HandedOver(Records[q])
<1>1. CASE \A q \in PR :
             \/ Records'[q] = Records[q]
             \/ /\ Records[q] # Nil /\ Records[q].status = "OPEN"
                /\ Records'[q] \in HandedOverBy(Records[q], tx[c].deactivated)
  <2>1. \A q \in PR :
          Records'[q] \in HandedOverBy(Records[q], tx[c].deactivated)
            => Records'[q] \in Ledger!HandedOver(Records[q])
    BY HandedOverByIs
  <2> QED BY <1>1, <2>1
<1> QED
  BY <1>1, CommitRecords

\* COMMIT is a step of the ledger, or changes no record.
LEMMA CommitIsStep ==
  ASSUME LedgerInv, NEW c \in Client, tx[c].pc = "commit", Publish(c)
  PROVE  Records' = Records \/ Ledger!Next
<1> DEFINE rec == Records
           new == Records'
<1>1. /\ rec = [q \in PR |-> rec[q]] /\ new = [q \in PR |-> new[q]]
      /\ DOMAIN rec = PR
  BY DEF Records, LedgerOf
<1>2. /\ \A p \in PR : Ledger!Create(p) <=>
            /\ rec[p] = Nil /\ new[p] \in Ledger!NewRecord
            /\ new = [rec EXCEPT ![p] = new[p]]
      /\ \A p \in PR : Ledger!Merge(p) <=>
            /\ rec[p] # Nil /\ rec[p].status = "OPEN"
            /\ new = [rec EXCEPT ![p].status = "MERGED"]
      /\ \A p \in PR : Ledger!Reassign(p) <=>
            /\ rec[p] # Nil /\ rec[p].status = "OPEN"
            /\ \E old \in rec[p].reviewers, w \in Ledger!Newcomers(rec[p]) :
                 new = [rec EXCEPT ![p] = Ledger!Replaced(@, old, w)]
  BY Zenon DEF Ledger!Create, Ledger!Merge, Ledger!Reassign, Ledger!IsOpen, Records
<1>3. Ledger!HandOver <=>
        /\ {q \in PR : new[q] # rec[q]} # {}
        /\ \A p \in {q \in PR : new[q] # rec[q]} :
             /\ rec[p] # Nil /\ rec[p].status = "OPEN"
             /\ new[p] \in Ledger!HandedOver(rec[p])
        /\ new = [p \in PR |-> new[p]]
  BY Zenon DEF Ledger!HandOver, Ledger!IsOpen, Records
<1>4. \/ \A q \in PR : new[q] = rec[q]
      \/ \E p \in PR :
           /\ \A q \in PR : q # p => new[q] = rec[q]
           /\ \/ rec[p] = Nil /\ new[p] \in Ledger!NewRecord
              \/ /\ rec[p] # Nil /\ rec[p].status = "OPEN"
                 /\ new[p] = [rec[p] EXCEPT !.status = "MERGED"]
              \/ /\ rec[p] # Nil /\ rec[p].status = "OPEN"
                 /\ \E old \in rec[p].reviewers, w \in Ledger!Newcomers(rec[p]) :
                      new[p] = Ledger!Replaced(rec[p], old, w)
      \/ \A q \in PR :
           \/ new[q] = rec[q]
           \/ /\ rec[q] # Nil /\ rec[q].status = "OPEN"
              /\ new[q] \in Ledger!HandedOver(rec[q])
  BY CommitChanges
<1> HIDE DEF rec, new
<1>5. CASE \A q \in PR : new[q] = rec[q]
  BY <1>1, <1>5 DEF rec, new
<1>6. ASSUME NEW p \in PR, \A q \in PR : q # p => new[q] = rec[q]
      PROVE  new = [rec EXCEPT ![p] = new[p]]
  BY <1>1, <1>6
<1>7. ASSUME NEW p \in PR, \A q \in PR : q # p => new[q] = rec[q],
             rec[p] = Nil, new[p] \in Ledger!NewRecord
      PROVE  Ledger!Next
  BY <1>2, <1>6, <1>7 DEF Ledger!Next
<1>8. ASSUME NEW p \in PR, \A q \in PR : q # p => new[q] = rec[q],
             rec[p] # Nil, rec[p].status = "OPEN",
             new[p] = [rec[p] EXCEPT !.status = "MERGED"]
      PROVE  Ledger!Next
  <2>1. new = [rec EXCEPT ![p].status = "MERGED"]
    BY <1>1, <1>6, <1>8
  <2> QED BY <1>2, <1>8, <2>1 DEF Ledger!Next
<1>9. ASSUME NEW p \in PR, \A q \in PR : q # p => new[q] = rec[q],
             rec[p] # Nil, rec[p].status = "OPEN",
             NEW old \in rec[p].reviewers, NEW w \in Ledger!Newcomers(rec[p]),
             new[p] = Ledger!Replaced(rec[p], old, w)
      PROVE  Ledger!Next
  <2>1. new = [rec EXCEPT ![p] = Ledger!Replaced(@, old, w)]
    BY <1>1, <1>6, <1>9
  <2> QED BY <1>2, <1>9, <2>1 DEF Ledger!Next
<1>10. CASE \A q \in PR :
              \/ new[q] = rec[q]
              \/ /\ rec[q] # Nil /\ rec[q].status = "OPEN"
                 /\ new[q] \in Ledger!HandedOver(rec[q])
  <2>1. CASE {q \in PR : new[q] # rec[q]} = {}
    BY <1>5, <2>1
  <2>2. CASE {q \in PR : new[q] # rec[q]} # {}
    BY <1>1, <1>3, <1>10, <2>2 DEF Ledger!Next
  <2> QED BY <2>1, <2>2
<1> QED
  BY <1>4, <1>5, <1>7, <1>8, <1>9, <1>10

\* A step of the ledger keeps records sound.
LEMMA StepKeepsSound ==
  ASSUME LedgerInv, NEW c \in Client, tx[c].pc = "commit", Publish(c),
         NEW p \in PR, Records'[p] # Nil
  PROVE  Ledger!Sound(Records'[p])
<1> DEFINE r == Records[p]
           s == Records'[p]
<1>1. r # Nil => r \in Ledger!Record /\ Ledger!Sound(r)
  BY RecordOfPR
<1>2. \/ s = r
      \/ s \in Ledger!NewRecord
      \/ r # Nil /\ s = [r EXCEPT !.status = "MERGED"]
      \/ r # Nil /\ \E old \in r.reviewers, new \in Ledger!Newcomers(r) :
           s = Ledger!Replaced(r, old, new)
      \/ r # Nil /\ s \in Ledger!HandedOver(r)
  <2>1. CASE \A q \in PR : Records'[q] = Records[q]
    BY <2>1
  <2>2. ASSUME NEW q \in PR, \A x \in PR : x # q => Records'[x] = Records[x],
               \/ Records[q] = Nil /\ Records'[q] \in Ledger!NewRecord
               \/ /\ Records[q] # Nil
                  /\ Records'[q] = [Records[q] EXCEPT !.status = "MERGED"]
               \/ /\ Records[q] # Nil
                  /\ \E old \in Records[q].reviewers,
                        new \in Ledger!Newcomers(Records[q]) :
                       Records'[q] = Ledger!Replaced(Records[q], old, new)
        PROVE  \/ s = r
               \/ s \in Ledger!NewRecord
               \/ r # Nil /\ s = [r EXCEPT !.status = "MERGED"]
               \/ r # Nil /\ \E old \in r.reviewers, new \in Ledger!Newcomers(r) :
                    s = Ledger!Replaced(r, old, new)
    <3>1. CASE q = p
      BY <2>2, <3>1
    <3>2. CASE q # p
      BY <2>2, <3>2
    <3> QED BY <3>1, <3>2
  <2>3. CASE \A q \in PR :
               \/ Records'[q] = Records[q]
               \/ Records[q] # Nil /\ Records'[q] \in Ledger!HandedOver(Records[q])
    BY <2>3
  <2> HIDE DEF r, s
  <2> QED BY <2>1, <2>2, <2>3, CommitChanges
<1>3. s # Nil
  OBVIOUS
<1> SUFFICES Ledger!Sound(s)
  OBVIOUS
<1> HIDE DEF r, s
<1>4. CASE s = r
  BY <1>1, <1>3, <1>4
<1>5. CASE s \in Ledger!NewRecord
  BY <1>5 DEF Ledger!NewRecord
<1>6. CASE r # Nil /\ s = [r EXCEPT !.status = "MERGED"]
  <2>1. s.author = r.author /\ s.reviewers = r.reviewers
    BY <1>1, <1>6 DEF Ledger!Record
  <2> QED BY <1>1, <1>6, <2>1 DEF Ledger!Sound
<1>7. CASE r # Nil /\ \E old \in r.reviewers, new \in Ledger!Newcomers(r) :
             s = Ledger!Replaced(r, old, new)
  <2>1. s \in Ledger!Changed(r)
    BY <1>7 DEF Ledger!Changed
  <2> QED BY <1>1, <1>7, <2>1, ChangedSound
<1>8. CASE r # Nil /\ s \in Ledger!HandedOver(r)
  BY <1>1, <1>8, HandedOverSound
<1> QED
  BY <1>2, <1>4, <1>5, <1>6, <1>7, <1>8

\* COMMIT, whether it is answered or not, keeps the drafts of DraftInv: the
\* records it changes belong to PRs nobody else has locked.
LEMMA CommitDrafts ==
  ASSUME LedgerInv, NEW c \in Client, Commit(c) \/ CommitLost(c)
  PROVE  DraftInv'
<1> DEFINE next == [Idle EXCEPT !.pc = "selectTeamIDQuery",
                                !.req = tx[c].req]
<1>1. tx[c].pc = "commit" /\ Publish(c)
  BY DEF Commit, CommitLost
<1>2. NoOrphans' /\ \A p \in PR : p \notin tx[c].locks => Records'[p] = Records[p]
  <2>1. \A p \in PR : Touches(tx[c], p) => p \in tx[c].locks
    BY ClientFacts DEF Careful
  <2> QED BY <1>1, <2>1, PublishRecords DEF LedgerInv, DraftInv
<1>3. AtMostTwoNeverAuthor'
  <2>1. prs' \in [PR -> PrRow \cup {Nil}] /\ history' \in [PR -> Seq(Event)]
    BY <1>1, PublishTables DEF TablesStep, Database, LedgerInv, Inv
  <2>2. \A p \in PR : Records'[p] # Nil => Ledger!Sound(Records'[p])
    BY <1>1, StepKeepsSound
  <2> QED BY <2>1, <2>2, SoundRecords DEF AtMostTwoNeverAuthor, Records
<1>4. Drafted(Idle, Records')
  BY IdleDrafted
<1>5. Drafted(next, Records')
  <2>1. /\ next.pc = "selectTeamIDQuery" /\ next.locks = {}
        /\ next.impacted = {} /\ next.deactivated = {}
        /\ next.wPrs = Idle.wPrs /\ next.wLog = Idle.wLog
        /\ next.wAdd = {} /\ next.wDel = {}
    BY DEF Idle
  <2> HIDE DEF next
  <2> QED BY <2>1, NothingDrafted DEF Label, DraftLabel
<1>6. \/ tx' = [tx EXCEPT ![c] = Idle]
      \/ tx' = [tx EXCEPT ![c] = next]
  BY DEF Commit, CommitLost, Finish
<1> HIDE DEF next
<1> QED
  BY <1>2, <1>3, <1>4, <1>5, <1>6, EndDrafts

-------------------------------------------------------------------------------
\* The database the service starts on has no orphans and sound records.
LEMMA DraftInvInit == Init => DraftInv
<1> SUFFICES ASSUME Init PROVE DraftInv
  OBVIOUS
<1>1. PICK d \in Seeds :
        /\ prs = d.prs /\ reviewers = d.reviewers /\ history = d.history
        /\ tx = [c \in Client |-> Idle]
  BY DEF Init
<1>2. ForeignKeysHold(d) /\ WellAssigned(d.prs, d.reviewers)
  BY SeedAssumption
<1>3. NoOrphans
  BY <1>1, <1>2 DEF ForeignKeysHold, NoOrphans, ReviewersOf
<1>4. AtMostTwoNeverAuthor
  BY <1>1, <1>2 DEF AtMostTwoNeverAuthor
<1>5. \A c \in Client : Drafted(tx[c], Records)
  BY <1>1, IdleDrafted
<1> QED
  BY <1>3, <1>4, <1>5 DEF DraftInv

\* Every step of the service keeps DraftInv.
LEMMA DraftInvNext == LedgerInv /\ [Next]_vars => DraftInv'
<1> SUFFICES ASSUME LedgerInv, [Next]_vars PROVE DraftInv'
  OBVIOUS
<1>1. CASE UNCHANGED vars
  <2>1. /\ prs' = prs /\ reviewers' = reviewers /\ history' = history /\ tx' = tx
    BY <1>1 DEF vars
  <2>2. Records' = Records
    BY <2>1 DEF Records
  <2> QED
    BY <2>1, <2>2 DEF LedgerInv, DraftInv, NoOrphans, AtMostTwoNeverAuthor
<1>2. ASSUME NEW c \in Client, Statement(c) PROVE DraftInv'
  BY <1>2, SelectAuthorDrafts, InsertPRDrafts, SelectCandidatesDrafts,
     SelectPRForMergeDrafts, SelectPRForReassignDrafts, SelectReviewerTeamDrafts,
     SelectReplacementDrafts, StartSetUserActiveDrafts, UpdateUserActiveDrafts,
     InsertTeamDrafts, UpsertUserDrafts, GetTeamDrafts,
     SelectTeamForDeactivateDrafts, DeactivateUserDrafts, SelectImpactedPRsDrafts,
     LockImpactedDrafts, BeginPRDrafts, ReplaceReviewerDrafts, CommitDrafts
     DEF Statement
<1>3. ASSUME NEW c \in Client, Receive(c) \/ CommitLost(c) PROVE DraftInv'
  BY <1>3, RequestAssumption, BeginDrafts, CommitDrafts DEF Receive
<1>4. ASSUME NEW c \in Client, Expire(c) \/ DeadlockAbort(c) PROVE DraftInv'
  BY <1>4, FailDrafts DEF Expire, DeadlockAbort
<1> QED
  BY <1>1, <1>2, <1>3, <1>4 DEF Next, Quiesce

\* In every reachable state what a transaction has changed so far is what one
\* step of the ledger makes of the committed records, or the part of it its
\* label says.
THEOREM DraftsHold == Spec => []LedgerInv
<1>1. Init => LedgerInv
  BY TypeInvInit, LockInvInit, DraftInvInit DEF LedgerInv, Inv
<1>2. LedgerInv /\ [Next]_vars => LedgerInv'
  BY TypeInvNext, LockInvNext, DraftInvNext DEF LedgerInv, Inv
<1> QED
  BY <1>1, <1>2, PTL DEF Spec

-------------------------------------------------------------------------------
(* Consequences.                                                           *)

\* No interleaving of creations, reassignments and team deactivations leaves
\* a PR with three reviewers, or with its author as one.
THEOREM AssignmentsSound == Spec => []AtMostTwoNeverAuthor
<1>1. LedgerInv => AtMostTwoNeverAuthor
  BY DEF LedgerInv, DraftInv
<1> QED
  BY <1>1, DraftsHold, PTL

\* seen is what the transaction's own view of pr_reviewers holds.
LEMMA SeenIsCurrent ==
  ASSUME LedgerInv, NEW c \in Client, tx[c].pc = "commit",
         tx[c].req.op \in {"CreatePR", "MergePR", "ReassignReviewer"}
  PROVE  tx[c].seen = ReviewersOf(ReviewersSeenBy(c), tx[c].req.pr)
<1>1. Drafted(tx[c], Records) /\ tx[c].req.pr \in PR
  BY ClientFacts, RequestFields DEF Shape
<1>2. tx[c].seen = Draft(tx[c], Records[tx[c].req.pr], tx[c].req.pr).reviewers
  BY <1>1 DEF Drafted, Created, Merged, Reassigned
<1> QED
  BY <1>1, <1>2, DraftReviewers DEF LedgerInv, Inv, DraftInv

\* The reviewers a request is about to answer are those its COMMIT leaves in
\* the table.
THEOREM AnswersAreCurrent == Spec => []AnswerIsCurrent
<1>1. LedgerInv => AnswerIsCurrent
  BY SeenIsCurrent DEF AnswerIsCurrent
<1> QED
  BY <1>1, DraftsHold, PTL

\* When DeactivateTeam reaches COMMIT, no open PR it has locked keeps a
\* reviewer it has deactivated, however many PRs it went through and whatever
\* ran between its statements.
THEOREM ImpactedAreCleaned == Spec => []ImpactedCleaned
<1>1. ASSUME LedgerInv, NEW c \in Client, tx[c].pc = "commit",
             tx[c].req.op = "DeactivateTeam",
             NEW p \in tx[c].locks \cap PR, prs[p].status = "OPEN"
      PROVE  ReviewersOf(ReviewersSeenBy(c), p) \cap tx[c].deactivated = {}
  <2>1. Careful(tx[c], prs) /\ Drafted(tx[c], Records)
    BY <1>1, ClientFacts
  <2>2. /\ tx[c].wPrs[p] = Nil /\ tx[c].impacted = {}
        /\ \/ Records[p] = Nil \/ Records[p].status # "OPEN"
           \/ Draft(tx[c], Records[p], p).reviewers \cap tx[c].deactivated = {}
    BY <1>1, <2>1 DEF Drafted, HandingOver
  <2>3. prs[p] # Nil
    BY <2>1, <2>2 DEF Careful
  <2>4. Records[p] # Nil /\ Records[p].status = "OPEN"
    BY <1>1, <2>3, RecordsOfTables DEF LedgerInv, Inv
  <2>5. ReviewersOf(ReviewersSeenBy(c), p) =
          Draft(tx[c], Records[p], p).reviewers
    BY <1>1, DraftReviewers DEF LedgerInv, Inv, DraftInv
  <2> QED BY <2>2, <2>4, <2>5
<1>2. LedgerInv => ImpactedCleaned
  BY <1>1 DEF ImpactedCleaned
<1> QED
  BY <1>2, DraftsHold, PTL

-------------------------------------------------------------------------------
(* Refinement.                                                             *)

\* The database the service starts on is a ledger to start on.
LEMMA LedgerInit == Init => Ledger!Init
<1> SUFFICES ASSUME Init PROVE Ledger!Init
  OBVIOUS
<1>1. LedgerInv
  BY TypeInvInit, LockInvInit, DraftInvInit DEF LedgerInv, Inv
<1>2. \A p \in PR : /\ Records[p] \in Ledger!Record \cup {Nil}
                    /\ Records[p] # Nil => Ledger!Sound(Records[p])
  BY <1>1, RecordOfPR
<1>3. Records = [p \in PR |-> Records[p]]
  BY DEF Records, LedgerOf
<1>4. Records \in [PR -> Ledger!Record \cup {Nil}]
  BY <1>2, <1>3
<1> QED
  BY <1>2, <1>4, Zenon DEF Ledger!Init, Records

\* Every step of the service is a step of the ledger or leaves it alone.
LEMMA LedgerStep ==
  ASSUME LedgerInv, [Next]_vars
  PROVE  Records' = Records \/ Ledger!Next
<1>1. CASE prs' = prs /\ reviewers' = reviewers /\ history' = history
  BY <1>1 DEF Records
<1>2. ASSUME NEW c \in Client, Publish(c), tx[c].pc = "commit"
      PROVE  Records' = Records \/ Ledger!Next
  BY <1>2, CommitIsStep
<1> QED
  BY <1>1, <1>2, TablesChange DEF LedgerInv, tables

\* The committed tables of every instance of ReviewTx, read as one record per
\* PR, behave like the ledger: overlapping requests leave the records that
\* requests one after the other leave.
THEOREM LedgerImplemented == Spec => ImplementsLedger
<1>1. Init => Ledger!Init
  BY LedgerInit
<1>2. LedgerInv /\ [Next]_vars => [Ledger!Next]_(LedgerOf(prs, reviewers, history))
  BY LedgerStep DEF Records
<1> QED
  BY <1>1, <1>2, DraftsHold, PTL DEF Spec, ImplementsLedger, Ledger!Spec

-------------------------------------------------------------------------------
(* Users and teams.  The inductive invariant of the second refinement: the *)
(* people of every PR have rows, a user's team is in teams, and what a     *)
(* transaction is about to do to users and teams.                          *)

RowsHold ==
  /\ \A u \in User : users[u] # Nil => users[u].team \in teams
  /\ \A p \in PR : prs[p] # Nil => users[prs[p].author] # Nil
  /\ \A p \in PR : \A u \in ReviewersOf(reviewers, p) : users[u] # Nil

\* CreateTeam, once it has inserted the team.
NewTeam(t) ==
  t.pc = "upsertUserQuery" \/ (t.pc = "commit" /\ t.req.op = "CreateTeam")

\* The users t is about to write, the author and the reviewers in its PRs and
\* those it has deactivated, against the rows us of users and ts of teams.
MembersOK(t, us, ts) ==
  /\ \A p \in PR : t.wPrs[p] # Nil => us[t.wPrs[p].author] # Nil
  /\ \A p \in PR, u \in User : <<p, u>> \in t.wAdd => us[u] # Nil
  /\ t.pc = "insertPRQuery" => us[t.req.user] # Nil
  /\ t.pc = "insertTeamQuery" => \A u \in User : t.wUsers[u] = Nil
  /\ NewTeam(t) =>
       /\ t.req.team \in t.locks /\ t.req.team \notin ts
       /\ t.wTeams = {t.req.team}
       /\ \A u \in User : t.wUsers[u] # Nil => t.wUsers[u].team = t.req.team
  /\ ~NewTeam(t) =>
       /\ t.wTeams = {}
       /\ \A u \in User : t.wUsers[u] # Nil =>
            us[u] # Nil /\ t.wUsers[u].team = us[u].team
  /\ t.pc = "deactivateUsersQuery" => t.team = t.req.team
  /\ \A u \in t.deactivated :
       /\ t.wUsers[u] # Nil
       /\ us[u] # Nil /\ us[u].team = t.req.team

PeopleInv == RowsHold /\ \A c \in Client : MembersOK(tx[c], users, teams)

MembersInv == LedgerInv /\ PeopleInv

\* A handler between requests is about to do nothing.
LEMMA IdleMembers ==
  ASSUME NEW us, NEW ts, NEW t,
         t.pc \in Label \ {"insertPRQuery", "upsertUserQuery", "commit",
                           "deactivateUsersQuery"},
         t.wTeams = {}, t.wUsers = Idle.wUsers, t.wPrs = Idle.wPrs,
         t.wAdd = {}, t.deactivated = {}
  PROVE  MembersOK(t, us, ts)
<1>1. /\ Idle.wPrs = [p \in PR |-> Nil]
      /\ Idle.wUsers = [u \in User |-> Nil]
  BY DEF Idle
<1>2. /\ \A p \in PR : t.wPrs[p] = Nil
      /\ \A u \in User : t.wUsers[u] = Nil
  BY <1>1
<1> QED
  BY <1>2 DEF MembersOK, NewTeam

\* MembersOK(t, us, ts) looks at teams and users t has locked, and else only at
\* whether rows are there.
LEMMA MembersStable ==
  ASSUME NEW t \in Transaction, Careful(t, prs), Shape(t, users, prs),
         NEW us, NEW ts, MembersOK(t, users, teams),
         \A u \in User : users[u] # Nil => us[u] # Nil,
         \A u \in User : users[u] # Nil /\ u \in t.locks
                           => us[u].team = users[u].team,
         \A x \in Team : x \in t.locks /\ x \notin teams => x \notin ts
  PROVE  MembersOK(t, us, ts)
<1>1. /\ \A p \in PR : t.wPrs[p] # Nil => t.wPrs[p].author \in User
      /\ t.deactivated \in SUBSET User
  BY DEF Transaction, PrRow
<1>2. \A u \in User : t.wUsers[u] # Nil => u \in t.locks
  BY DEF Careful
<1>3. /\ t.pc = "insertPRQuery" => t.req.user \in User
      /\ NewTeam(t) => t.req.team \in Team
  BY RequestFields DEF Shape, NewTeam
<1>4. /\ \A p \in PR : t.wPrs[p] # Nil => us[t.wPrs[p].author] # Nil
      /\ \A p \in PR, u \in User : <<p, u>> \in t.wAdd => us[u] # Nil
      /\ t.pc = "insertPRQuery" => us[t.req.user] # Nil
  BY <1>1, <1>3 DEF MembersOK
<1>5. NewTeam(t) =>
        /\ t.req.team \in t.locks /\ t.req.team \notin ts
        /\ t.wTeams = {t.req.team}
        /\ \A u \in User : t.wUsers[u] # Nil => t.wUsers[u].team = t.req.team
  BY <1>3 DEF MembersOK
<1>6. ~NewTeam(t) =>
        /\ t.wTeams = {}
        /\ \A u \in User : t.wUsers[u] # Nil =>
             us[u] # Nil /\ t.wUsers[u].team = us[u].team
  BY <1>2 DEF MembersOK
<1>7. \A u \in t.deactivated :
        /\ t.wUsers[u] # Nil
        /\ us[u] # Nil /\ us[u].team = t.req.team
  BY <1>1, <1>2 DEF MembersOK
<1>8. /\ t.pc = "insertTeamQuery" => \A u \in User : t.wUsers[u] = Nil
      /\ t.pc = "deactivateUsersQuery" => t.team = t.req.team
  BY DEF MembersOK
<1> QED
  BY <1>4, <1>5, <1>6, <1>7, <1>8 DEF MembersOK

\* A statement inside a transaction keeps PeopleInv.
LEMMA ProceedMembers ==
  ASSUME MembersInv, NEW c \in Client, NEW next, Proceed(c, next),
         MembersOK(next, users, teams)
  PROVE  PeopleInv'
<1>1. /\ tx' = [tx EXCEPT ![c] = next]
      /\ users' = users /\ teams' = teams /\ prs' = prs /\ reviewers' = reviewers
  BY DEF Proceed
<1>2. tx \in [Client -> Transaction]
  BY DEF MembersInv, LedgerInv, Inv, TypeInv, TypeOK
<1>3. RowsHold'
  BY <1>1 DEF MembersInv, PeopleInv, RowsHold
<1>4. \A d \in Client : MembersOK(tx'[d], users, teams)
  BY <1>1, <1>2 DEF MembersInv, PeopleInv
<1> QED
  BY <1>1, <1>3, <1>4 DEF PeopleInv

\* So does the end of a request that leaves the rows good, and changes users
\* and teams only where nobody else has a lock.
LEMMA EndMembers ==
  ASSUME MembersInv, NEW c \in Client, NEW next,
         tx' = [tx EXCEPT ![c] = next], MembersOK(next, users', teams'),
         RowsHold',
         \A u \in User : users[u] # Nil => users'[u] # Nil,
         \A u \in User : users[u] # Nil /\ LockedByOther(c, u)
                           => users'[u].team = users[u].team,
         \A x \in Team : LockedByOther(c, x) /\ x \notin teams => x \notin teams'
  PROVE  PeopleInv'
<1>1. tx \in [Client -> Transaction]
  BY DEF MembersInv, LedgerInv, Inv, TypeInv, TypeOK
<1>2. ASSUME NEW d \in Client PROVE MembersOK(tx'[d], users', teams')
  <2>1. CASE d = c
    BY <1>1, <2>1
  <2>2. CASE d # c
    <3>1. /\ tx'[d] = tx[d] /\ tx[d] \in Transaction
          /\ Shape(tx[d], users, prs) /\ Careful(tx[d], prs)
          /\ MembersOK(tx[d], users, teams)
      BY <1>1, <2>2, ClientFacts DEF MembersInv, PeopleInv
    <3>2. /\ \A u \in User : users[u] # Nil /\ u \in tx[d].locks
                               => users'[u].team = users[u].team
          /\ \A x \in Team : x \in tx[d].locks /\ x \notin teams => x \notin teams'
      BY <2>2 DEF LockedByOther
    <3> QED BY <3>1, <3>2, MembersStable
  <2> QED BY <2>1, <2>2
<1> QED
  BY <1>2 DEF PeopleInv

\* The end of a request that changes no row.
LEMMA KeptMembers ==
  ASSUME MembersInv, NEW c \in Client, NEW next,
         tx' = [tx EXCEPT ![c] = next], MembersOK(next, users, teams),
         UNCHANGED tables
  PROVE  PeopleInv'
<1>1. users' = users /\ teams' = teams /\ prs' = prs /\ reviewers' = reviewers
  BY DEF tables
<1>2. RowsHold'
  BY <1>1 DEF MembersInv, PeopleInv, RowsHold
<1> QED
  BY <1>1, <1>2, EndMembers

\* A rollback keeps PeopleInv.
LEMMA FailMembers ==
  ASSUME MembersInv, NEW c \in Client, NEW err, Fail(c, err)
  PROVE  PeopleInv'
<1>1. MembersOK(Idle, users, teams)
  <2>1. /\ Idle.pc = "idle" /\ Idle.wTeams = {} /\ Idle.wAdd = {}
        /\ Idle.deactivated = {}
    BY DEF Idle
  <2> QED BY <2>1, IdleMembers DEF Label
<1> QED
  BY <1>1, KeptMembers DEF Fail, Finish

\* What every action lemma starts from.
LEMMA MemberFacts ==
  ASSUME MembersInv, NEW c \in Client
  PROVE  /\ tx[c] \in Transaction /\ Shape(tx[c], users, prs)
         /\ Careful(tx[c], prs) /\ Drafted(tx[c], Records)
         /\ MembersOK(tx[c], users, teams) /\ RowsHold
BY ClientFacts DEF MembersInv, PeopleInv

\* A statement that writes neither users nor teams.
LEMMA SameMembers ==
  ASSUME NEW t, NEW next, MembersOK(t, users, teams), ~NewTeam(t), ~NewTeam(next),
         t.pc # "insertTeamQuery", next.pc # "insertTeamQuery",
         next.req = t.req, next.wTeams = t.wTeams, next.wUsers = t.wUsers,
         next.deactivated = t.deactivated,
         \A p \in PR : next.wPrs[p] # Nil => users[next.wPrs[p].author] # Nil,
         \A p \in PR, u \in User : <<p, u>> \in next.wAdd => users[u] # Nil,
         next.pc = "insertPRQuery" => users[next.req.user] # Nil,
         next.pc = "deactivateUsersQuery" => next.team = next.req.team
  PROVE  MembersOK(next, users, teams)
BY DEF MembersOK

\* Of CreateTeam and DeactivateTeam, and of requests that stand before their
\* first write: a transaction with the same writes is about to do the same.
LEMMA SameWrites ==
  ASSUME MembersInv, NEW c \in Client, NEW next, Proceed(c, next),
         ~NewTeam(tx[c]), ~NewTeam(next),
         tx[c].pc # "insertTeamQuery", next.pc # "insertTeamQuery",
         next.req = tx[c].req, next.wTeams = tx[c].wTeams,
         next.wUsers = tx[c].wUsers, next.deactivated = tx[c].deactivated,
         next.wPrs = tx[c].wPrs, next.wAdd = tx[c].wAdd,
         next.pc = "insertPRQuery" => users[next.req.user] # Nil,
         next.pc = "deactivateUsersQuery" => next.team = next.req.team
  PROVE  PeopleInv'
<1>1. MembersOK(tx[c], users, teams)
  BY MemberFacts
<1>2. /\ \A p \in PR : next.wPrs[p] # Nil => users[next.wPrs[p].author] # Nil
      /\ \A p \in PR, u \in User : <<p, u>> \in next.wAdd => users[u] # Nil
  BY <1>1 DEF MembersOK
<1>3. MembersOK(next, users, teams)
  BY <1>1, <1>2, SameMembers
<1> QED
  BY <1>3, ProceedMembers

\* A request that arrives keeps PeopleInv.
LEMMA BeginMembers ==
  ASSUME MembersInv, NEW c \in Client, NEW r \in AnyRequest, Begin(c, r)
  PROVE  PeopleInv'
<1> tx[c] \in Transaction /\ Shape(tx[c], users, prs)
  BY MemberFacts
<1> DEFINE next == [Idle EXCEPT !.pc = FirstStatement[r.op], !.req = r]
<1>1. r \in AnyRequest
  OBVIOUS
<1>2. tx[c] = Idle
  BY DEF Begin, Shape
<1>3. FirstStatement[r.op] \in
        Label \ {"insertPRQuery", "upsertUserQuery", "commit",
                 "deactivateUsersQuery"}
  BY <1>1, RequestFields DEF FirstStatement, Label
<1>4. tx' = [tx EXCEPT ![c] = next]
  <2>1. tx' = [tx EXCEPT ![c].pc = FirstStatement[r.op], ![c].req = r]
    BY DEF Begin
  <2> QED
    BY <1>2, <2>1 DEF MembersInv, LedgerInv, Inv, TypeInv, TypeOK, Idle
<1>5. MembersOK(next, users, teams)
  <2>1. /\ next.pc = FirstStatement[r.op] /\ next.wTeams = {}
        /\ next.wUsers = Idle.wUsers /\ next.wPrs = Idle.wPrs
        /\ next.wAdd = {} /\ next.deactivated = {}
    BY DEF Idle
  <2> HIDE DEF next
  <2> QED BY <1>3, <2>1, IdleMembers
<1> QED
  BY <1>4, <1>5, KeptMembers DEF Begin

\* CreatePR's look-up of the author: he is there, and stays.
LEMMA SelectAuthorMembers ==
  ASSUME MembersInv, NEW c \in Client, SelectAuthor(c)
  PROVE  PeopleInv'
<1> tx[c] \in Transaction
  BY MemberFacts
<1> DEFINE next == [tx[c] EXCEPT !.pc = "insertPRQuery",
                                 !.team = users[tx[c].req.user].team]
<1>1. CASE \E err : Fail(c, err)
  BY <1>1, FailMembers
<1>2. CASE users[tx[c].req.user] # Nil /\ Proceed(c, next)
  <2>1. /\ next.pc = "insertPRQuery" /\ next.req = tx[c].req
        /\ next.wTeams = tx[c].wTeams /\ next.wUsers = tx[c].wUsers
        /\ next.deactivated = tx[c].deactivated
        /\ next.wPrs = tx[c].wPrs /\ next.wAdd = tx[c].wAdd
    BY DEF Transaction
  <2>2. Proceed(c, next) /\ tx[c].pc = "selectAuthorQuery"
    BY <1>2 DEF SelectAuthor
  <2> HIDE DEF next
  <2> QED BY <1>2, <2>1, <2>2, SameWrites DEF NewTeam
<1> QED
  BY <1>1, <1>2 DEF SelectAuthor

\* CreatePR's INSERT: the author of the row is a user.
LEMMA InsertPRMembers ==
  ASSUME MembersInv, NEW c \in Client, InsertPR(c)
  PROVE  PeopleInv'
<1> /\ tx[c] \in Transaction /\ MembersOK(tx[c], users, teams)
    /\ Shape(tx[c], users, prs)
  BY MemberFacts
<1> DEFINE p == tx[c].req.pr
           row == [author |-> tx[c].req.user, status |-> "OPEN"]
           next == [tx[c] EXCEPT !.pc = "selectCandidatesQuery",
                                 !.locks = @ \cup {p},
                                 !.wPrs[p] = row]
<1>1. CASE \E err : Fail(c, err)
  BY <1>1, FailMembers
<1>2. CASE Proceed(c, next)
  <2>1. p \in PR /\ users[row.author] # Nil /\ tx[c].pc = "insertPRQuery"
    BY RequestFields DEF InsertPR, Shape, MembersOK
  <2>2. /\ next.pc = "selectCandidatesQuery" /\ next.req = tx[c].req
        /\ next.wTeams = tx[c].wTeams /\ next.wUsers = tx[c].wUsers
        /\ next.deactivated = tx[c].deactivated
        /\ next.wPrs[p] = row
        /\ \A q \in PR : q # p => next.wPrs[q] = tx[c].wPrs[q]
        /\ next.wAdd = tx[c].wAdd
    BY <2>1 DEF Transaction
  <2>3. Proceed(c, next)
    BY <1>2
  <2> HIDE DEF next, row
  <2>4. /\ \A q \in PR : next.wPrs[q] # Nil => users[next.wPrs[q].author] # Nil
        /\ \A q \in PR, u \in User : <<q, u>> \in next.wAdd => users[u] # Nil
    BY <2>1, <2>2 DEF MembersOK
  <2>5. MembersOK(next, users, teams)
    BY <2>1, <2>2, <2>4, SameMembers DEF NewTeam
  <2> QED BY <2>3, <2>5, ProceedMembers
<1> QED
  BY <1>1, <1>2 DEF InsertPR

\* CreatePR's draw: the reviewers are users.
LEMMA SelectCandidatesMembers ==
  ASSUME MembersInv, NEW c \in Client, SelectCandidates(c)
  PROVE  PeopleInv'
<1> /\ tx[c] \in Transaction /\ MembersOK(tx[c], users, teams)
    /\ Shape(tx[c], users, prs)
  BY MemberFacts
<1> DEFINE p == tx[c].req.pr
           S == TeamCandidates(users, tx[c].team, tx[c].req.user)
           next(R) == [tx[c] EXCEPT !.pc = "commit", !.seen = R,
                                    !.wAdd = @ \cup ({p} \X R)]
<1>1. PICK R \in PickRandom(S, 2) : Proceed(c, next(R))
  BY DEF SelectCandidates
<1>2. tx[c].pc = "selectCandidatesQuery" /\ tx[c].req.op = "CreatePR"
  BY DEF SelectCandidates, Shape
<1>3. \A u \in R : users[u] # Nil
  BY DEF PickRandom, TeamCandidates, ActiveUsers
<1> DEFINE n == next(R)
<1>4. /\ n.pc = "commit" /\ n.req = tx[c].req
      /\ n.wTeams = tx[c].wTeams /\ n.wUsers = tx[c].wUsers
      /\ n.deactivated = tx[c].deactivated
      /\ n.wPrs = tx[c].wPrs
      /\ n.wAdd = tx[c].wAdd \cup ({p} \X R)
  BY DEF Transaction
<1>5. Proceed(c, n)
  BY <1>1
<1> HIDE DEF next, n, S
<1>6. /\ \A q \in PR : n.wPrs[q] # Nil => users[n.wPrs[q].author] # Nil
      /\ \A q \in PR, u \in User : <<q, u>> \in n.wAdd => users[u] # Nil
  BY <1>3, <1>4 DEF MembersOK
<1>7. MembersOK(n, users, teams)
  BY <1>2, <1>4, <1>6, SameMembers DEF NewTeam
<1> QED
  BY <1>5, <1>7, ProceedMembers

\* MergePR's UPDATE leaves the author.
LEMMA SelectPRForMergeMembers ==
  ASSUME MembersInv, NEW c \in Client, SelectPRForMerge(c)
  PROVE  PeopleInv'
<1> /\ tx[c] \in Transaction /\ MembersOK(tx[c], users, teams)
    /\ Shape(tx[c], users, prs) /\ RowsHold
  BY MemberFacts
<1> DEFINE p == tx[c].req.pr
           row == IF prs[p].status = "MERGED" THEN Nil
                  ELSE [prs[p] EXCEPT !.status = "MERGED"]
           next == [tx[c] EXCEPT !.pc = "commit",
                                 !.locks = @ \cup {p},
                                 !.seen = ReviewersOf(reviewers, p),
                                 !.wPrs[p] = row]
<1>1. CASE \E err : Fail(c, err)
  BY <1>1, FailMembers
<1>2. CASE prs[p] # Nil /\ Proceed(c, next)
  <2>1. p \in PR /\ tx[c].req.op = "MergePR" /\ tx[c].pc = "selectPRForUpdateQuery"
    BY RequestFields DEF SelectPRForMerge, Shape
  <2>2. prs[p] \in PrRow
    BY <1>2, <2>1, DatabaseFields DEF MembersInv, LedgerInv, Inv, TypeInv
  <2>3. row # Nil => users[row.author] # Nil
    BY <1>2, <2>1, <2>2 DEF PrRow, RowsHold
  <2>4. Proceed(c, next)
    BY <1>2
  <2> HIDE DEF row
  <2>5. /\ next.pc = "commit" /\ next.req = tx[c].req
        /\ next.wTeams = tx[c].wTeams /\ next.wUsers = tx[c].wUsers
        /\ next.deactivated = tx[c].deactivated
        /\ next.wPrs[p] = row
        /\ \A q \in PR : q # p => next.wPrs[q] = tx[c].wPrs[q]
        /\ next.wAdd = tx[c].wAdd
    BY <2>1 DEF Transaction
  <2> HIDE DEF next
  <2>6. /\ \A q \in PR : next.wPrs[q] # Nil => users[next.wPrs[q].author] # Nil
        /\ \A q \in PR, u \in User : <<q, u>> \in next.wAdd => users[u] # Nil
    BY <2>1, <2>3, <2>5 DEF MembersOK
  <2>7. MembersOK(next, users, teams)
    BY <2>1, <2>5, <2>6, SameMembers DEF NewTeam
  <2> QED BY <2>4, <2>7, ProceedMembers
<1> QED
  BY <1>1, <1>2 DEF SelectPRForMerge

\* ReassignReviewer's SELECT ... FOR UPDATE and checks keep PeopleInv.
LEMMA SelectPRForReassignMembers ==
  ASSUME MembersInv, NEW c \in Client, SelectPRForReassign(c)
  PROVE  PeopleInv'
<1> tx[c] \in Transaction
  BY MemberFacts
<1> DEFINE p == tx[c].req.pr
           next == [tx[c] EXCEPT !.pc = "selectReviewerTeamQuery",
                                 !.locks = @ \cup {p},
                                 !.seen = ReviewersOf(reviewers, p)]
<1>1. CASE \E err : Fail(c, err)
  BY <1>1, FailMembers
<1>2. CASE Proceed(c, next)
  <2>1. /\ next.pc = "selectReviewerTeamQuery" /\ next.req = tx[c].req
        /\ next.wTeams = tx[c].wTeams /\ next.wUsers = tx[c].wUsers
        /\ next.deactivated = tx[c].deactivated
        /\ next.wPrs = tx[c].wPrs /\ next.wAdd = tx[c].wAdd
    BY DEF Transaction
  <2>2. Proceed(c, next) /\ tx[c].pc = "selectPRForUpdateQuery"
    BY <1>2 DEF SelectPRForReassign
  <2> HIDE DEF next
  <2> QED BY <2>1, <2>2, SameWrites DEF NewTeam
<1> QED
  BY <1>1, <1>2 DEF SelectPRForReassign

\* ReassignReviewer's look-up of the old reviewer's team keeps PeopleInv.
LEMMA SelectReviewerTeamMembers ==
  ASSUME MembersInv, NEW c \in Client, SelectReviewerTeam(c)
  PROVE  PeopleInv'
<1> tx[c] \in Transaction
  BY MemberFacts
<1> DEFINE next == [tx[c] EXCEPT !.pc = "selectReplacementCandidatesQuery",
                                 !.team = users[tx[c].req.user].team]
<1>1. CASE \E err : Fail(c, err)
  BY <1>1, FailMembers
<1>2. CASE Proceed(c, next)
  <2>1. /\ next.pc = "selectReplacementCandidatesQuery" /\ next.req = tx[c].req
        /\ next.wTeams = tx[c].wTeams /\ next.wUsers = tx[c].wUsers
        /\ next.deactivated = tx[c].deactivated
        /\ next.wPrs = tx[c].wPrs /\ next.wAdd = tx[c].wAdd
    BY DEF Transaction
  <2>2. Proceed(c, next) /\ tx[c].pc = "selectReviewerTeamQuery"
    BY <1>2 DEF SelectReviewerTeam
  <2> HIDE DEF next
  <2> QED BY <2>1, <2>2, SameWrites DEF NewTeam
<1> QED
  BY <1>1, <1>2 DEF SelectReviewerTeam

\* ReassignReviewer's draw: the new reviewer is a user.
LEMMA SelectReplacementMembers ==
  ASSUME MembersInv, NEW c \in Client, SelectReplacement(c)
  PROVE  PeopleInv'
<1> /\ tx[c] \in Transaction /\ MembersOK(tx[c], users, teams)
    /\ Shape(tx[c], users, prs)
  BY MemberFacts
<1> DEFINE p == tx[c].req.pr
           old == tx[c].req.user
           candidates ==
             TeamCandidates(users, tx[c].team, prs[p].author) \ tx[c].seen
           next(new) == [tx[c] EXCEPT
             !.pc = "commit",
             !.seen = (@ \ {old}) \cup {new},
             !.wDel = @ \cup {<<p, old>>},
             !.wAdd = @ \cup {<<p, new>>},
             !.wLog[p] = Append(@, Logged(old, new))]
<1>1. CASE \E err : Fail(c, err)
  BY <1>1, FailMembers
<1>2. CASE \E new \in candidates : Proceed(c, next(new))
  <2>1. PICK new \in candidates : Proceed(c, next(new))
    BY <1>2
  <2>2. users[new] # Nil
    BY DEF TeamCandidates, ActiveUsers
  <2>3. /\ tx[c].pc = "selectReplacementCandidatesQuery"
        /\ tx[c].req.op = "ReassignReviewer"
    BY DEF SelectReplacement, Shape
  <2> DEFINE n == next(new)
  <2>4. /\ n.pc = "commit" /\ n.req = tx[c].req
        /\ n.wTeams = tx[c].wTeams /\ n.wUsers = tx[c].wUsers
        /\ n.deactivated = tx[c].deactivated
        /\ n.wPrs = tx[c].wPrs
        /\ n.wAdd = tx[c].wAdd \cup {<<p, new>>}
    BY DEF Transaction
  <2>5. Proceed(c, n)
    BY <2>1
  <2> HIDE DEF next, n, candidates
  <2>6. /\ \A q \in PR : n.wPrs[q] # Nil => users[n.wPrs[q].author] # Nil
        /\ \A q \in PR, u \in User : <<q, u>> \in n.wAdd => users[u] # Nil
    BY <2>2, <2>4 DEF MembersOK
  <2>7. MembersOK(n, users, teams)
    BY <2>3, <2>4, <2>6, SameMembers DEF NewTeam
  <2> QED BY <2>5, <2>7, ProceedMembers
<1> QED
  BY <1>1, <1>2 DEF SelectReplacement

\* The start of SetUserActive's statement keeps PeopleInv.
LEMMA StartSetUserActiveMembers ==
  ASSUME MembersInv, NEW c \in Client, StartSetUserActive(c)
  PROVE  PeopleInv'
<1> tx[c] \in Transaction
  BY MemberFacts
<1> DEFINE next == [tx[c] EXCEPT !.pc = "updated", !.snapshot = teams]
<1>1. CASE \E err : Fail(c, err)
  BY <1>1, FailMembers
<1>2. CASE Proceed(c, next)
  <2>1. /\ next.pc = "updated" /\ next.req = tx[c].req
        /\ next.wTeams = tx[c].wTeams /\ next.wUsers = tx[c].wUsers
        /\ next.deactivated = tx[c].deactivated
        /\ next.wPrs = tx[c].wPrs /\ next.wAdd = tx[c].wAdd
    BY DEF Transaction
  <2>2. Proceed(c, next) /\ tx[c].pc = "setUserActiveQuery"
    BY <1>2 DEF StartSetUserActive
  <2> HIDE DEF next
  <2> QED BY <2>1, <2>2, SameWrites DEF NewTeam
<1> QED
  BY <1>1, <1>2 DEF StartSetUserActive

\* SetUserActive's UPDATE leaves every user in his team.
LEMMA UpdateKeepsTeams ==
  ASSUME MembersInv, NEW c \in Client, UpdateUserActive(c)
  PROVE  \A u \in User : /\ users[u] # Nil <=> users'[u] # Nil
                         /\ users'[u].team = users[u].team
<1> tx[c] \in Transaction /\ Shape(tx[c], users, prs)
  BY MemberFacts
<1> DEFINE v == tx[c].req.user
<1>1. users' = [users EXCEPT ![v].active = tx[c].req.active]
  BY DEF UpdateUserActive
<1>2. v \in User /\ users[v] # Nil
  BY RequestFields DEF UpdateUserActive, Shape
<1>3. users \in [User -> UserRow \cup {Nil}]
  BY DatabaseFields DEF MembersInv, LedgerInv, Inv, TypeInv
<1>4. users[v] \in UserRow /\ tx[c].req.active \in BOOLEAN
  BY <1>2, <1>3, RequestFields DEF UpdateUserActive, Shape
<1>5. users'[v] = [users[v] EXCEPT !.active = tx[c].req.active]
  BY <1>1, <1>2, <1>3
<1>6. users'[v] \in UserRow /\ users'[v].team = users[v].team
  BY <1>4, <1>5 DEF UserRow
<1>7. \A u \in User : u # v => users'[u] = users[u]
  BY <1>1, <1>3
<1> QED
  BY <1>2, <1>6, <1>7, NilAssumption

\* SetUserActive's UPDATE keeps PeopleInv.
LEMMA UpdateUserActiveMembers ==
  ASSUME MembersInv, NEW c \in Client, UpdateUserActive(c)
  PROVE  PeopleInv'
<1> RowsHold
  BY MemberFacts
<1>1. /\ teams' = teams /\ prs' = prs /\ reviewers' = reviewers
      /\ tx' = [tx EXCEPT ![c] = Idle]
  BY DEF UpdateUserActive, Finish
<1>2. \A u \in User : /\ users[u] # Nil <=> users'[u] # Nil
                      /\ users'[u].team = users[u].team
  BY UpdateKeepsTeams
<1>3. RowsHold'
  <2>1. prs \in [PR -> PrRow \cup {Nil}]
    BY DatabaseFields DEF MembersInv, LedgerInv, Inv, TypeInv
  <2>2. \A p \in PR : prs[p] # Nil => prs[p].author \in User
    BY <2>1 DEF PrRow
  <2> QED BY <1>1, <1>2, <2>2 DEF RowsHold, ReviewersOf
<1>4. MembersOK(Idle, users', teams')
  <2>1. /\ Idle.pc = "idle" /\ Idle.wTeams = {} /\ Idle.wAdd = {}
        /\ Idle.deactivated = {}
    BY DEF Idle
  <2> QED BY <2>1, IdleMembers DEF Label
<1> QED
  BY <1>1, <1>2, <1>3, <1>4, EndMembers

\* CreateTeam's INSERT of the team: it is new, and nobody else can insert it
\* before the COMMIT.
LEMMA InsertTeamMembers ==
  ASSUME MembersInv, NEW c \in Client, InsertTeam(c)
  PROVE  PeopleInv'
<1> /\ tx[c] \in Transaction /\ MembersOK(tx[c], users, teams)
    /\ Shape(tx[c], users, prs)
  BY MemberFacts
<1> DEFINE t == tx[c].req.team
           next == [tx[c] EXCEPT !.pc = AfterMember(tx[c].req.members),
                                 !.locks = @ \cup {t},
                                 !.members = tx[c].req.members,
                                 !.wTeams = @ \cup {t}]
<1>1. CASE \E err : Fail(c, err)
  BY <1>1, FailMembers
<1>2. CASE t \notin teams /\ Proceed(c, next)
  <2>1. tx[c].pc = "insertTeamQuery" /\ tx[c].req.op = "CreateTeam"
    BY DEF InsertTeam, Shape
  <2>2. /\ next.pc \in {"commit", "upsertUserQuery"} /\ next.req = tx[c].req
        /\ next.locks = tx[c].locks \cup {t}
        /\ next.wTeams = tx[c].wTeams \cup {t} /\ next.wUsers = tx[c].wUsers
        /\ next.deactivated = tx[c].deactivated
        /\ next.wPrs = tx[c].wPrs /\ next.wAdd = tx[c].wAdd
    BY DEF AfterMember, Transaction
  <2>3. Proceed(c, next)
    BY <1>2
  <2> HIDE DEF next
  <2>4. MembersOK(next, users, teams)
    BY <1>2, <2>1, <2>2 DEF MembersOK, NewTeam
  <2> QED BY <2>3, <2>4, ProceedMembers
<1> QED
  BY <1>1, <1>2 DEF InsertTeam

\* CreateTeam's upsert puts the member in the new team.
LEMMA UpsertUserMembers ==
  ASSUME MembersInv, NEW c \in Client, UpsertUser(c)
  PROVE  PeopleInv'
<1> /\ tx[c] \in Transaction /\ MembersOK(tx[c], users, teams)
    /\ Shape(tx[c], users, prs)
  BY MemberFacts
<1> DEFINE m == Head(tx[c].members)
           row == [team |-> tx[c].req.team, active |-> m.active]
           next == [tx[c] EXCEPT
             !.pc = AfterMember(Tail(tx[c].members)),
             !.locks = @ \cup {m.id},
             !.members = Tail(@),
             !.wUsers[m.id] = row]
<1>1. Proceed(c, next) /\ tx[c].pc = "upsertUserQuery"
  BY DEF UpsertUser
<1>2. tx[c].req.op = "CreateTeam"
  BY <1>1 DEF Shape
<1>3. row.team = tx[c].req.team /\ row # Nil
  <2>1. tx[c].members \in Seq(Member) /\ tx[c].members # <<>>
    BY <1>1 DEF Shape, Transaction
  <2>2. m \in Member
    BY <2>1, HeadTailProperties
  <2>3. row \in UserRow
    BY <1>1, <1>2, <2>2, RequestFields DEF Shape, Member, UserRow
  <2> QED BY <2>3, NilAssumption
<1> HIDE DEF row, m
<1>4. /\ next.pc \in {"commit", "upsertUserQuery"} /\ next.req = tx[c].req
      /\ tx[c].locks \subseteq next.locks
      /\ next.wTeams = tx[c].wTeams
      /\ next.wUsers = [tx[c].wUsers EXCEPT ![m.id] = row]
      /\ next.deactivated = tx[c].deactivated
      /\ next.wPrs = tx[c].wPrs /\ next.wAdd = tx[c].wAdd
  BY DEF AfterMember, Transaction
<1>5. tx[c].wUsers \in [User -> UserRow \cup {Nil}] /\ tx[c].deactivated \subseteq User
  BY DEF Transaction
<1> HIDE DEF next
<1>6. \A u \in User : next.wUsers[u] = row \/ next.wUsers[u] = tx[c].wUsers[u]
  BY <1>4, <1>5
<1>7. NewTeam(tx[c]) /\ NewTeam(next)
  BY <1>1, <1>2, <1>4 DEF NewTeam
<1>8. /\ next.req.team \in next.locks /\ next.req.team \notin teams
      /\ next.wTeams = {next.req.team}
  BY <1>4, <1>7 DEF MembersOK
<1>9. \A u \in User : next.wUsers[u] # Nil => next.wUsers[u].team = next.req.team
  BY <1>3, <1>4, <1>6, <1>7 DEF MembersOK
<1>10. \A u \in next.deactivated :
         /\ next.wUsers[u] # Nil
         /\ users[u] # Nil /\ users[u].team = next.req.team
  BY <1>3, <1>4, <1>5, <1>6 DEF MembersOK
<1>11. /\ \A q \in PR : next.wPrs[q] # Nil => users[next.wPrs[q].author] # Nil
       /\ \A q \in PR, u \in User : <<q, u>> \in next.wAdd => users[u] # Nil
  BY <1>4 DEF MembersOK
<1>12. MembersOK(next, users, teams)
  BY <1>4, <1>7, <1>8, <1>9, <1>10, <1>11 DEF MembersOK
<1> QED
  BY <1>1, <1>12, ProceedMembers

\* CreateTeam's read-back after the COMMIT keeps PeopleInv.
LEMMA GetTeamMembers ==
  ASSUME MembersInv, NEW c \in Client, GetTeam(c)
  PROVE  PeopleInv'
<1>1. CASE \E answer : Fail(c, answer)
  BY <1>1, FailMembers
<1> QED
  BY <1>1 DEF GetTeam, Fail

\* DeactivateTeam's look-up of the team keeps PeopleInv.
LEMMA SelectTeamForDeactivateMembers ==
  ASSUME MembersInv, NEW c \in Client, SelectTeamForDeactivate(c)
  PROVE  PeopleInv'
<1> tx[c] \in Transaction /\ Shape(tx[c], users, prs)
  BY MemberFacts
<1> DEFINE t == tx[c].req.team
           rows == {u \in ActiveUsers(users) : users[u].team = t}
           next(r) == [tx[c] EXCEPT
             !.pc = IF r = Nil THEN "commit" ELSE "deactivateUsersQuery",
             !.team = t,
             !.at = r,
             !.todo = rows \ {r}]
<1>1. CASE \E err : Fail(c, err)
  BY <1>1, FailMembers
<1>2. CASE \E r \in NextRow(rows) : Proceed(c, next(r))
  <2>1. PICK r \in NextRow(rows) : Proceed(c, next(r))
    BY <1>2
  <2>2. /\ tx[c].pc = "selectTeamIDForDeactivate"
        /\ tx[c].req.op = "DeactivateTeam"
    BY DEF SelectTeamForDeactivate, Shape, DeactivateLabel
  <2> DEFINE n == next(r)
  <2>3. /\ n.pc \in {"commit", "deactivateUsersQuery"}
        /\ n.req = tx[c].req /\ n.team = tx[c].req.team
        /\ n.wTeams = tx[c].wTeams /\ n.wUsers = tx[c].wUsers
        /\ n.deactivated = tx[c].deactivated
        /\ n.wPrs = tx[c].wPrs /\ n.wAdd = tx[c].wAdd
    BY DEF Transaction
  <2>4. Proceed(c, n)
    BY <2>1
  <2> HIDE DEF next, n
  <2> QED BY <2>2, <2>3, <2>4, SameWrites DEF NewTeam
<1> QED
  BY <1>1, <1>2 DEF SelectTeamForDeactivate

\* DeactivateTeam's UPDATE of one user: he is in the team, and stays.
LEMMA DeactivateUserMembers ==
  ASSUME MembersInv, NEW c \in Client, DeactivateUser(c)
  PROVE  PeopleInv'
<1> /\ tx[c] \in Transaction /\ MembersOK(tx[c], users, teams)
    /\ Shape(tx[c], users, prs)
  BY MemberFacts
<1> DEFINE t == tx[c]
           u == tx[c].at
           match == users[u].team = tx[c].team /\ users[u].active
           hit == IF match THEN tx[c].deactivated \cup {u} ELSE tx[c].deactivated
           row == [users[u] EXCEPT !.active = FALSE]
           next(r) == [tx[c] EXCEPT
             !.pc = CASE r # Nil  -> "deactivateUsersQuery"
                      [] r = Nil /\ hit = {} -> "commit"
                      [] r = Nil /\ hit # {} -> "selectImpactedPRsQuery",
             !.locks = @ \cup {u},
             !.at = r,
             !.todo = @ \ {r},
             !.deactivated = hit,
             !.wUsers[u] = IF match THEN row ELSE @]
<1>1. PICK r \in NextRow(tx[c].todo) : Proceed(c, next(r))
  BY DEF DeactivateUser
<1>2. /\ t.pc = "deactivateUsersQuery" /\ t.req.op = "DeactivateTeam"
      /\ u \in User /\ users[u] # Nil
  BY DEF DeactivateUser, Shape, DeactivateLabel
<1>3. row # Nil /\ row.team = users[u].team
  <2>1. users[u] \in UserRow
    BY <1>2, DatabaseFields DEF MembersInv, LedgerInv, Inv, TypeInv
  <2>2. row \in UserRow /\ row.team = users[u].team
    BY <2>1 DEF UserRow
  <2> QED BY <2>2, NilAssumption
<1>4. match => users[u].team = t.req.team
  BY <1>2 DEF MembersOK
<1> DEFINE n == next(r)
<1>5. n.pc \in {"commit", "deactivateUsersQuery", "selectImpactedPRsQuery"}
  BY DEF Transaction
<1> HIDE DEF match, row
<1>6. /\ n.req = t.req /\ n.team = t.team
      /\ n.deactivated = hit /\ n.wTeams = t.wTeams
      /\ n.wUsers = [t.wUsers EXCEPT ![u] = IF match THEN row ELSE @]
      /\ n.wPrs = t.wPrs /\ n.wAdd = t.wAdd
  BY DEF Transaction
<1>7. t.wUsers \in [User -> UserRow \cup {Nil}] /\ t.deactivated \subseteq User
  BY DEF Transaction
<1>8. Proceed(c, n)
  BY <1>1
<1> HIDE DEF next, n
<1>9. ~NewTeam(t) /\ ~NewTeam(n) /\ n.pc # "insertTeamQuery"
  BY <1>2, <1>5, <1>6 DEF NewTeam
<1>10. \A v \in User : n.wUsers[v] # Nil =>
         users[v] # Nil /\ n.wUsers[v].team = users[v].team
  BY <1>2, <1>3, <1>6, <1>7, <1>9 DEF MembersOK
<1>11. \A v \in n.deactivated :
         /\ n.wUsers[v] # Nil
         /\ users[v] # Nil /\ users[v].team = n.req.team
  BY <1>2, <1>3, <1>4, <1>6, <1>7 DEF MembersOK
<1>12. MembersOK(n, users, teams)
  BY <1>2, <1>5, <1>6, <1>9, <1>10, <1>11 DEF MembersOK
<1> QED
  BY <1>8, <1>12, ProceedMembers

\* DeactivateTeam's query for the PRs to clean up keeps PeopleInv.
LEMMA SelectImpactedPRsMembers ==
  ASSUME MembersInv, NEW c \in Client, SelectImpactedPRs(c)
  PROVE  PeopleInv'
<1> tx[c] \in Transaction /\ Shape(tx[c], users, prs)
  BY MemberFacts
<1> DEFINE rows == ImpactedPRs(prs, reviewers, tx[c].deactivated)
           next(r) == [tx[c] EXCEPT
             !.pc = IF r = Nil THEN "commit" ELSE "lockImpacted",
             !.at = r,
             !.todo = rows \ {r}]
<1>1. PICK r \in NextRow(rows) : Proceed(c, next(r))
  BY DEF SelectImpactedPRs
<1>2. /\ tx[c].pc = "selectImpactedPRsQuery"
      /\ tx[c].req.op = "DeactivateTeam"
  BY DEF SelectImpactedPRs, Shape, DeactivateLabel
<1> DEFINE n == next(r)
<1>3. /\ n.pc \in {"commit", "lockImpacted"}
      /\ n.req = tx[c].req
      /\ n.wTeams = tx[c].wTeams /\ n.wUsers = tx[c].wUsers
      /\ n.deactivated = tx[c].deactivated
      /\ n.wPrs = tx[c].wPrs /\ n.wAdd = tx[c].wAdd
  BY DEF Transaction
<1>4. Proceed(c, n)
  BY <1>1
<1> HIDE DEF next, n
<1> QED
  BY <1>2, <1>3, <1>4, SameWrites DEF NewTeam

\* DeactivateTeam's lock on one PR keeps PeopleInv.
LEMMA LockImpactedMembers ==
  ASSUME MembersInv, NEW c \in Client, LockImpacted(c)
  PROVE  PeopleInv'
<1> tx[c] \in Transaction /\ Shape(tx[c], users, prs)
  BY MemberFacts
<1> DEFINE p == tx[c].at
           hit == IF prs[p].status = "OPEN" THEN tx[c].impacted \cup {p}
                                            ELSE tx[c].impacted
           next(r) == [tx[c] EXCEPT
             !.pc = IF r # Nil THEN "lockImpacted" ELSE AfterPR(hit),
             !.locks = @ \cup {p},
             !.at = r,
             !.todo = @ \ {r},
             !.impacted = hit]
<1>1. PICK r \in NextRow(tx[c].todo) : Proceed(c, next(r))
  BY DEF LockImpacted
<1>2. tx[c].pc = "lockImpacted" /\ tx[c].req.op = "DeactivateTeam"
  BY DEF LockImpacted, Shape, DeactivateLabel
<1> DEFINE n == next(r)
<1>3. /\ n.pc \in {"lockImpacted", "selectPRStatusQuery", "commit"}
      /\ n.req = tx[c].req
      /\ n.wTeams = tx[c].wTeams /\ n.wUsers = tx[c].wUsers
      /\ n.deactivated = tx[c].deactivated
      /\ n.wPrs = tx[c].wPrs /\ n.wAdd = tx[c].wAdd
  BY DEF AfterPR, Transaction
<1>4. Proceed(c, n)
  BY <1>1
<1> HIDE DEF next, n
<1> QED
  BY <1>2, <1>3, <1>4, SameWrites DEF NewTeam

\* DeactivateTeam's look at the next PR of its list keeps PeopleInv.
LEMMA BeginPRMembers ==
  ASSUME MembersInv, NEW c \in Client, BeginPR(c)
  PROVE  PeopleInv'
<1> tx[c] \in Transaction /\ Shape(tx[c], users, prs)
  BY MemberFacts
<1> DEFINE existing(p) == ReviewersOf(ReviewersSeenBy(c), p)
           leaving(p) == IF PrsSeenBy(c)[p].status = "OPEN"
                         THEN existing(p) \cap tx[c].deactivated ELSE {}
           next(p) == [tx[c] EXCEPT
             !.pc = IF leaving(p) = {} THEN AfterPR(tx[c].impacted \ {p})
                                       ELSE "activeReplacementQuery",
             !.at = p,
             !.seen = existing(p),
             !.todo = leaving(p),
             !.impacted = @ \ {p}]
<1>1. PICK p \in tx[c].impacted : Proceed(c, next(p))
  BY DEF BeginPR
<1>2. tx[c].pc = "selectPRStatusQuery" /\ tx[c].req.op = "DeactivateTeam"
  BY DEF BeginPR, Shape, DeactivateLabel
<1> DEFINE n == next(p)
<1>3. /\ n.pc \in {"activeReplacementQuery", "selectPRStatusQuery", "commit"}
      /\ n.req = tx[c].req
      /\ n.wTeams = tx[c].wTeams /\ n.wUsers = tx[c].wUsers
      /\ n.deactivated = tx[c].deactivated
      /\ n.wPrs = tx[c].wPrs /\ n.wAdd = tx[c].wAdd
  BY DEF AfterPR, Transaction
<1>4. Proceed(c, n)
  BY <1>1
<1> HIDE DEF next, n
<1> QED
  BY <1>2, <1>3, <1>4, SameWrites DEF NewTeam

\* DeactivateTeam's replacement of one reviewer: the new one is a user.
LEMMA ReplaceReviewerMembers ==
  ASSUME MembersInv, NEW c \in Client, ReplaceReviewer(c)
  PROVE  PeopleInv'
<1> /\ tx[c] \in Transaction /\ MembersOK(tx[c], users, teams)
    /\ Shape(tx[c], users, prs)
  BY MemberFacts
<1> DEFINE t == tx[c]
           p == tx[c].at
           author == PrsSeenBy(c)[p].author
           rest(r) == tx[c].seen \ {r}
           next(r, new) == [tx[c] EXCEPT
             !.pc = IF tx[c].todo # {r} THEN "activeReplacementQuery"
                                        ELSE AfterPR(tx[c].impacted),
             !.todo = @ \ {r},
             !.seen = rest(r) \cup ({new} \ {Nil}),
             !.wDel = @ \cup {<<p, r>>},
             !.wAdd = (@ \ {<<p, r>>}) \cup ({p} \X ({new} \ {Nil})),
             !.wLog[p] = Append(@, Logged(r, new))]
<1>1. PICK r \in t.todo :
        \E new \in PickReplacement(UsersSeenBy(c), t.team, author, rest(r)) :
          Proceed(c, next(r, new))
  BY DEF ReplaceReviewer
<1>2. PICK new \in PickReplacement(UsersSeenBy(c), t.team, author, rest(r)) :
        Proceed(c, next(r, new))
  BY <1>1
<1>3. t.pc = "activeReplacementQuery" /\ t.req.op = "DeactivateTeam"
  BY DEF ReplaceReviewer, Shape, DeactivateLabel
<1>4. new = Nil \/ (new \in User /\ UsersSeenBy(c)[new] # Nil)
  BY PickedReplacement
<1>5. new # Nil => users[new] # Nil
  BY <1>3, <1>4 DEF UsersSeenBy, MembersOK, NewTeam
<1> DEFINE n == next(r, new)
<1>6. /\ n.pc \in {"activeReplacementQuery", "selectPRStatusQuery", "commit"}
      /\ n.req = t.req
      /\ n.wTeams = t.wTeams /\ n.wUsers = t.wUsers
      /\ n.deactivated = t.deactivated
      /\ n.wPrs = t.wPrs
      /\ n.wAdd = (t.wAdd \ {<<p, r>>}) \cup ({p} \X ({new} \ {Nil}))
  BY DEF AfterPR, Transaction
<1>7. Proceed(c, n)
  BY <1>2
<1> HIDE DEF next, n
<1>8. /\ \A q \in PR : n.wPrs[q] # Nil => users[n.wPrs[q].author] # Nil
      /\ \A q \in PR, u \in User : <<q, u>> \in n.wAdd => users[u] # Nil
  BY <1>5, <1>6 DEF MembersOK
<1>9. MembersOK(n, users, teams)
  BY <1>3, <1>6, <1>8, SameMembers DEF NewTeam
<1> QED
  BY <1>7, <1>9, ProceedMembers

\* COMMIT leaves the rows good: whoever it makes an author, a reviewer or a
\* member of a team has a row.
LEMMA CommitRows ==
  ASSUME MembersInv, NEW c \in Client, tx[c].pc = "commit", Publish(c)
  PROVE  RowsHold'
<1> /\ tx[c] \in Transaction /\ MembersOK(tx[c], users, teams) /\ RowsHold
  BY MemberFacts
<1> DEFINE t == tx[c]
<1>1. /\ \A u \in User : users'[u] = IF t.wUsers[u] # Nil THEN t.wUsers[u]
                                                       ELSE users[u]
      /\ \A p \in PR : prs'[p] = IF t.wPrs[p] # Nil THEN t.wPrs[p] ELSE prs[p]
      /\ teams' = teams \cup t.wTeams
      /\ reviewers' = (reviewers \ t.wDel) \cup t.wAdd
  BY DEF Publish, UsersSeenBy, PrsSeenBy, ReviewersSeenBy
<1>2. \A u \in User : users[u] # Nil => users'[u] # Nil
  BY <1>1
<1>3. \A u \in User : users'[u] # Nil => users'[u].team \in teams'
  <2>1. CASE NewTeam(t)
    BY <1>1, <2>1 DEF MembersOK, RowsHold
  <2>2. CASE ~NewTeam(t)
    BY <1>1, <2>2 DEF MembersOK, RowsHold
  <2> QED BY <2>1, <2>2
<1>4. \A p \in PR : prs'[p] # Nil => users'[prs'[p].author] # Nil
  <2>1. /\ prs \in [PR -> PrRow \cup {Nil}] /\ t.wPrs \in [PR -> PrRow \cup {Nil}]
    BY DatabaseFields DEF MembersInv, LedgerInv, Inv, TypeInv, Transaction
  <2>2. \A p \in PR : prs'[p] # Nil => prs'[p].author \in User
    BY <1>1, <2>1 DEF PrRow
  <2>3. \A p \in PR : prs'[p] # Nil => users[prs'[p].author] # Nil
    BY <1>1 DEF MembersOK, RowsHold
  <2> QED BY <1>2, <2>2, <2>3
<1>5. \A p \in PR : \A u \in ReviewersOf(reviewers', p) : users'[u] # Nil
  BY <1>1, <1>2 DEF MembersOK, RowsHold, ReviewersOf
<1> QED
  BY <1>3, <1>4, <1>5 DEF RowsHold

\* COMMIT, whether it is answered or not, keeps PeopleInv.
LEMMA CommitMembers ==
  ASSUME MembersInv, NEW c \in Client, Commit(c) \/ CommitLost(c)
  PROVE  PeopleInv'
<1> /\ tx[c] \in Transaction /\ Careful(tx[c], prs)
    /\ MembersOK(tx[c], users, teams)
  BY MemberFacts
<1> DEFINE next == [Idle EXCEPT !.pc = "selectTeamIDQuery",
                                !.req = tx[c].req]
<1>1. tx[c].pc = "commit" /\ Publish(c)
  BY DEF Commit, CommitLost
<1>2. RowsHold'
  BY <1>1, CommitRows
<1>3. \A u \in User : users[u] # Nil => users'[u] # Nil
  BY <1>1, PublishTables DEF TablesStep, MembersInv, LedgerInv, Inv
<1>4. ASSUME NEW x \in User \cup Team, LockedByOther(c, x)
      PROVE  x \notin tx[c].locks
  BY <1>4 DEF LockedByOther, MembersInv, LedgerInv, Inv, LockInv, Exclusive
<1>5. \A u \in User : users[u] # Nil /\ LockedByOther(c, u)
                        => users'[u].team = users[u].team
  BY <1>1, <1>4, PublishLocked DEF MembersInv, LedgerInv
<1>6. \A x \in Team : LockedByOther(c, x) /\ x \notin teams => x \notin teams'
  <2>1. tx[c].wTeams \subseteq tx[c].locks
    BY DEF MembersOK
  <2> QED BY <1>1, <1>4, <2>1 DEF Publish
<1>7. MembersOK(Idle, users', teams')
  <2>1. /\ Idle.pc = "idle" /\ Idle.wTeams = {} /\ Idle.wAdd = {}
        /\ Idle.deactivated = {}
    BY DEF Idle
  <2> QED BY <2>1, IdleMembers DEF Label
<1>8. MembersOK(next, users', teams')
  <2>1. /\ next.pc = "selectTeamIDQuery" /\ next.wTeams = {} /\ next.wAdd = {}
        /\ next.wUsers = Idle.wUsers /\ next.wPrs = Idle.wPrs
        /\ next.deactivated = {}
    BY DEF Idle
  <2> HIDE DEF next
  <2> QED BY <2>1, IdleMembers DEF Label
<1>9. tx' = [tx EXCEPT ![c] = Idle] \/ tx' = [tx EXCEPT ![c] = next]
  BY DEF Commit, CommitLost, Finish
<1> HIDE DEF next
<1> QED
  BY <1>2, <1>3, <1>5, <1>6, <1>7, <1>8, <1>9, EndMembers

\* The database the service starts on respects its foreign keys.
LEMMA PeopleInvInit == Init => PeopleInv
<1> SUFFICES ASSUME Init PROVE PeopleInv
  OBVIOUS
<1>1. PICK d \in Seeds :
        /\ teams = d.teams /\ users = d.users
        /\ prs = d.prs /\ reviewers = d.reviewers
        /\ tx = [c \in Client |-> Idle]
  BY DEF Init
<1>2. RowsHold
  BY <1>1, SeedAssumption DEF ForeignKeysHold, RowsHold, ReviewersOf
<1>3. MembersOK(Idle, users, teams)
  <2>1. /\ Idle.pc = "idle" /\ Idle.wTeams = {} /\ Idle.wAdd = {}
        /\ Idle.deactivated = {}
    BY DEF Idle
  <2> QED BY <2>1, IdleMembers DEF Label
<1> QED
  BY <1>1, <1>2, <1>3 DEF PeopleInv

\* Every step of the service keeps PeopleInv.
LEMMA PeopleInvNext == MembersInv /\ [Next]_vars => PeopleInv'
<1> SUFFICES ASSUME MembersInv, [Next]_vars PROVE PeopleInv'
  OBVIOUS
<1>1. CASE UNCHANGED vars
  BY <1>1 DEF vars, MembersInv, PeopleInv, RowsHold
<1>2. ASSUME NEW c \in Client, Statement(c) PROVE PeopleInv'
  BY <1>2, SelectAuthorMembers, InsertPRMembers, SelectCandidatesMembers,
     SelectPRForMergeMembers, SelectPRForReassignMembers,
     SelectReviewerTeamMembers, SelectReplacementMembers,
     StartSetUserActiveMembers, UpdateUserActiveMembers, InsertTeamMembers,
     UpsertUserMembers, GetTeamMembers, SelectTeamForDeactivateMembers,
     DeactivateUserMembers, SelectImpactedPRsMembers, LockImpactedMembers,
     BeginPRMembers, ReplaceReviewerMembers, CommitMembers
     DEF Statement
<1>3. ASSUME NEW c \in Client, Receive(c) \/ CommitLost(c) PROVE PeopleInv'
  BY <1>3, RequestAssumption, BeginMembers, CommitMembers DEF Receive
<1>4. ASSUME NEW c \in Client, Expire(c) \/ DeadlockAbort(c) PROVE PeopleInv'
  BY <1>4, FailMembers DEF Expire, DeadlockAbort
<1> QED
  BY <1>1, <1>2, <1>3, <1>4 DEF Next, Quiesce

\* In every reachable state the foreign keys of the people of a PR hold, and
\* what a transaction is about to write respects them: a team that is being
\* created is nobody's yet, and whom DeactivateTeam has deactivated stays in
\* the team until it commits.
THEOREM MembersHold == Spec => []MembersInv
<1>1. Init => MembersInv
  BY TypeInvInit, LockInvInit, DraftInvInit, PeopleInvInit
     DEF MembersInv, LedgerInv, Inv
<1>2. MembersInv /\ [Next]_vars => MembersInv'
  BY TypeInvNext, LockInvNext, DraftInvNext, PeopleInvNext
     DEF MembersInv, LedgerInv, Inv
<1> QED
  BY <1>1, <1>2, PTL DEF Spec

-------------------------------------------------------------------------------
(* Refinement of TeamLedger.                                               *)

\* A team of somebody is a team that has a row; nobody has Nil.
LEMMA TeamOfUser ==
  ASSUME TypeOK, NEW u \in User
  PROVE  /\ users[u] # Nil => TeamOf(users)[u] = users[u].team
         /\ users[u] # Nil <=> TeamOf(users)[u] # Nil
         /\ users[u] # Nil => users[u].team \in Team
<1>1. users[u] \in UserRow \cup {Nil}
  BY DatabaseFields
<1>2. TeamOf(users)[u] = IF users[u] = Nil THEN Nil ELSE users[u].team
  BY DEF TeamOf
<1>3. users[u] # Nil => users[u].team \in Team
  BY <1>1 DEF UserRow
<1> QED
  BY <1>2, <1>3, NilAssumption DEF Row

\* CreateTeam's COMMIT changes teams and no PR, any other COMMIT no team.
LEMMA CommitOfTeams ==
  ASSUME MembersInv, NEW c \in Client, tx[c].pc = "commit", Publish(c)
  PROVE  \/ TeamOf(users') = TeamOf(users)
         \/ /\ tx[c].req.team \in Team
            /\ Records' = Records
            /\ \A u \in User : TeamOf(users)[u] # tx[c].req.team
            /\ \E M \in SUBSET User :
                 TeamOf(users') = [u \in User |-> IF u \in M THEN tx[c].req.team
                                                  ELSE TeamOf(users)[u]]
<1> /\ tx[c] \in Transaction /\ Shape(tx[c], users, prs)
    /\ Drafted(tx[c], Records)
    /\ MembersOK(tx[c], users, teams) /\ RowsHold
  BY MemberFacts
<1> DEFINE t == tx[c]
<1>1. \A u \in User : users'[u] = IF t.wUsers[u] # Nil THEN t.wUsers[u]
                                                    ELSE users[u]
  BY DEF Publish, UsersSeenBy
<1>2. /\ \A u \in User : TeamOf(users')[u] =
             IF users'[u] = Nil THEN Nil ELSE users'[u].team
      /\ \A u \in User : TeamOf(users)[u] =
             IF users[u] = Nil THEN Nil ELSE users[u].team
      /\ TeamOf(users) = [u \in User |-> TeamOf(users)[u]]
      /\ TeamOf(users') = [u \in User |-> TeamOf(users')[u]]
  BY DEF TeamOf
<1>3. CASE ~NewTeam(t)
  <2>1. \A u \in User : TeamOf(users')[u] = TeamOf(users)[u]
    BY <1>1, <1>2, <1>3 DEF MembersOK
  <2> QED BY <1>2, <2>1
<1>4. CASE NewTeam(t)
  <2>1. t.req.op = "CreateTeam"
    BY <1>4 DEF NewTeam
  <2>2. t.req.team \in Team /\ t.req.team # Nil
    BY <2>1, RequestFields, NilAssumption DEF Shape, Row
  <2>3. \A u \in User : TeamOf(users)[u] # t.req.team
    BY <1>2, <1>4, <2>2 DEF MembersOK, RowsHold
  <2>4. \A q \in PR : ~Touches(t, q)
    BY <2>1 DEF Drafted
  <2>5. Records' = Records
    <3>1. \A q \in PR : Records'[q] = Records[q]
      BY <2>4, PublishRecords DEF MembersInv, LedgerInv, DraftInv
    <3>2. /\ Records = [q \in PR |-> Records[q]]
          /\ Records' = [q \in PR |-> Records'[q]]
      BY DEF Records, LedgerOf
    <3> QED BY <3>1, <3>2
  <2> DEFINE M == {u \in User : t.wUsers[u] # Nil}
  <2>6. \A u \in User : TeamOf(users')[u] = IF u \in M THEN t.req.team
                                            ELSE TeamOf(users)[u]
    BY <1>1, <1>2, <1>4 DEF MembersOK
  <2>7. TeamOf(users') = [u \in User |-> IF u \in M THEN t.req.team
                                         ELSE TeamOf(users)[u]]
    <3> HIDE DEF M
    <3> QED BY <1>2, <2>6
  <2> QED BY <2>2, <2>3, <2>5, <2>7
<1> QED
  BY <1>3, <1>4

\* The people of a record that is there after a step are users.
LEMMA PeopleKnown ==
  ASSUME MembersInv', NEW p \in PR, Records'[p] # Nil,
         TeamOf(users') = TeamOf(users)
  PROVE  \A u \in {Records'[p].author} \cup Records'[p].reviewers :
           TeamOf(users)[u] # Nil
<1>1. /\ prs' \in [PR -> PrRow \cup {Nil}] /\ history' \in [PR -> Seq(Event)]
      /\ users' \in [User -> UserRow \cup {Nil}]
  BY DEF MembersInv, LedgerInv, Inv, TypeInv, TypeOK, Database
<1>2. RowsHold'
  BY DEF MembersInv, PeopleInv
<1> DEFINE ps == prs'
           rv == reviewers'
           hs == history'
<1>3. ps[p] \in PrRow \cup {Nil} /\ hs[p] \in Seq(Event)
  BY <1>1
<1>4. Records' = LedgerOf(ps, rv, hs)
  BY DEF Records
<1> HIDE DEF ps, rv, hs
<1>5. ps[p] # Nil
  BY <1>3, <1>4, RecordExists
<1>6. /\ Records'[p].author = ps[p].author
      /\ Records'[p].reviewers = ReviewersOf(rv, p)
  BY <1>4, <1>5, RecordFields
<1>7. ps[p].author \in User /\ ReviewersOf(rv, p) \subseteq User
  BY <1>3, <1>5 DEF PrRow, ReviewersOf
<1>8. \A u \in {ps[p].author} \cup ReviewersOf(rv, p) : users'[u] # Nil
  BY <1>2, <1>5 DEF RowsHold, ps, rv
<1>9. \A u \in User : users'[u] # Nil => TeamOf(users')[u] # Nil
  BY <1>1, NilAssumption DEF TeamOf, UserRow, Row
<1> QED
  BY <1>6, <1>7, <1>8, <1>9

\* Whoever S relieves of a review of r has had one.
LEMMA HandedOverHit ==
  ASSUME NEW r, NEW S, NEW s \in HandedOverBy(r, S)
  PROVE  r.reviewers \cap S # {}
BY DEF HandedOverBy, Ledger!Relieved

\* What DeactivateTeam's COMMIT does to the records is DeactivateTeam of the
\* ledger, unless it changes none.
LEMMA HandingOverIsStep ==
  ASSUME MembersInv, MembersInv', NEW c \in Client,
         TeamOf(users') = TeamOf(users), Records' # Records,
         \A q \in PR :
           \/ Records'[q] = Records[q]
           \/ /\ Records[q] # Nil /\ Records[q].status = "OPEN"
              /\ Records'[q] # Nil
              /\ Records'[q] \in HandedOverBy(Records[q], tx[c].deactivated)
              /\ Records'[q].reviewers \cap tx[c].deactivated = {}
  PROVE  \E t \in Team : Ledger!DeactivateTeam(t)
<1> tx[c] \in Transaction /\ MembersOK(tx[c], users, teams)
  BY MemberFacts
<1> DEFINE rec == Records
           new == Records'
           tm == TeamOf(users)
           t == tx[c].req.team
           S == tx[c].deactivated
           hit == {q \in PR : new[q] # rec[q]}
           l == [q \in hit |-> new[q]]
<1>1. /\ rec = [q \in PR |-> rec[q]] /\ new = [q \in PR |-> new[q]]
  BY DEF Records, LedgerOf
<1>2. /\ S \subseteq User
      /\ \A u \in S : users[u] # Nil /\ users[u].team = t
  BY DEF Transaction, MembersOK
<1>3. TypeOK
  BY DEF MembersInv, LedgerInv, Inv, TypeInv
<1>4. S \in SUBSET {u \in User : tm[u] = t}
  BY <1>2, <1>3, TeamOfUser
<1>5. hit # {}
  BY <1>1
<1>6. \A q \in hit : /\ rec[q] # Nil /\ rec[q].status = "OPEN"
                     /\ new[q] \in HandedOverBy(rec[q], S)
                     /\ new[q].reviewers \cap S = {}
                     /\ new[q] # Nil
  OBVIOUS
<1>7. \A q \in hit : rec[q].reviewers \cap S # {}
  BY <1>6, HandedOverHit
<1>8. t \in Team
  <2>1. PICK u \in S : TRUE
    BY <1>5, <1>7
  <2> QED BY <1>2, <1>3, <2>1, TeamOfUser
<1>9. \A q \in hit : \A u \in {new[q].author} \cup new[q].reviewers : tm[u] # Nil
  BY <1>6, PeopleKnown
<1>10. new = [q \in PR |-> IF q \in hit THEN l[q] ELSE rec[q]]
  BY <1>1
<1>11. Ledger!Impacted(S) =
         {q \in PR : (rec[q] # Nil /\ rec[q].status = "OPEN")
                      /\ rec[q].reviewers \cap S # {}}
  BY Zenon DEF Ledger!Impacted, Ledger!IsOpen, Records
<1>12. \A r : Ledger!Cleared(r, S) =
         {s \in HandedOverBy(r, S) :
            s.reviewers \cap S = {}
            /\ \A u \in {s.author} \cup s.reviewers : tm[u] # Nil}
  BY Zenon DEF Ledger!Cleared, Ledger!Known, HandedOverBy
<1>13. \A x : Ledger!DeactivateTeam(x) <=>
         \E A \in SUBSET {u \in User : tm[u] = x} :
           \E h \in SUBSET Ledger!Impacted(A) :
             /\ h # {}
             /\ \E f \in [h -> UNION {Ledger!Cleared(rec[p], A) : p \in h}] :
                  /\ \A p \in h : f[p] \in Ledger!Cleared(rec[p], A)
                  /\ new = [p \in PR |-> IF p \in h THEN f[p] ELSE rec[p]]
             /\ TeamOf(users') = tm
  BY Zenon DEF Ledger!DeactivateTeam, Records
<1>14. hit \in SUBSET Ledger!Impacted(S)
  BY <1>6, <1>7, <1>11
<1>15. \A q \in hit : l[q] \in Ledger!Cleared(rec[q], S)
  BY <1>6, <1>9, <1>12
<1>16. l \in [hit -> UNION {Ledger!Cleared(rec[p], S) : p \in hit}]
  BY <1>15
<1>17. Ledger!DeactivateTeam(t)
  <2> HIDE DEF rec, new, tm, t, S, hit, l
  <2>1. \E f \in [hit -> UNION {Ledger!Cleared(rec[p], S) : p \in hit}] :
          /\ \A p \in hit : f[p] \in Ledger!Cleared(rec[p], S)
          /\ new = [p \in PR |-> IF p \in hit THEN f[p] ELSE rec[p]]
    BY <1>10, <1>15, <1>16
  <2>2. TeamOf(users') = tm
    BY DEF tm
  <2> QED BY <1>4, <1>5, <1>13, <1>14, <2>1, <2>2, Zenon
<1> QED
  BY <1>8, <1>17

\* A record that appears or changes by itself: CreatePR, MergePR or
\* ReassignReviewer of the ledger.
LEMMA OneRecordIsStep ==
  ASSUME MembersInv', NEW p \in PR, TeamOf(users') = TeamOf(users),
         \A q \in PR : q # p => Records'[q] = Records[q],
         Records'[p] # Nil,
         \/ Records[p] = Nil /\ Records'[p] \in Ledger!NewRecord
         \/ /\ Records[p] # Nil /\ Records[p].status = "OPEN"
            /\ Records'[p] = [Records[p] EXCEPT !.status = "MERGED"]
         \/ /\ Records[p] # Nil /\ Records[p].status = "OPEN"
            /\ \E old \in Records[p].reviewers,
                  w \in Ledger!Newcomers(Records[p]) :
                 Records'[p] = Ledger!Replaced(Records[p], old, w)
  PROVE  Ledger!CreatePR(p) \/ Ledger!MergePR(p) \/ Ledger!ReassignReviewer(p)
<1> DEFINE rec == Records
           new == Records'
           tm == TeamOf(users)
<1>1. /\ rec = [q \in PR |-> rec[q]] /\ new = [q \in PR |-> new[q]]
  BY DEF Records, LedgerOf
<1>2. /\ TeamOf(users') = tm
      /\ \A u \in {new[p].author} \cup new[p].reviewers : tm[u] # Nil
  BY PeopleKnown
<1>3. /\ Ledger!CreatePR(p) <=>
            /\ rec[p] = Nil
            /\ \E a \in User, R \in SUBSET User :
                 LET r == [author |-> a, status |-> "OPEN", reviewers |-> R,
                           history |-> <<>>]
                 IN /\ Ledger!Sound(r)
                    /\ \A u \in {r.author} \cup r.reviewers : tm[u] # Nil
                    /\ new = [rec EXCEPT ![p] = r]
            /\ TeamOf(users') = tm
      /\ Ledger!MergePR(p) <=>
            /\ /\ rec[p] # Nil /\ rec[p].status = "OPEN"
               /\ new = [rec EXCEPT ![p].status = "MERGED"]
            /\ TeamOf(users') = tm
      /\ Ledger!ReassignReviewer(p) <=>
            /\ /\ rec[p] # Nil /\ rec[p].status = "OPEN"
               /\ \E old \in rec[p].reviewers, w \in Ledger!Newcomers(rec[p]) :
                    new = [rec EXCEPT ![p] = Ledger!Replaced(@, old, w)]
            /\ \A u \in {new[p].author} \cup new[p].reviewers : tm[u] # Nil
            /\ TeamOf(users') = tm
  BY Zenon DEF Ledger!CreatePR, Ledger!MergePR, Ledger!ReassignReviewer,
     Ledger!Merge, Ledger!Reassign, Ledger!IsOpen, Ledger!Known, Records
<1>4. new = [rec EXCEPT ![p] = new[p]]
  BY <1>1
<1>5. CASE rec[p] = Nil /\ new[p] \in Ledger!NewRecord
  <2> DEFINE R == new[p].reviewers
             a == new[p].author
             r == [author |-> a, status |-> "OPEN", reviewers |-> R,
                   history |-> <<>>]
  <2>1. /\ new[p] = r /\ Ledger!Sound(new[p])
        /\ a \in User /\ R \in SUBSET User
    BY <1>5 DEF Ledger!NewRecord, Ledger!Record
  <2>2. /\ Ledger!Sound(r) /\ new = [rec EXCEPT ![p] = r]
        /\ \A u \in {r.author} \cup r.reviewers : tm[u] # Nil
    BY <1>2, <1>4, <2>1
  <2>3. \E b \in User, Q \in SUBSET User :
          LET x == [author |-> b, status |-> "OPEN", reviewers |-> Q,
                    history |-> <<>>]
          IN /\ Ledger!Sound(x)
             /\ \A u \in {x.author} \cup x.reviewers : tm[u] # Nil
             /\ new = [rec EXCEPT ![p] = x]
    <3> HIDE DEF rec, new, tm, a, R
    <3> QED BY <2>1, <2>2, Zenon
  <2> HIDE DEF rec, new, tm
  <2> QED BY <1>2, <1>3, <1>5, <2>3
<1>6. CASE /\ rec[p] # Nil /\ rec[p].status = "OPEN"
           /\ new[p] = [rec[p] EXCEPT !.status = "MERGED"]
  <2> HIDE DEF rec, new, tm
  <2>1. new = [rec EXCEPT ![p].status = "MERGED"]
    BY <1>1, <1>4, <1>6
  <2> QED BY <1>2, <1>3, <1>6, <2>1
<1>7. ASSUME rec[p] # Nil, rec[p].status = "OPEN",
             NEW old \in rec[p].reviewers, NEW w \in Ledger!Newcomers(rec[p]),
             new[p] = Ledger!Replaced(rec[p], old, w)
      PROVE  Ledger!ReassignReviewer(p)
  <2> HIDE DEF rec, new, tm
  <2>1. new = [rec EXCEPT ![p] = Ledger!Replaced(@, old, w)]
    BY <1>1, <1>4, <1>7
  <2> QED BY <1>2, <1>3, <1>7, <2>1
<1> QED
  BY <1>5, <1>6, <1>7

\* COMMIT is a step of the ledger with its teams, or changes nothing of it.
LEMMA CommitIsTeamStep ==
  ASSUME MembersInv, MembersInv', NEW c \in Client, tx[c].pc = "commit",
         Publish(c)
  PROVE  \/ Records' = Records /\ TeamOf(users') = TeamOf(users)
         \/ \E p \in PR : \/ Ledger!CreatePR(p) \/ Ledger!MergePR(p)
                          \/ Ledger!ReassignReviewer(p)
         \/ \E t \in Team : Ledger!DeactivateTeam(t) \/ Ledger!CreateTeam(t)
<1>1. \A q \in PR : Records[q] # Nil => Records'[q] # Nil
  <2>1. \A q \in PR : prs[q] # Nil => prs'[q] # Nil
    BY PublishTables DEF TablesStep, MembersInv, LedgerInv, Inv
  <2>2. \A q \in PR : /\ Records[q] = IF prs[q] = Nil THEN Nil ELSE Records[q]
                      /\ prs[q] # Nil => Records[q] # Nil
    BY RecordsOfTables DEF MembersInv, LedgerInv, Inv, Records, LedgerOf
  <2>3. \A q \in PR : prs'[q] # Nil => Records'[q] # Nil
    <3>1. /\ prs' \in [PR -> PrRow \cup {Nil}]
          /\ history' \in [PR -> Seq(Event)]
      BY DEF MembersInv, LedgerInv, Inv, TypeInv, TypeOK, Database
    <3>2. \A q \in PR : prs'[q] \in PrRow \cup {Nil} /\ history'[q] \in Seq(Event)
      BY <3>1
    <3> QED BY <3>2, RecordExists DEF Records
  <2> QED BY <2>1, <2>2, <2>3
<1>2. CASE TeamOf(users') # TeamOf(users)
  <2> DEFINE t == tx[c].req.team
             tm == TeamOf(users)
  <2>1. /\ t \in Team /\ Records' = Records
        /\ \A u \in User : tm[u] # t
        /\ \E M \in SUBSET User :
             TeamOf(users') = [u \in User |-> IF u \in M THEN t ELSE tm[u]]
    BY <1>2, CommitOfTeams
  <2>2. \A x : Ledger!CreateTeam(x) <=>
          /\ \A u \in User : tm[u] # x
          /\ \E M \in SUBSET User :
               TeamOf(users') = [u \in User |-> IF u \in M THEN x ELSE tm[u]]
          /\ Records' = Records
    BY Zenon DEF Ledger!CreateTeam, Records
  <2> HIDE DEF t, tm
  <2>3. Ledger!CreateTeam(t)
    BY <2>1, <2>2
  <2> QED BY <2>1, <2>3
<1>3. CASE TeamOf(users') = TeamOf(users) /\ Records' # Records
  <2>1. ~ \A q \in PR : Records'[q] = Records[q]
    <3>1. /\ Records = [q \in PR |-> Records[q]]
          /\ Records' = [q \in PR |-> Records'[q]]
      BY DEF Records, LedgerOf
    <3> QED BY <1>3, <3>1
  <2>2. ASSUME NEW p \in PR, \A q \in PR : q # p => Records'[q] = Records[q],
               \/ Records[p] = Nil /\ Records'[p] \in Ledger!NewRecord
               \/ /\ Records[p] # Nil /\ Records[p].status = "OPEN"
                  /\ Records'[p] = [Records[p] EXCEPT !.status = "MERGED"]
               \/ /\ Records[p] # Nil /\ Records[p].status = "OPEN"
                  /\ \E old \in Records[p].reviewers,
                        w \in Ledger!Newcomers(Records[p]) :
                       Records'[p] = Ledger!Replaced(Records[p], old, w)
        PROVE  Ledger!CreatePR(p) \/ Ledger!MergePR(p) \/ Ledger!ReassignReviewer(p)
    <3>1. Records'[p] # Nil
      BY <1>1, <2>2, RecordAssumption DEF Ledger!NewRecord
    <3> QED BY <1>3, <2>2, <3>1, OneRecordIsStep
  <2>3. CASE \A q \in PR :
               \/ Records'[q] = Records[q]
               \/ /\ Records[q] # Nil /\ Records[q].status = "OPEN"
                  /\ Records'[q] \in HandedOverBy(Records[q], tx[c].deactivated)
                  /\ Records'[q].reviewers \cap tx[c].deactivated = {}
    <3>1. \A q \in PR :
            \/ Records'[q] = Records[q]
            \/ /\ Records[q] # Nil /\ Records[q].status = "OPEN"
               /\ Records'[q] # Nil
               /\ Records'[q] \in HandedOverBy(Records[q], tx[c].deactivated)
               /\ Records'[q].reviewers \cap tx[c].deactivated = {}
      BY <1>1, <2>3
    <3> QED BY <1>3, <3>1, HandingOverIsStep
  <2> QED BY <2>1, <2>2, <2>3, CommitRecords DEF MembersInv
<1> QED
  BY <1>2, <1>3

\* Every step of the service is a step of the ledger with its teams, or leaves
\* it alone.
LEMMA TeamStep ==
  ASSUME MembersInv, MembersInv', [Next]_vars
  PROVE  \/ Records' = Records /\ TeamOf(users') = TeamOf(users)
         \/ Ledger!TeamNext
<1>1. Ledger!TeamNext <=>
        /\ Records' # Records \/ TeamOf(users') # TeamOf(users)
        /\ \/ \E p \in PR : \/ Ledger!CreatePR(p) \/ Ledger!MergePR(p)
                            \/ Ledger!ReassignReviewer(p)
           \/ \E t \in Team : Ledger!DeactivateTeam(t) \/ Ledger!CreateTeam(t)
  BY Zenon DEF Ledger!TeamNext, Records
<1>2. CASE UNCHANGED tables
  BY <1>2 DEF tables, Records, TeamOf
<1>3. ASSUME NEW c \in Client, Publish(c), tx[c].pc = "commit"
      PROVE  \/ Records' = Records /\ TeamOf(users') = TeamOf(users)
             \/ Ledger!TeamNext
  BY <1>1, <1>3, CommitIsTeamStep
<1>4. ASSUME NEW c \in Client, UpdateUserActive(c)
      PROVE  Records' = Records /\ TeamOf(users') = TeamOf(users)
  <2>1. \A u \in User : /\ users[u] # Nil <=> users'[u] # Nil
                        /\ users'[u].team = users[u].team
    BY <1>4, UpdateKeepsTeams
  <2>2. TeamOf(users') = TeamOf(users)
    BY <2>1 DEF TeamOf
  <2>3. Records' = Records
    BY <1>4 DEF UpdateUserActive, Records
  <2> QED BY <2>2, <2>3
<1> QED
  BY <1>2, <1>3, <1>4, TablesChange DEF MembersInv, LedgerInv

\* The database the service starts on is one to start on.
LEMMA TeamLedgerInit == Init => Ledger!TeamInit
<1> SUFFICES ASSUME Init PROVE Ledger!TeamInit
  OBVIOUS
<1>1. MembersInv
  BY TypeInvInit, LockInvInit, DraftInvInit, PeopleInvInit
     DEF MembersInv, LedgerInv, Inv
<1>2. TypeOK /\ RowsHold
  BY <1>1 DEF MembersInv, LedgerInv, Inv, TypeInv, PeopleInv
<1>3. Ledger!Init
  BY LedgerInit
<1>4. TeamOf(users) \in [User -> Team \cup {Nil}]
  BY <1>2, TeamOfUser DEF TeamOf
<1>5. ASSUME NEW p \in PR, Records[p] # Nil,
             NEW u \in {Records[p].author} \cup Records[p].reviewers
      PROVE  TeamOf(users)[u] # Nil
  <2>1. /\ prs[p] # Nil /\ Records[p].author = prs[p].author
        /\ Records[p].reviewers = ReviewersOf(reviewers, p)
    BY <1>1, <1>5, RecordsOfTables DEF MembersInv, LedgerInv, Inv
  <2>2. prs[p] \in PrRow
    BY <1>2, <2>1, DatabaseFields
  <2>3. u \in User /\ users[u] # Nil
    BY <1>2, <1>5, <2>1, <2>2 DEF RowsHold, PrRow, ReviewersOf
  <2> QED BY <1>2, <2>3, TeamOfUser
<1> QED
  BY <1>3, <1>4, <1>5, Zenon DEF Ledger!TeamInit, Ledger!Known, Records

\* The committed tables of every instance of ReviewTx, read as one record per
\* PR and one team per user, change only by the steps of TeamLedger: these
\* are all the steps that can come between two queries of a report.
THEOREM TeamLedgerImplemented == Spec => ImplementsTeamLedger
<1>1. Init => Ledger!TeamInit
  BY TeamLedgerInit
<1>2. MembersInv /\ MembersInv' /\ [Next]_vars =>
        [Ledger!TeamNext]_<<LedgerOf(prs, reviewers, history), TeamOf(users)>>
  BY TeamStep DEF Records
<1> QED
  BY <1>1, <1>2, MembersHold, PTL
     DEF Spec, ImplementsTeamLedger, Ledger!TeamSpec

===============================================================================
