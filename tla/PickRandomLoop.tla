---------------------------- MODULE PickRandomLoop ----------------------------
(***************************************************************************)
(* pickRandom of internal/repository/postgres/pull_request.go pick by      *)
(* pick, on slices, against the operator PickRandom with which ReviewTx    *)
(* draws reviewers.                                                        *)
(*                                                                         *)
(* Cutting out with append(pool[:idx], pool[idx+1:]...) moves the tail     *)
(* one place down in the same array and leaves the old last element where  *)
(* it was; pool[:n] may reach that far.                                    *)
(***************************************************************************)
EXTENDS ReviewTx, SequencesExt

\* The array after its element i has been cut out of the first k.
CutOut(array, i, k) ==
  [j \in DOMAIN array |-> IF i <= j /\ j < k THEN array[j + 1] ELSE array[j]]

\* Mutant of Picked: the element stays in the pool.
Picked_Keeps(src) ==
  LET after[k \in 0..Len(src)] ==
        IF k = 0 THEN {[array |-> src, res |-> <<>>]}
        ELSE {[s EXCEPT !.res = Append(@, s.array[i])] :
                s \in after[k - 1], i \in 1..(Len(src) - k + 1)}
  IN after

\* The array behind pool, and res, as they can be after k picks.
Picked(src) ==
  LET after[k \in 0..Len(src)] ==
        IF k = 0 THEN {[array |-> src, res |-> <<>>]}
        ELSE LET len == Len(src) - (k - 1)
             IN {[array |-> CutOut(s.array, i, len),
                  res   |-> Append(s.res, s.array[i])] :
                   s \in after[k - 1], i \in 1..len}
  IN after

\* The slices pickRandom(src, n) can return: all of src, n picks, or the
\* head of the pool when crypto/rand fails after fewer.
PickRandomSlices(src, n) ==
  IF n >= Len(src) THEN {src}
  ELSE {s.res : s \in Picked(src)[n]}
       \cup {SubSeq(s.array, 1, n) : s \in UNION {Picked(src)[k] : k \in 0..n-1}}

-------------------------------------------------------------------------------
\* The draws c may be about to make: candidates and how many of them.
Draws(c) ==
  LET from(pool, n) == [pool |-> pool, n |-> n]
      p == tx[c].at
      q == tx[c].req.pr
  IN CASE tx[c].pc = "selectCandidatesQuery" ->
            {from(TeamCandidates(users, tx[c].team, tx[c].req.user), 2)}
       [] tx[c].pc = "selectReplacementCandidatesQuery" ->
            {from(TeamCandidates(users, tx[c].team, prs[q].author)
                    \ tx[c].seen, 1)}
       [] tx[c].pc = "activeReplacementQuery" ->
            {from(OtherTeamCandidates(UsersSeenBy(c), tx[c].team,
                                      PrsSeenBy(c)[p].author)
                    \ (tx[c].seen \ {r}), 1) : r \in tx[c].todo}
       [] OTHER -> {}

\* In whatever order the query returns the candidates of a draw, and at
\* whichever pick crypto/rand fails, pickRandom returns distinct candidates,
\* and the sets it can return are those of PickRandom: the transactions draw
\* neither more nor fewer than the code.
PickRandomIsTheLoop ==
  \A c \in Client : \A d \in Draws(c) :
    LET slices == UNION {PickRandomSlices(src, d.n) : src \in SetToSeqs(d.pool)}
    IN /\ \A s \in slices : IsInjective(s)
       /\ {Range(s) : s \in slices} = PickRandom(d.pool, d.n)

===============================================================================
