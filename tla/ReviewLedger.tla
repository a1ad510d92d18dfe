----------------------------- MODULE ReviewLedger -----------------------------
(***************************************************************************)
(* What the writing half of the service promises about pull requests,      *)
(* without teams, transactions or locks: every request that succeeds is    *)
(* one step.  A PR is created with up to two reviewers, its reviewers are  *)
(* replaced or removed one by one, each time with an entry in its history, *)
(* and when it is merged its record is closed.                             *)
(***************************************************************************)
EXTENDS Naturals, Sequences, FiniteSets

CONSTANTS User, PR, Nil

VARIABLE ledger     \* [PR -> Record, or Nil when there is no such PR]

Record == [author : User, status : {"OPEN", "MERGED"},
           reviewers : SUBSET User,
           history : Seq([old : User, new : User \cup {Nil}])]

\* At most two reviewers, the author not among them.
Sound(r) == r.author \notin r.reviewers /\ Cardinality(r.reviewers) <= 2

NewRecord == {r \in Record : r.status = "OPEN" /\ r.history = <<>> /\ Sound(r)}

Init ==
  /\ ledger \in [PR -> Record \cup {Nil}]
  /\ \A p \in PR : ledger[p] # Nil => Sound(ledger[p])

\* r with reviewer old replaced by new; by nobody when new is Nil.
Replaced(r, old, new) ==
  [r EXCEPT !.reviewers = (@ \ {old}) \cup ({new} \ {Nil}),
            !.history = Append(@, [old |-> old, new |-> new])]

\* Who may take over from a reviewer of r: neither its author nor anybody
\* who reviews it already.
Newcomers(r) == User \ (r.reviewers \cup {r.author})

\* r after one reviewer has been replaced or removed.
Changed(r) ==
  {Replaced(r, old, new) : old \in r.reviewers, new \in Newcomers(r) \cup {Nil}}

\* r after one of its reviewers, or both, have been replaced or removed.
HandedOver(r) == Changed(r) \cup UNION {Changed(s) : s \in Changed(r)}

IsOpen(p) == ledger[p] # Nil /\ ledger[p].status = "OPEN"

-------------------------------------------------------------------------------
Create(p) ==
  /\ ledger[p] = Nil
  /\ ledger'[p] \in NewRecord
  /\ ledger' = [ledger EXCEPT ![p] = ledger'[p]]

Merge(p) ==
  /\ IsOpen(p)
  /\ ledger' = [ledger EXCEPT ![p].status = "MERGED"]

Reassign(p) ==
  /\ IsOpen(p)
  /\ \E old \in ledger[p].reviewers, new \in Newcomers(ledger[p]) :
       ledger' = [ledger EXCEPT ![p] = Replaced(@, old, new)]

\* The reviewers of any number of open PRs change at once.
HandOver ==
  LET S == {p \in PR : ledger'[p] # ledger[p]} IN
  /\ S # {}
  /\ \A p \in S : IsOpen(p) /\ ledger'[p] \in HandedOver(ledger[p])
  /\ ledger' = [p \in PR |-> ledger'[p]]

Next == HandOver \/ \E p \in PR : Create(p) \/ Merge(p) \/ Reassign(p)

Spec == Init /\ [][Next]_ledger

===============================================================================
