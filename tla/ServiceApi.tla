------------------------------ MODULE ServiceApi ------------------------------
(***************************************************************************)
(* What a client of the HTTP API sees: the handlers, the argument checks   *)
(* of the use cases, the transactions of ReviewTx underneath, the status   *)
(* of the answer, and clients that repeat a call that was answered 500.    *)
(*                                                                         *)
(* A body is a record with the field names of the API; Empty stands for    *)
(* the empty string, which is also what a field that is left out decodes   *)
(* to.  Team has names with blanks around them, Trim strips them.          *)
(***************************************************************************)
EXTENDS ReviewTx

CONSTANTS Empty, Malformed,
          Trim,       \* strings.TrimSpace on team names
          Calls,      \* the calls clients may make
          MaxTries    \* bound: how often a call is made in all

UserField == User \cup {Empty}
PrField   == PR \cup {Empty}
TeamField == Team \cup {Empty}

ASSUME TrimAssumption == Trim \in [TeamField -> TeamField] /\ Trim[Empty] = Empty

\* Bodies and parameters of the operations, by the name of the handler.
\* Nothing checks the ids of members: if clients leave one out, Empty is an
\* id of a user like any other.
Body ==
  [PostPullRequestCreate   |-> [pull_request_id : PrField, author_id : UserField,
                                pull_request_name : {"name", Empty}],
   PostPullRequestMerge    |-> [pull_request_id : PrField],
   PostPullRequestReassign |-> [pull_request_id : PrField,
                                old_user_id : UserField],
   PostUsersSetIsActive    |-> [user_id : UserField, is_active : BOOLEAN],
   PostTeamAdd        |-> [team_name : TeamField,
                           members : Seq([user_id : User,
                                          is_active : BOOLEAN])],
   PostTeamDeactivate |-> [team_name : TeamField],
   GetTeamGet         |-> [team_name : TeamField]]

ASSUME CallsAssumption ==
  \A call \in Calls : call.op \in DOMAIN Body
                      /\ call.body \in Body[call.op] \cup {Malformed}
ASSUME MaxTriesAssumption == MaxTries \in Nat \ {0}
ASSUME NoAnswerAssumption == Nil \notin Calls \cup Nat

VARIABLE http    \* every client's last call, its attempts and their answer

apiVars == <<vars, http>>

NoCall == [call |-> Nil, tries |-> 0, times |-> 0, status |-> Nil,
           shown |-> Nil, known |-> {}]

ApiInit == Init /\ http = [c \in Client |-> NoCall]

-------------------------------------------------------------------------------
(* The use cases: what is asked of the repository, Nil when an argument is *)
(* missing (ErrInvalidArgument).                                           *)

CreatePullRequest(id, name, author) ==
  IF Empty \in {id, name, author} THEN Nil
  ELSE [op |-> "CreatePR", pr |-> id, user |-> author]

\* Mutant of MergePullRequest: the argument is not checked.
MergePullRequest_Unchecked(id) == [op |-> "MergePR", pr |-> id]

MergePullRequest(id) ==
  IF id = Empty THEN Nil ELSE [op |-> "MergePR", pr |-> id]

ReassignPullRequest(id, old) ==
  IF Empty \in {id, old} THEN Nil
  ELSE [op |-> "ReassignReviewer", pr |-> id, user |-> old]

SetActiveUser(id, active) ==
  IF id = Empty THEN Nil
  ELSE [op |-> "SetUserActive", user |-> id, active |-> active]

CreateTeam(name, members) ==
  IF name = Empty THEN Nil
  ELSE [op |-> "CreateTeam", team |-> name, members |-> members]

DeactivateTeam(name) ==
  IF name = Empty THEN Nil ELSE [op |-> "DeactivateTeam", team |-> name]

-------------------------------------------------------------------------------
(* The handlers.                                                           *)

FromOAPITeam(members) ==
  [i \in DOMAIN members |-> [id |-> members[i].user_id,
                             active |-> members[i].is_active]]

PostPullRequestCreate(b) ==
  CreatePullRequest(b.pull_request_id, b.pull_request_name, b.author_id)

PostPullRequestMerge(b) == MergePullRequest(b.pull_request_id)

PostPullRequestReassign(b) ==
  ReassignPullRequest(b.pull_request_id, b.old_user_id)

PostUsersSetIsActive(b) == SetActiveUser(b.user_id, b.is_active)

PostTeamAdd(b) == CreateTeam(b.team_name, FromOAPITeam(b.members))

PostTeamDeactivate(b) == DeactivateTeam(Trim[b.team_name])

\* What a POST asks of the repository, Nil when it is answered 400 at once:
\* a body that cannot be parsed, or a missing argument.
Asked(call) ==
  IF call.body = Malformed THEN Nil ELSE
  CASE call.op = "PostPullRequestCreate"   -> PostPullRequestCreate(call.body)
    [] call.op = "PostPullRequestMerge"    -> PostPullRequestMerge(call.body)
    [] call.op = "PostPullRequestReassign" -> PostPullRequestReassign(call.body)
    [] call.op = "PostUsersSetIsActive"    -> PostUsersSetIsActive(call.body)
    [] call.op = "PostTeamAdd"             -> PostTeamAdd(call.body)
    [] call.op = "PostTeamDeactivate"      -> PostTeamDeactivate(call.body)

\* Mutant of WriteError: the default is the 404 of the code NOT_FOUND.
WriteError_Default404(err) ==
  CASE err \in {"ErrInvalidArgument", "ErrTeamExists"} -> 400
    [] err \in {"ErrPRExists", "ErrPRMerged", "ErrNotAssigned",
                "ErrNoCandidate"} -> 409
    [] OTHER -> 404

WriteError(err) ==
  CASE err \in {"ErrInvalidArgument", "ErrTeamExists"} -> 400
    [] err \in {"ErrUserNotFound", "ErrTeamNotFound", "ErrPRNotFound"} -> 404
    [] err \in {"ErrPRExists", "ErrPRMerged", "ErrNotAssigned",
                "ErrNoCandidate"} -> 409
    [] OTHER -> 500

Status_(op, answer) ==
  CASE answer # "ok" -> WriteError(answer)
    [] answer = "ok" /\ op \in {"CreatePR", "CreateTeam"}    -> 201
    [] answer = "ok" /\ op \notin {"CreatePR", "CreateTeam"} -> 200

MembersOf(t) == {u \in User : users[u] # Nil /\ users[u].team = t}

\* The ids in the answer: assigned_reviewers of a PR, members of a team.
\* pickRandom makes a nil slice of no candidates, which becomes null.
Shown(c) ==
  CASE tx[c].req.op = "CreatePR" -> IF tx[c].seen = {} THEN Nil ELSE tx[c].seen
    [] tx[c].req.op = "CreateTeam" -> MembersOf(tx[c].req.team)
    [] OTHER -> tx[c].seen

-------------------------------------------------------------------------------
(* Steps.                                                                  *)

\* An attempt is answered without a transaction.
Reply(c, call, status, shown) ==
  /\ tx[c].pc = "idle"
  /\ issued < MaxRequests
  /\ issued' = issued + 1
  /\ http' = [http EXCEPT ![c] =
       [NoCall EXCEPT !.call = call, !.tries = 1, !.status = status,
                      !.shown = shown]]
  /\ UNCHANGED <<tables, tx, resp>>

Post(c) ==
  \E call \in Calls :
    /\ call.op # "GetTeamGet"
    /\ \/ Asked(call) = Nil /\ Reply(c, call, 400, Nil)
       \/ /\ Asked(call) # Nil
          /\ Begin(c, Asked(call))
          /\ http' = [http EXCEPT ![c] =
               [NoCall EXCEPT !.call = call, !.tries = 1]]

\* A missing parameter is an error of the generated wrapper, which the
\* server answers 500 whatever status was set before.
GetTeamGet(c) ==
  \E call \in Calls :
    LET t == call.body.team_name IN
    /\ call.op = "GetTeamGet"
    /\ \/ t = Empty /\ Reply(c, call, 500, Nil)
       \/ t # Empty /\ t \notin teams
          /\ Reply(c, call, WriteError("ErrTeamNotFound"), Nil)
       \/ t \in teams /\ Reply(c, call, 200, MembersOf(t))

\* The client repeats a POST that was answered 500.
Retry(c) ==
  /\ http[c].status = 500
  /\ http[c].call.op # "GetTeamGet"
  /\ http[c].tries < MaxTries
  /\ Begin(c, Asked(http[c].call))
  /\ http' = [http EXCEPT ![c] =
       [http[c] EXCEPT !.status = Nil, !.tries = @ + 1]]

\* A step of c's transaction.  times counts the attempts that have changed a
\* table; known keeps the teams there were when a team was committed.
Repository(c) ==
  LET op   == tx[c].req.op
      next == [http[c] EXCEPT
                 !.times = IF tables' # tables THEN @ + 1 ELSE @,
                 !.known = IF teams' # teams THEN teams' ELSE @]
  IN
  /\ Statement(c) \/ CommitLost(c) \/ Expire(c) \/ DeadlockAbort(c)
  /\ http' = [http EXCEPT ![c] =
       IF tx'[c].pc # "idle" THEN next
       ELSE [next EXCEPT !.status = Status_(op, resp'[c]),
                         !.shown  = IF resp'[c] = "ok" THEN Shown(c) ELSE Nil]]

ApiNext ==
  \/ \E c \in Client : Post(c) \/ GetTeamGet(c) \/ Retry(c) \/ Repository(c)
  \/ Quiesce /\ UNCHANGED http

ApiSpec == ApiInit /\ [][ApiNext]_apiVars

-------------------------------------------------------------------------------
(* Invariants.  Says(c, op, S): the last answer to c was for op, in S.     *)

Says(c, op, S) ==
  /\ http[c].call # Nil /\ http[c].status # Nil
  /\ http[c].call.op = op
  /\ http[c].status \in S

\* Types; moreover only requests whose arguments are there ever reach the
\* repository, and a call is unanswered exactly while its request runs.
ApiTypeOK ==
  /\ TypeOK
  /\ \A c \in Client :
       /\ http[c].call \in Calls \cup {Nil}
       /\ http[c].tries \in 0..MaxTries /\ http[c].times \in 0..MaxTries
       /\ http[c].status \in {Nil, 200, 201, 400, 404, 409, 500}
       /\ http[c].shown \in (SUBSET User) \cup {Nil}
       /\ http[c].known \subseteq Team
       /\ http[c].call # Nil => (http[c].status = Nil <=> tx[c].pc # "idle")

\* A merge answered 200 has shown the reviewers the PR keeps for ever: no
\* call of anybody changes them afterwards (TODO.md: a repeated merge
\* returns the current state of the PR; nothing changes after MERGED).
MergeAnswerIsFinal ==
  \A c \in Client : Says(c, "PostPullRequestMerge", {200}) =>
    LET p == http[c].call.body.pull_request_id
    IN prs[p].status = "MERGED" /\ http[c].shown = ReviewersOf(reviewers, p)

\* A client that is refused at the first attempt has changed nothing: 4xx is
\* never the answer to a committed transaction.  PostUsersSetIsActive is
\* left out: its 404 may follow a change (see NotFoundMeansAbsent).
RefusalChangesNothing ==
  \A c \in Client, op \in (DOMAIN Body) \ {"PostUsersSetIsActive"} :
    Says(c, op, {400, 404, 409}) /\ http[c].tries = 1 => http[c].times = 0

\* However often a client repeats a call for which it got no clear answer, a
\* PR or a team is created, and a PR merged, at most once; 201 means once.
RetriesApplyOnce ==
  \A c \in Client, op \in {"PostPullRequestCreate", "PostTeamAdd",
                           "PostPullRequestMerge"} :
    http[c].call # Nil /\ http[c].call.op = op =>
      http[c].times <= 1 /\ (http[c].status = 201 => http[c].times = 1)

\* The members in a 201 of PostTeamAdd are members that were sent, and one
\* that is missing has been taken over, since the commit, by a newer team.
TeamAnswerExplained ==
  \A c \in Client : Says(c, "PostTeamAdd", {201}) =>
    LET sent == {http[c].call.body.members[i].user_id :
                   i \in DOMAIN http[c].call.body.members}
    IN /\ http[c].shown \subseteq sent
       /\ \A u \in sent \ http[c].shown : users[u].team \notin http[c].known

-------------------------------------------------------------------------------
(* What the documents say and the code does not keep.                      *)

\* assigned_reviewers of a created PR is an array (openapi.yml: required, of
\* type array, 0..2 ids).
ReviewersIsArray ==
  \A c \in Client :
    Says(c, "PostPullRequestCreate", {201}) => http[c].shown # Nil

===============================================================================
