---------------------------- MODULE ServiceProcess ----------------------------
(***************************************************************************)
(* The life of the process: cmd/main.go starts the repository (open the    *)
(* pool, ping, migrate), serves, waits for a signal, shuts the server down *)
(* with a deadline, closes the pool and returns; meanwhile handlers lease  *)
(* connections of the pool, which has MaxConns of them.                    *)
(*                                                                         *)
(* What a request does with the database is told by Uses: a transaction    *)
(* keeps one connection from BEGIN to COMMIT, also while it waits for a    *)
(* row lock; every other query leases one until its rows are read.  All    *)
(* transactions want the same row here.                                    *)
(***************************************************************************)
EXTENDS Naturals, Sequences, FiniteSets

CONSTANTS Handler,   \* requests that may arrive, one handler each
          Kinds,     \* which operations they are
          MaxConns   \* size of the pool

\* Transactions and queries of an operation of the repository, in order.
Uses ==
  [CreatePR |-> <<"tx">>, MergePR |-> <<"tx">>, ReassignReviewer |-> <<"tx">>,
   DeactivateTeam |-> <<"tx">>, SetUserActive |-> <<"tx">>,
   CreateTeam |-> <<"tx", "query", "query">>, GetTeam |-> <<"query", "query">>,
   GetUserReviews |-> <<"query">>,
   Stats         |-> <<"query", "query", "query", "query">>,
   StatsSummary  |-> <<"query", "query", "query">>,
   ReviewerStats |-> <<"query", "query", "query", "query">>,
   PRStats       |-> <<"query", "query", "query">>]

ASSUME KindsAssumption == Kinds \subseteq DOMAIN Uses
ASSUME MaxConnsAssumption == MaxConns \in Nat \ {0}

VARIABLES timeouts,  \* configured: http.request_timeout > 0
          main,      \* where main() is
          signalled, \* SIGINT or SIGTERM has arrived
          schema,    \* the migrations have been applied
          pool,      \* Postgres.db: nil, in use, or closed
          listener,  \* the goroutine of serv.Listen
          shutdown,  \* the goroutine of serv.Shutdown
          timely,    \* it was done before shutdownCtx
          req        \* the handlers' requests

process == <<main, signalled, schema, pool, listener, shutdown, timely>>
vars == <<timeouts, process, req>>

New == [pc |-> "new", todo |-> <<>>, conn |-> FALSE, lock |-> FALSE]

Init ==
  /\ timeouts \in BOOLEAN
  /\ main = "opening"
  /\ signalled = FALSE
  /\ schema = FALSE
  /\ pool = "nil"
  /\ listener = "none"
  /\ shutdown = "none"
  /\ timely = TRUE
  /\ req = [h \in Handler |-> New]

InFlight(h) == req[h].pc = "accepted"
Leased == {h \in Handler : req[h].conn}
LockFree == \A h \in Handler : ~req[h].lock

-------------------------------------------------------------------------------
(* Start: main up to <-ctx.Done(), OnStart.                                *)

Signal ==
  /\ main # "exited" /\ ~signalled
  /\ signalled' = TRUE
  /\ UNCHANGED <<main, schema, pool, listener, shutdown, timely, req>>

\* NewWithConfig and Ping, within QueryTimeout.
OpenPool ==
  /\ main = "opening"
  /\ main' = "migrating"
  /\ UNCHANGED <<signalled, schema, pool, listener, shutdown, timely, req>>

\* goose.UpContext, within MigrateTimeout.
Migrate ==
  /\ main = "migrating"
  /\ main' = "versioning"
  /\ schema' = TRUE
  /\ UNCHANGED <<signalled, pool, listener, shutdown, timely, req>>

\* goose.EnsureDBVersion, without a context; then p.db = pool.
EnsureVersion ==
  /\ main = "versioning"
  /\ main' = "wiring"
  /\ pool' = "open"
  /\ UNCHANGED <<signalled, schema, listener, shutdown, timely, req>>

\* Mutant of StartFails: main logs the error and goes on.
StartFails_Ignored ==
  /\ main \in {"opening", "migrating", "versioning"}
  /\ main' = "wiring"
  /\ UNCHANGED <<signalled, schema, pool, listener, shutdown, timely, req>>

\* A step of OnStart fails, or a signal cancels its context: main returns,
\* OnStop is not yet deferred.
StartFails ==
  /\ main \in {"opening", "migrating", "versioning"}
  /\ main' = "exited"
  /\ UNCHANGED <<signalled, schema, pool, listener, shutdown, timely, req>>

\* go serv.Listen
Serve ==
  /\ main = "wiring"
  /\ main' = "waiting"
  /\ listener' = "starting"
  /\ UNCHANGED <<signalled, schema, pool, shutdown, timely, req>>

\* The goroutine gets the port, or logs that it could not; main goes on
\* waiting either way.
Listen ==
  /\ listener = "starting"
  /\ main # "exited"
  /\ listener' \in {"up", "failed"}
  /\ UNCHANGED <<main, signalled, schema, pool, shutdown, timely, req>>

-------------------------------------------------------------------------------
(* Stop: main from <-ctx.Done() to its return.                             *)

\* Mutant of Stop: main does not wait for the shutdown.
Stop_AtOnce ==
  /\ main = "waiting" /\ signalled
  /\ main' = "closing"
  /\ shutdown' = "called"
  /\ UNCHANGED <<signalled, schema, pool, listener, timely, req>>

Stop ==
  /\ main = "waiting" /\ signalled
  /\ main' = "stopping"
  /\ shutdown' = "called"
  /\ UNCHANGED <<signalled, schema, pool, listener, timely, req>>

\* Shutdown closes the listener and waits for the open connections.  A
\* server that does not listen (yet) has nothing to shut down.
ShutdownStarts ==
  /\ shutdown = "called"
  /\ main # "exited"
  /\ \/ /\ listener = "up"
        /\ listener' = "down"
        /\ shutdown' = "draining"
     \/ /\ listener \in {"starting", "failed"}
        /\ shutdown' = "done"
        /\ UNCHANGED listener
  /\ UNCHANGED <<main, signalled, schema, pool, timely, req>>

Drained ==
  /\ shutdown = "draining"
  /\ \A h \in Handler : ~InFlight(h)
  /\ shutdown' = "done"
  /\ UNCHANGED <<main, signalled, schema, pool, listener, timely, req>>

\* select: done, or the deadline of shutdownCtx.
StopWaiting ==
  /\ main = "stopping"
  /\ \/ shutdown = "done" /\ UNCHANGED timely
     \/ timely' = FALSE
  /\ main' = "closing"
  /\ UNCHANGED <<signalled, schema, pool, listener, shutdown, req>>

\* Mutant of OnStop: Close is not called.
OnStop_NotClosed ==
  /\ main = "closing"
  /\ main' = "exited"
  /\ UNCHANGED <<signalled, schema, pool, listener, shutdown, timely, req>>

\* pool.Close refuses new leases, waits for those there are, and main ends.
OnStop ==
  /\ main = "closing"
  /\ \/ pool = "open" /\ pool' = "closed" /\ UNCHANGED main
     \/ pool = "closed" /\ Leased = {} /\ main' = "exited" /\ UNCHANGED pool
  /\ UNCHANGED <<signalled, schema, listener, shutdown, timely, req>>

-------------------------------------------------------------------------------
(* The handlers.                                                           *)

Goes(h, next) ==
  /\ main # "exited"
  /\ req' = [req EXCEPT ![h] = next]
  /\ UNCHANGED process

Ends(h, pc) == Goes(h, [New EXCEPT !.pc = pc])

Accept(h) ==
  /\ req[h].pc = "new"
  /\ listener = "up"
  /\ \E k \in Kinds :
       Goes(h, [req[h] EXCEPT !.pc = "accepted", !.todo = Uses[k]])

\* Mutant of Acquire: poolCfg.MaxConns is not set.
Acquire_NoLimit(h) ==
  /\ InFlight(h) /\ req[h].todo # <<>> /\ ~req[h].conn
  /\ \/ pool = "open" /\ Goes(h, [req[h] EXCEPT !.conn = TRUE])
     \/ pool = "closed" /\ Ends(h, "failed")

\* BeginTx, Query and QueryRow wait for a connection; a closed pool has none.
Acquire(h) ==
  /\ InFlight(h) /\ req[h].todo # <<>> /\ ~req[h].conn
  /\ \/ /\ pool = "open"
        /\ Cardinality(Leased) < MaxConns
        /\ Goes(h, [req[h] EXCEPT !.conn = TRUE])
     \/ pool = "closed" /\ Ends(h, "failed")

\* Mutant of QueryDone: the rows stay open until the method returns.
QueryDone_RowsOpen(h) ==
  /\ InFlight(h) /\ req[h].conn /\ Head(req[h].todo) = "query"
  /\ IF Tail(req[h].todo) = <<>>
     THEN Goes(h, [req[h] EXCEPT !.conn = FALSE, !.todo = <<>>])
     ELSE /\ Cardinality(Leased) < MaxConns
          /\ Goes(h, [req[h] EXCEPT !.todo = Tail(@)])

\* The last row has been read: rows.Next closes them.
QueryDone(h) ==
  /\ InFlight(h) /\ req[h].conn /\ Head(req[h].todo) = "query"
  /\ Goes(h, [req[h] EXCEPT !.conn = FALSE, !.todo = Tail(@)])

LockRow(h) ==
  /\ InFlight(h) /\ req[h].conn /\ Head(req[h].todo) = "tx" /\ ~req[h].lock
  /\ LockFree
  /\ Goes(h, [req[h] EXCEPT !.lock = TRUE])

\* tx.Commit or the deferred tx.Rollback.
TxDone(h) ==
  /\ req[h].lock
  /\ Goes(h, [req[h] EXCEPT !.conn = FALSE, !.lock = FALSE, !.todo = Tail(@)])

Answer(h) == InFlight(h) /\ req[h].todo = <<>> /\ Ends(h, "answered")

\* Mutant of Expire: the connection is not given back.
Expire_Leak(h) ==
  /\ InFlight(h) /\ timeouts
  /\ Goes(h, [New EXCEPT !.pc = "failed", !.conn = req[h].conn])

\* The deadline of the use case passes.
Expire(h) == InFlight(h) /\ timeouts /\ Ends(h, "failed")

\* The database refuses a statement, or the server is shutting down, which
\* ends the context every request has from it.
Refuse(h) == InFlight(h) /\ req[h].conn /\ Ends(h, "failed")
Cancel(h) == InFlight(h) /\ shutdown = "draining" /\ Ends(h, "failed")

-------------------------------------------------------------------------------
MainStep ==
  \/ OpenPool \/ Migrate \/ EnsureVersion \/ StartFails \/ Serve
  \/ Stop \/ StopWaiting \/ OnStop

HandlerStep(h) ==
  \/ Acquire(h) \/ QueryDone(h) \/ LockRow(h) \/ TxDone(h) \/ Answer(h)

Next ==
  /\ \/ Signal \/ MainStep \/ Listen \/ ShutdownStarts \/ Drained
     \/ \E h \in Handler : \/ Accept(h) \/ HandlerStep(h)
                           \/ Expire(h) \/ Refuse(h) \/ Cancel(h)
  /\ UNCHANGED timeouts

\* main() and the runtime go on.  What OnStart asks of the database has a
\* deadline, except EnsureDBVersion.  With a request timeout, nothing is
\* assumed of the database; without one, that it answers statements.
\* Waiters for a connection or a row lock are served in order of arrival,
\* for which weak fairness stands: there are finitely many requests.
Fairness ==
  /\ WF_vars(MainStep /\ main # "versioning" /\ UNCHANGED timeouts)
  /\ WF_vars((ShutdownStarts \/ Drained) /\ UNCHANGED timeouts)
  /\ \A h \in Handler :
       /\ WF_vars((Expire(h) \/ Answer(h)) /\ UNCHANGED timeouts)
       /\ WF_vars(~timeouts /\ HandlerStep(h) /\ UNCHANGED timeouts)

Spec == Init /\ [][Next]_vars /\ Fairness

-------------------------------------------------------------------------------
\* Types; moreover the pool leases no more connections than it has, and a
\* row is locked over a connection only.
TypeOK ==
  /\ main \in {"opening", "migrating", "versioning", "wiring", "waiting",
               "stopping", "closing", "exited"}
  /\ pool \in {"nil", "open", "closed"}
  /\ listener \in {"none", "starting", "up", "failed", "down"}
  /\ shutdown \in {"none", "called", "draining", "done"}
  /\ {timeouts, signalled, schema, timely} \subseteq BOOLEAN
  /\ req \in [Handler -> [pc : {"new", "accepted", "answered", "failed"},
                          todo : Seq({"tx", "query"}),
                          conn : BOOLEAN, lock : BOOLEAN]]
  /\ Cardinality(Leased) <= MaxConns
  /\ \A h \in Handler : req[h].lock => req[h].conn

\* The process never ends under a transaction: when main returns, every
\* connection has been given back, also after the shutdown deadline has
\* passed and when the server came up too late to be shut down.
NoTransactionKilled == main = "exited" => Leased = {}

\* A shutdown that is done before its deadline has answered everybody, with
\* an error when it ended the request's context itself: when main returns,
\* requests can be unanswered only after the deadline has passed, or when the
\* server came up after Shutdown had found nothing to do.
TimelyStopCutsNobody ==
  main = "exited" /\ timely /\ listener # "up" =>
    \A h \in Handler : ~InFlight(h)

\* No request is accepted before the migrations have been applied
\* (README.md: the service does not come up when they fail).
NoServiceWithoutSchema ==
  (\E h \in Handler : req[h].pc # "new") => schema /\ pool # "nil"

\* After a signal the process ends, however the signal meets the start and,
\* when requests have a timeout, whatever the database does.  It says nothing
\* of a start that hangs in EnsureDBVersion, and without timeouts it takes
\* for granted that statements end.
Stops == <>[](signalled => main \in {"exited", "versioning"})

\* No request waits for a connection for ever: nobody waits for one while
\* keeping another, though waiters for a row lock keep theirs.
Served == \A h \in Handler : InFlight(h) ~> ~InFlight(h) \/ main = "exited"

===============================================================================
