------------------------ MODULE ServiceProcessProofs ------------------------
(***************************************************************************)
(* Proofs about ServiceProcess, for any set of requests, of operations and *)
(* any size of the pool: it leases no more connections than it has, main   *)
(* returns over none that is leased, a stop within its deadline cuts       *)
(* nobody off, and no request is served without a schema.                  *)
(***************************************************************************)
EXTENDS ServiceProcess, FiniteSetTheorems, TLAPS

Starting == {"opening", "migrating", "versioning"}

\* Until the server listens nobody has sent a request.
Untouched == \A h \in Handler : req[h] = New

\* A request holds a connection only in flight, with work left for it, and
\* the row lock only in a transaction.
ReqInv ==
  /\ \A h \in Handler :
       /\ req[h].conn => InFlight(h) /\ req[h].todo # <<>>
       /\ req[h].lock => Head(req[h].todo) = "tx"
  /\ listener \in {"none", "starting", "failed"} => Untouched

\* How far main is tells what there is to serve with.
StartInv ==
  /\ main \in Starting \cup {"wiring"} => listener = "none"
  /\ main \notin Starting \cup {"exited"} => schema /\ pool # "nil"
  /\ main = "versioning" => schema
  /\ listener # "none" => schema /\ pool # "nil"

\* What a shutdown that has ended has waited for, and who waits for it.
StopInv ==
  /\ shutdown = "draining" => listener = "down"
  /\ shutdown = "done" /\ listener # "up" => \A h \in Handler : ~InFlight(h)
  /\ main \in {"closing", "exited"} /\ timely =>
       shutdown = "done" \/ listener = "none"

ProcessInv ==
  /\ TypeOK
  /\ IsFiniteSet(Leased)
  /\ ReqInv
  /\ StartInv
  /\ StopInv
  /\ NoTransactionKilled

-----------------------------------------------------------------------------
(* The steps of main, of the listener and of the shutdown, which leave the *)
(* requests as they are, and the steps of a request, which leave all else. *)

Req == [pc : {"new", "accepted", "answered", "failed"},
        todo : Seq({"tx", "query"}), conn : BOOLEAN, lock : BOOLEAN]

\* What a request may become without disturbing anybody.
Fits(h, n) ==
  /\ n \in Req
  /\ n.lock => n.conn /\ Head(n.todo) = "tx"
  /\ n.conn => n.pc = "accepted" /\ n.todo # <<>>
  /\ n.conn => \/ req[h].conn
               \/ pool = "open" /\ Cardinality(Leased) < MaxConns
  /\ n.pc = "accepted" => InFlight(h) \/ listener = "up"
  /\ req[h].pc # "new" \/ listener = "up"

\* The state in which the process starts is a good one: nothing has been
\* opened and nothing is leased.
LEMMA InitFits == Init => ProcessInv
<1> SUFFICES ASSUME Init PROVE ProcessInv
  OBVIOUS
<1> USE DEF Init, New, InFlight, Starting, Untouched, Leased
<1>1. Leased = {}
  OBVIOUS
<1>2. /\ IsFiniteSet(Leased)
      /\ Cardinality(Leased) <= MaxConns
  <2>1. IsFiniteSet(Leased) /\ Cardinality(Leased) = 0
    BY <1>1, FS_EmptySet, Zenon
  <2> QED
    BY <2>1, MaxConnsAssumption
<1>3. req \in [Handler -> [pc : {"new", "accepted", "answered", "failed"},
                           todo : Seq({"tx", "query"}),
                           conn : BOOLEAN, lock : BOOLEAN]]
  OBVIOUS
<1>4. TypeOK
  BY <1>2, <1>3 DEF TypeOK
<1> QED
  BY <1>2, <1>4 DEF ProcessInv, ReqInv, StartInv, StopInv, NoTransactionKilled

\* A request may become anything that fits, whatever the others, main and the
\* goroutines are doing.
LEMMA RequestMoves ==
  ASSUME ProcessInv, NEW h \in Handler, NEW n, Goes(h, n), Fits(h, n),
         UNCHANGED timeouts
  PROVE  ProcessInv'
<1> USE DEF Goes, Fits, process
<1>1. /\ req \in [Handler -> Req]
      /\ req' = [req EXCEPT ![h] = n]
      /\ n \in Req
  BY DEF ProcessInv, TypeOK, Req
<1>2. /\ req' \in [Handler -> Req]
      /\ req'[h] = n
      /\ \A g \in Handler : g # h => req'[g] = req[g]
  BY <1>1
<1>3. /\ IsFiniteSet(Leased')
      /\ Cardinality(Leased') <= MaxConns
  <2>1. IsFiniteSet(Leased) /\ Cardinality(Leased) \in Nat
    BY FS_CardinalityType DEF ProcessInv
  <2>2. Cardinality(Leased) <= MaxConns
    BY DEF ProcessInv, TypeOK
  <2>3. CASE n.conn /\ ~req[h].conn
    <3>1. Leased' = Leased \cup {h} /\ h \notin Leased
      BY <1>2, <2>3 DEF Leased
    <3>2. /\ IsFiniteSet(Leased')
          /\ Cardinality(Leased') = Cardinality(Leased) + 1
      BY <2>1, <3>1, FS_AddElement
    <3> QED
      BY <2>1, <2>3, <3>2, MaxConnsAssumption
  <2>4. CASE ~(n.conn /\ ~req[h].conn)
    <3>1. Leased' \subseteq Leased
      BY <1>2, <2>4 DEF Leased
    <3>2. IsFiniteSet(Leased') /\ Cardinality(Leased') <= Cardinality(Leased)
      BY <2>1, <3>1, FS_Subset
    <3>3. Cardinality(Leased') \in Nat
      BY <3>2, FS_CardinalityType
    <3> QED
      BY <2>1, <2>2, <3>2, <3>3, MaxConnsAssumption
  <2> QED
    BY <2>3, <2>4
<1>4. TypeOK'
  BY <1>2, <1>3 DEF ProcessInv, TypeOK, Req
<1>5. ReqInv'
  <2>1. \A g \in Handler :
          /\ req'[g].conn => InFlight(g)' /\ req'[g].todo # <<>>
          /\ req'[g].lock => Head(req'[g].todo) = "tx"
    BY <1>2 DEF ProcessInv, ReqInv, InFlight
  <2>2. listener \notin {"none", "starting", "failed"}
    BY DEF ProcessInv, ReqInv, Untouched, New
  <2> QED
    BY <2>1, <2>2 DEF ReqInv
<1>6. StartInv'
  BY DEF ProcessInv, StartInv
<1>7. StopInv'
  BY <1>2 DEF ProcessInv, StopInv, InFlight
<1>8. NoTransactionKilled'
  BY DEF NoTransactionKilled
<1> QED
  BY <1>3, <1>4, <1>5, <1>6, <1>7, <1>8 DEF ProcessInv

\* Steps that leave the requests alone leave alone what is leased and the
\* types of the requests.
LEMMA RequestsStay ==
  ASSUME ProcessInv, UNCHANGED req
  PROVE  /\ Leased' = Leased
         /\ \A h \in Handler : InFlight(h)' = InFlight(h)
         /\ Untouched' = Untouched
         /\ IsFiniteSet(Leased')
BY DEF ProcessInv, Leased, InFlight, Untouched

\* Up to the moment it waits for a signal, main opens what it will serve
\* with; when that fails it returns over nothing at all.
LEMMA StartKeeps ==
  ASSUME ProcessInv, UNCHANGED timeouts,
         \/ Signal \/ OpenPool \/ Migrate \/ EnsureVersion \/ StartFails
         \/ Serve \/ Listen
  PROVE  ProcessInv'
<1>1. UNCHANGED req
  BY DEF Signal, OpenPool, Migrate, EnsureVersion, StartFails, Serve, Listen
<1>2. /\ Leased' = Leased
      /\ \A h \in Handler : InFlight(h)' = InFlight(h)
      /\ Untouched' = Untouched
      /\ IsFiniteSet(Leased')
  BY <1>1, RequestsStay
<1>3. Untouched => Leased = {} /\ \A h \in Handler : ~InFlight(h)
  BY DEF Untouched, Leased, InFlight, New
<1>4. ReqInv => \A h \in Handler :
                  /\ req'[h].conn => InFlight(h)' /\ req'[h].todo # <<>>
                  /\ req'[h].lock => Head(req'[h].todo) = "tx"
  BY <1>1, <1>2 DEF ReqInv
<1> USE DEF ProcessInv, Starting
<1> HIDE DEF Leased, InFlight, Untouched
<1>5. TypeOK'
  BY <1>1, <1>2 DEF TypeOK, Signal, OpenPool, Migrate, EnsureVersion,
                    StartFails, Serve, Listen
<1>6. ReqInv'
  BY <1>2, <1>4 DEF ReqInv, StartInv, Signal, OpenPool, Migrate, EnsureVersion,
                    StartFails, Serve, Listen
<1>7. StartInv'
  BY DEF StartInv, Signal, OpenPool, Migrate, EnsureVersion,
         StartFails, Serve, Listen
<1>8. StopInv'
  BY <1>2, <1>3 DEF StopInv, StartInv, ReqInv, Signal, OpenPool, Migrate,
                    EnsureVersion, StartFails, Serve, Listen
<1>9. NoTransactionKilled'
  BY <1>2, <1>3 DEF NoTransactionKilled, StartInv, ReqInv, Signal, OpenPool,
                    Migrate, EnsureVersion, StartFails, Serve, Listen
<1> QED
  BY <1>2, <1>5, <1>6, <1>7, <1>8, <1>9

\* From the signal on, the server drains, main waits or gives up, and the
\* pool waits for what is leased before main returns.
LEMMA StopKeeps ==
  ASSUME ProcessInv, UNCHANGED timeouts,
         Stop \/ ShutdownStarts \/ Drained \/ StopWaiting \/ OnStop
  PROVE  ProcessInv'
<1>1. UNCHANGED req
  BY DEF Stop, ShutdownStarts, Drained, StopWaiting, OnStop
<1>2. /\ Leased' = Leased
      /\ \A h \in Handler : InFlight(h)' = InFlight(h)
      /\ Untouched' = Untouched
      /\ IsFiniteSet(Leased')
  BY <1>1, RequestsStay
<1>3. Untouched => \A h \in Handler : ~InFlight(h)
  BY DEF Untouched, InFlight, New
<1>4. ReqInv => \A h \in Handler :
                  /\ req'[h].conn => InFlight(h)' /\ req'[h].todo # <<>>
                  /\ req'[h].lock => Head(req'[h].todo) = "tx"
  BY <1>1, <1>2 DEF ReqInv
<1> USE DEF ProcessInv, Starting
<1> HIDE DEF Leased, InFlight, Untouched
<1>5. TypeOK'
  BY <1>1, <1>2 DEF TypeOK, Stop, ShutdownStarts, Drained, StopWaiting, OnStop
<1>6. ReqInv'
  BY <1>2, <1>4 DEF ReqInv, Stop, ShutdownStarts, Drained, StopWaiting, OnStop
<1>7. StartInv'
  BY DEF StartInv, Stop, ShutdownStarts, Drained, StopWaiting, OnStop
<1>8. StopInv'
  BY <1>2, <1>3 DEF StopInv, ReqInv, Stop, ShutdownStarts, Drained,
                    StopWaiting, OnStop
<1>9. NoTransactionKilled'
  BY <1>2 DEF NoTransactionKilled, Stop, ShutdownStarts, Drained, StopWaiting,
              OnStop
<1> QED
  BY <1>2, <1>5, <1>6, <1>7, <1>8, <1>9

\* Every operation of the repository is made of transactions and queries.
LEMMA UsesQueries == \A k \in DOMAIN Uses : Uses[k] \in Seq({"tx", "query"})
<1> SUFFICES ASSUME NEW T, T = {"tx", "query"}
             PROVE  \A k \in DOMAIN Uses : Uses[k] \in Seq(T)
  OBVIOUS
<1>1. "tx" \in T /\ "query" \in T
  OBVIOUS
<1>2. /\ <<"tx">> \in Seq(T)
      /\ <<"tx", "query", "query">> \in Seq(T)
      /\ <<"query">> \in Seq(T)
      /\ <<"query", "query">> \in Seq(T)
      /\ <<"query", "query", "query">> \in Seq(T)
      /\ <<"query", "query", "query", "query">> \in Seq(T)
  BY <1>1
<1>3. DOMAIN Uses = {"CreatePR", "MergePR", "ReassignReviewer",
                     "DeactivateTeam", "SetUserActive", "CreateTeam",
                     "GetTeam", "GetUserReviews", "Stats", "StatsSummary",
                     "ReviewerStats", "PRStats"}
  BY DEF Uses
<1>4. /\ \A k \in {"CreatePR", "MergePR", "ReassignReviewer",
                   "DeactivateTeam", "SetUserActive"} : Uses[k] = <<"tx">>
      /\ Uses["CreateTeam"] = <<"tx", "query", "query">>
      /\ Uses["GetTeam"] = <<"query", "query">>
      /\ Uses["GetUserReviews"] = <<"query">>
      /\ \A k \in {"StatsSummary", "PRStats"} :
           Uses[k] = <<"query", "query", "query">>
      /\ \A k \in {"Stats", "ReviewerStats"} :
           Uses[k] = <<"query", "query", "query", "query">>
  BY DEF Uses
<1> QED
  BY <1>2, <1>3, <1>4, Zenon

\* Every step of a handler makes of its request one that fits.
LEMMA HandlerKeeps ==
  ASSUME ProcessInv, UNCHANGED timeouts, NEW h \in Handler,
         \/ Accept(h) \/ HandlerStep(h)
         \/ Expire(h) \/ Refuse(h) \/ Cancel(h)
  PROVE  ProcessInv'
<1>1. /\ req[h] \in Req
      /\ req[h].lock => req[h].conn
      /\ req[h].conn => InFlight(h) /\ req[h].todo # <<>>
      /\ req[h].lock => Head(req[h].todo) = "tx"
  BY DEF ProcessInv, TypeOK, ReqInv, Req
<1>2. \A pc \in {"answered", "failed"} :
        InFlight(h) => Fits(h, [New EXCEPT !.pc = pc])
  <2>1. <<>> \in Seq({"tx", "query"})
    OBVIOUS
  <2> QED
    BY <2>1 DEF Fits, InFlight, New, Req
<1>3. \A pc \in {"answered", "failed"} :
        InFlight(h) /\ Ends(h, pc) => ProcessInv'
  BY <1>2, RequestMoves DEF Ends
<1>4. ASSUME InFlight(h), req[h].conn,
             Goes(h, [req[h] EXCEPT !.conn = FALSE, !.lock = FALSE,
                                    !.todo = Tail(@)])
      PROVE  ProcessInv'
  <2> DEFINE n == [req[h] EXCEPT !.conn = FALSE, !.lock = FALSE,
                                 !.todo = Tail(@)]
  <2>1. Tail(req[h].todo) \in Seq({"tx", "query"})
    BY <1>1, <1>4 DEF Req
  <2>2. Fits(h, n)
    BY <1>1, <1>4, <2>1 DEF Fits, InFlight, Req
  <2> QED
    BY <1>4, <2>2, RequestMoves
<1>5. CASE Accept(h)
  <2>1. PICK k \in Kinds :
          Goes(h, [req[h] EXCEPT !.pc = "accepted", !.todo = Uses[k]])
    BY <1>5 DEF Accept
  <2> DEFINE n == [req[h] EXCEPT !.pc = "accepted", !.todo = Uses[k]]
  <2>2. Uses[k] \in Seq({"tx", "query"})
    BY UsesQueries, KindsAssumption
  <2>3. req[h].pc = "new" /\ listener = "up"
    BY <1>5 DEF Accept
  <2>4. Fits(h, n)
    BY <1>1, <2>2, <2>3 DEF Fits, InFlight, Req
  <2> QED
    BY <2>1, <2>4, RequestMoves
<1>6. CASE Acquire(h)
  <2>1. CASE pool = "closed" /\ Ends(h, "failed")
    BY <1>3, <1>6, <2>1 DEF Acquire
  <2>2. CASE /\ pool = "open"
             /\ Cardinality(Leased) < MaxConns
             /\ Goes(h, [req[h] EXCEPT !.conn = TRUE])
    <3>1. Fits(h, [req[h] EXCEPT !.conn = TRUE])
      BY <1>1, <1>6, <2>2 DEF Acquire, Fits, InFlight, Req
    <3> QED
      BY <2>2, <3>1, RequestMoves
  <2> QED
    BY <1>6, <2>1, <2>2 DEF Acquire
<1>7. CASE QueryDone(h)
  <2> DEFINE n == [req[h] EXCEPT !.conn = FALSE, !.todo = Tail(@)]
  <2>1. Tail(req[h].todo) \in Seq({"tx", "query"})
    BY <1>1, <1>7 DEF QueryDone, Req
  <2>2. ~req[h].lock
    BY <1>1, <1>7 DEF QueryDone
  <2>3. Fits(h, n)
    BY <1>1, <1>7, <2>1, <2>2 DEF QueryDone, Fits, InFlight, Req
  <2> QED
    BY <1>7, <2>3, RequestMoves DEF QueryDone
<1>8. CASE LockRow(h)
  <2>1. Fits(h, [req[h] EXCEPT !.lock = TRUE])
    BY <1>1, <1>8 DEF LockRow, Fits, InFlight, Req
  <2> QED
    BY <1>8, <2>1, RequestMoves DEF LockRow
<1>9. CASE TxDone(h)
  BY <1>1, <1>4, <1>9 DEF TxDone
<1>10. CASE Answer(h) \/ Expire(h) \/ Refuse(h) \/ Cancel(h)
  BY <1>3, <1>10 DEF Answer, Expire, Refuse, Cancel
<1> QED
  BY <1>5, <1>6, <1>7, <1>8, <1>9, <1>10 DEF HandlerStep

-----------------------------------------------------------------------------
(* The theorems.                                                           *)

\* ProcessInv is inductive: no step of main, of a goroutine or of a handler
\* leads out of it.
LEMMA NextKeeps == ProcessInv /\ [Next]_vars => ProcessInv'
<1> SUFFICES ASSUME ProcessInv, [Next]_vars PROVE ProcessInv'
  OBVIOUS
<1>1. CASE UNCHANGED vars
  BY <1>1 DEF vars, process, ProcessInv, TypeOK, ReqInv, StartInv, StopInv,
              Starting, Untouched, NoTransactionKilled, InFlight, Leased
<1>2. CASE Next
  <2>1. UNCHANGED timeouts
    BY <1>2 DEF Next
  <2>2. CASE \/ Signal \/ OpenPool \/ Migrate \/ EnsureVersion \/ StartFails
             \/ Serve \/ Listen
    BY <2>1, <2>2, StartKeeps
  <2>3. CASE Stop \/ ShutdownStarts \/ Drained \/ StopWaiting \/ OnStop
    BY <2>1, <2>3, StopKeeps
  <2>4. CASE \E h \in Handler : \/ Accept(h) \/ HandlerStep(h)
                                \/ Expire(h) \/ Refuse(h) \/ Cancel(h)
    BY <2>1, <2>4, HandlerKeeps
  <2> QED
    BY <1>2, <2>2, <2>3, <2>4 DEF Next, MainStep
<1> QED
  BY <1>1, <1>2

\* Whatever the number of requests and of connections, a run of the process
\* stays within ProcessInv, whose first parts are the types and the bound on
\* the connections the pool leases.
THEOREM ProcessHolds == Spec => []ProcessInv
BY InitFits, NextKeeps, PTL DEF Spec

\* Types hold, no more than MaxConns connections are leased at a time, and
\* the row is locked over a connection only (poolCfg.MaxConns).
THEOREM ProcessTypesHold == Spec => []TypeOK
<1>1. ProcessInv => TypeOK
  BY DEF ProcessInv
<1> QED
  BY <1>1, ProcessHolds, PTL

\* main never returns while a transaction has a connection: pool.Close in
\* OnStop waits for it, and a start that fails has leased nothing.
THEOREM NobodyIsKilled == Spec => []NoTransactionKilled
<1>1. ProcessInv => NoTransactionKilled
  BY DEF ProcessInv
<1> QED
  BY <1>1, ProcessHolds, PTL

\* When the shutdown has ended before its deadline and the server is not up
\* by then, every request that was accepted has been answered or ended.
THEOREM NobodyIsCutOff == Spec => []TimelyStopCutsNobody
<1>1. ProcessInv => TimelyStopCutsNobody
  BY DEF ProcessInv, ReqInv, StopInv, TimelyStopCutsNobody, Untouched,
         InFlight, New
<1> QED
  BY <1>1, ProcessHolds, PTL

\* No request is accepted before the migrations have run and the pool is
\* there: main serves after OnStart only.
THEOREM SchemaComesFirst == Spec => []NoServiceWithoutSchema
<1>1. ProcessInv => NoServiceWithoutSchema
  BY DEF ProcessInv, ReqInv, StartInv, NoServiceWithoutSchema, Untouched, New
<1> QED
  BY <1>1, ProcessHolds, PTL

=============================================================================
