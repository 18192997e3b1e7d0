----------------------------- MODULE Connections -----------------------------
(***************************************************************************)
(* lib/db.ts: query and withTransaction over a pool of one connection.     *)
(* The pool and the client are node-postgres and not ours: whoever asks    *)
(* first is lent the client first; query_timeout frees the caller of a     *)
(* statement, not the server that executes it; a statement that is sent    *)
(* meanwhile is queued behind, and dropped if its own time is up first;    *)
(* a client given back with an error, or that is no longer connected, is   *)
(* discarded.                                                              *)
(***************************************************************************)
EXTENDS Sequences

CONSTANT Callers   \* calls of query and of withTransaction at once

VARIABLES
    conn,          \* the one client of the pool, and its session
    caller,        \* the calls
    waitLine       \* those that wait for the client

connectionVars == <<conn, caller, waitLine>>

NoConn == [state |-> "none", open |-> FALSE, told |-> FALSE, limited |-> FALSE,
           running |-> FALSE, lost |-> FALSE]
NoCall == [step |-> "off", broken |-> FALSE]
HasClient(c) == caller[c].step \notin {"off", "waiting"}

ConnectionsTypeOK ==
    /\ conn \in [state : {"none", "idle", "lent"}, open : BOOLEAN, told : BOOLEAN,
                 limited : BOOLEAN, running : BOOLEAN, lost : BOOLEAN]
    /\ caller \in [Callers -> [step : {"off", "waiting", "set", "statement", "begin", "body",
                                       "commit", "rollback", "release"}, broken : BOOLEAN]]
    /\ waitLine \in Seq(Callers)

-----------------------------------------------------------------------------
(* The pool.                                                               *)

\* pool.connect(), of a query or of a transaction.
Connect(c) ==
    /\ caller[c].step = "off"
    /\ caller' = [caller EXCEPT ![c].step = "waiting"]
    /\ waitLine' = Append(waitLine, c)
    /\ UNCHANGED conn

\* query tells a client its statement_timeout once; withTransaction begins at once.
FirstStep(kind, client) ==
    IF kind = "transaction" THEN "begin" ELSE IF client.told THEN "statement" ELSE "set"

Lend ==
    /\ waitLine # <<>> /\ conn.state # "lent"
    /\ LET client == IF conn.state = "none" THEN NoConn ELSE conn
       IN  /\ conn' = [client EXCEPT !.state = "lent"]
           /\ \E kind \in {"query", "transaction"} :
                 caller' = [caller EXCEPT ![Head(waitLine)].step = FirstStep(kind, client)]
    /\ waitLine' = Tail(waitLine)

\* connectionTimeoutMillis, whether it is a client or a server that does not come.
ConnectTimesOut(c) ==
    /\ caller[c].step = "waiting"
    /\ caller' = [caller EXCEPT ![c] = NoCall]
    /\ waitLine' = SelectSeq(waitLine, LAMBDA d : d # c)
    /\ UNCHANGED conn

\* Mutant: whatever happened, the client goes back.
KeptAnyway(c) == IF conn.lost THEN NoConn ELSE [conn EXCEPT !.state = "idle"]

\* release(error): the transaction whose rollback failed does not give its client back.
GivenBack(c) == IF conn.lost \/ caller[c].broken THEN NoConn ELSE [conn EXCEPT !.state = "idle"]

Release(c) ==
    /\ caller[c].step = "release"
    /\ conn' = GivenBack(c)
    /\ caller' = [caller EXCEPT ![c] = NoCall]
    /\ UNCHANGED waitLine

\* Neon drops a connection, the pool closes one that has been idle, and an idle client
\* that says so is gone.
Drop ==
    /\ conn.state # "none" /\ ~conn.lost
    /\ conn' = IF conn.state = "idle" THEN NoConn ELSE [conn EXCEPT !.lost = TRUE, !.open = FALSE]
    /\ UNCHANGED <<caller, waitLine>>

\* The statement nobody waits for any more ends.
ServerEnds ==
    /\ conn.running /\ conn' = [conn EXCEPT !.running = FALSE]
    /\ UNCHANGED <<caller, waitLine>>

-----------------------------------------------------------------------------
(* Statements.  effect is what the session becomes.                        *)

Succeeds(effect) == ~conn.lost /\ ~conn.running /\ conn' = effect

\* Refused; or cut off by query_timeout, sent or not; or sent to nobody.
Fails(effect) ==
    \/ ~conn.running /\ UNCHANGED conn
    \/ ~conn.running /\ ~conn.lost /\ conn' = [effect EXCEPT !.running = TRUE]
    \/ conn.running /\ UNCHANGED conn

Then(c, step) == caller' = [caller EXCEPT ![c].step = step] /\ UNCHANGED waitLine

\* SET statement_timeout, awaited before anything else, and known only once it is done.
SetTimeout(c) ==
    LET set == [conn EXCEPT !.limited = TRUE]
    IN  /\ caller[c].step = "set"
        /\ \/ Succeeds([set EXCEPT !.told = TRUE]) /\ Then(c, "statement")
           \/ Fails(set) /\ Then(c, "release")

Statement(c) ==
    /\ caller[c].step = "statement"
    /\ Succeeds(conn) \/ Fails(conn)
    /\ Then(c, "release")

\* Whatever fails from BEGIN to COMMIT, the caller's own work included, is rolled back.
BeginWork(c) ==
    LET begun == [conn EXCEPT !.open = TRUE]
    IN  /\ caller[c].step = "begin"
        /\ \/ Succeeds(begun) /\ Then(c, "body")
           \/ Fails(begun) /\ Then(c, "rollback")

Body(c) ==
    /\ caller[c].step = "body"
    /\ \/ Succeeds(conn) /\ (Then(c, "body") \/ Then(c, "commit"))
       \/ Fails(conn) /\ Then(c, "rollback")

Commit(c) ==
    LET committed == [conn EXCEPT !.open = FALSE]
    IN  /\ caller[c].step = "commit"
        /\ \/ Succeeds(committed) /\ Then(c, "release")
           \/ Fails(committed) /\ Then(c, "rollback")

Rollback(c) ==
    LET undone == [conn EXCEPT !.open = FALSE]
    IN  /\ caller[c].step = "rollback"
        /\ \/ Succeeds(undone) /\ Then(c, "release")
           \/ /\ Fails(undone)
              /\ caller' = [caller EXCEPT ![c].step = "release", ![c].broken = TRUE]
              /\ UNCHANGED waitLine

-----------------------------------------------------------------------------

ConnectionsInit ==
    /\ conn = NoConn /\ waitLine = <<>>
    /\ caller = [c \in Callers |-> NoCall]

ConnectionsNext ==
    \/ Lend \/ Drop \/ ServerEnds
    \/ \E c \in Callers :
          \/ Connect(c) \/ ConnectTimesOut(c) \/ Release(c) \/ SetTimeout(c) \/ Statement(c)
          \/ BeginWork(c) \/ Body(c) \/ Commit(c) \/ Rollback(c)

ConnectionsSpec == ConnectionsInit /\ [][ConnectionsNext]_connectionVars

-----------------------------------------------------------------------------

\* "returning it to the pool would hand that state to the next caller": however calls
\* fail, time out or lose their connection, a client that is lent or free for the next
\* call has no transaction of another on it, one client serves one call, and a session
\* that counts as told has its statement_timeout.
ConnectionsAreClean ==
    /\ conn.open => \E c \in Callers : caller[c].step \in {"body", "commit", "rollback", "release"}
    /\ \A c \in Callers : caller[c].step \in {"set", "statement", "begin"} => ~conn.open
    /\ \A c, d \in Callers : HasClient(c) /\ HasClient(d) => c = d
    /\ conn.told => conn.limited

\* "It is issued here on every new connection" (STATEMENT_TIMEOUT_MS): not so for one
\* that a transaction opens.
StatementsAreLimited == \A c \in Callers : caller[c].step = "body" => conn.limited
=============================================================================
