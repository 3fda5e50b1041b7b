------------------------------ MODULE RowWrite ------------------------------
(***************************************************************************)
(* The row writes of one Redis session (RedisService::row_write with       *)
(* delete_row, insert_row and update_row), down to the commands they put   *)
(* on the session's only connection.                                       *)
(*                                                                         *)
(* Handlers run as tasks of their own and meet at the connection's tokio   *)
(* mutex, a fair FIFO lock held from before a command is sent until its    *)
(* reply has arrived.  The server may drop a handler at any await          *)
(* (cancellation), close the session under it, or Redis may not answer;    *)
(* a command that is already on the wire is executed or lost all the same. *)
(* Other clients of the database write between any two commands.           *)
(***************************************************************************)
EXTENDS Naturals, Sequences

CONSTANTS
    Handlers,    \* row_write calls on this session
    Keys,        \* Redis keys
    Strings,     \* string values of at most MAX_CELL characters
    Blobs,       \* string values that are longer, or not UTF-8
    Collections, \* values of any other type
    Absent,      \* no such key
    NoValue,     \* RowWrite::Update without a value
    NoRequest,   \* the handler has not been called yet
    Offered,     \* the requests the host sends in this instance
    Free         \* the mutex is free

VARIABLES
    store,    \* the selected logical database of the Redis server
    request,  \* the validated RowWrite of each handler
    applied,  \* history: the handler's write took effect in Redis
    result,   \* what row_write returned
    pc,       \* where the handler is inside `query`
    command,  \* the Redis command it is about to send or has sent
    expected, \* update_row: the validated current value
    reply,    \* the reply waiting to be processed
    wire,     \* commands sent and not yet executed by Redis
    closed,   \* RedisService::closed
    conn,     \* RedisService::conn holds a connection
    lock,     \* holder of the conn mutex
    waiters,  \* FIFO queue of the mutex
    late      \* history: commands sent after close() returned

tableVars == <<store, request, applied, result>>
handlerVars == <<pc, command, expected, reply>>
connVars == <<wire, closed, conn, lock, waiters, late>>
vars == <<tableVars, handlerVars, connVars>>

\* The promise, seen through the database, the requests and their outcomes;
\* where a handler is and what is on the wire stays inside.
KT == INSTANCE KeysTable WITH
        store <- store, request <- request, applied <- applied, result <- result

Entries == KT!Entries
ASSUME OfferedAssumption == Offered \subseteq KT!Requests
ASSUME DistinctAssumption ==
    /\ Absent \notin Strings \cup Blobs \cup Collections
    /\ Strings \cap (Blobs \cup Collections) = {}
    /\ NoValue \notin Strings \cup Blobs
    /\ NoRequest \notin KT!Requests
    /\ Free \notin Handlers
ASSUME ReplyAssumption == {"none", "accept", "reject"} \cap Entries = {}

Commands == {"TYPE", "GET", "EXISTS", "EVAL", "DEL", "SETNX"}

-----------------------------------------------------------------------------
(* The commands each operation sends, in order                              *)

\* Reads validate first, the script comes last.
AfterValueRead(q) == IF q.dest # q.key THEN "EXISTS" ELSE "EVAL"

FirstCommand(q) ==
    CASE q.op = "delete" -> "DEL"
      [] q.op = "insert" -> "SETNX"
      [] q.op = "update" -> IF q.value # NoValue THEN "TYPE" ELSE AfterValueRead(q)

\* Mutant of Editable: a preview of a larger value may be edited too.
EditableAnyString(e) == e \in Strings \cup Blobs

\* update_row edits a complete UTF-8 value of at most MAX_CELL characters.
Editable(e) == e \in Strings

-----------------------------------------------------------------------------
(* Redis (external): what each command does and replies                     *)

\* Mutant of ScriptRefuses: it is enough that the value is still editable.
ScriptRefusesNoCompare(q, s, e) ==
    \/ s[q.key] = Absent
    \/ q.value # NoValue /\ s[q.key] \notin Strings
    \/ q.dest # q.key /\ s[q.dest] # Absent

\* Mutant of ScriptRefuses: the destination was checked before, by EXISTS.
ScriptRefusesNoDestination(q, s, e) ==
    \/ s[q.key] = Absent
    \/ q.value # NoValue /\ (s[q.key] \in Collections \/ s[q.key] # e)

\* UPDATE_SCRIPT: the checks it repeats before it writes.
ScriptRefuses(q, s, e) ==
    \/ s[q.key] = Absent
    \/ q.value # NoValue /\ (s[q.key] \in Collections \/ s[q.key] # e)
    \/ q.dest # q.key /\ s[q.dest] # Absent

Rename(s, src, dst) == [s EXCEPT ![dst] = s[src], ![src] = Absent]

\* UPDATE_SCRIPT: rename, then SET.
ScriptEffect(q, s) ==
    LET renamed == IF q.dest = q.key THEN s ELSE Rename(s, q.key, q.dest)
    IN  IF q.value = NoValue THEN renamed ELSE [renamed EXCEPT ![q.dest] = q.value]

\* The reply: GET yields the entry itself, the other commands are reduced to
\* whether the handler goes on or gives up.
ReplyOf(h, c) ==
    LET q == request[h]
        goesOn == CASE c = "TYPE" -> store[q.key] \in Strings \cup Blobs
                    [] c = "EXISTS" -> store[q.dest] = Absent
                    [] c = "DEL" -> TRUE
                    [] c = "SETNX" -> store[q.key] = Absent
                    [] c = "EVAL" -> ~ScriptRefuses(q, store, expected[h])
                    [] OTHER -> TRUE
    IN  IF c = "GET" THEN store[q.key] ELSE IF goesOn THEN "accept" ELSE "reject"

Writes(h, c) == c \in {"DEL", "SETNX", "EVAL"} /\ ReplyOf(h, c) = "accept"

StoreAfter(h, c) ==
    LET q == request[h]
    IN  CASE c = "DEL" -> [store EXCEPT ![q.key] = Absent]
          [] c = "SETNX" -> [store EXCEPT ![q.key] = q.value]
          [] c = "EVAL" -> ScriptEffect(q, store)

-----------------------------------------------------------------------------
(* The connection mutex                                                     *)

\* Releasing hands the lock to the longest waiter.
Release ==
    /\ lock' = IF waiters = <<>> THEN Free ELSE Head(waiters)
    /\ waiters' = IF waiters = <<>> THEN <<>> ELSE Tail(waiters)

\* A waiter that is dropped gives up its place.
LeaveQueue(h) ==
    \E i \in DOMAIN waiters :
        /\ waiters[i] = h
        /\ waiters' = SubSeq(waiters, 1, i - 1) \o SubSeq(waiters, i + 1, Len(waiters))
        /\ lock' = lock

\* Mutant of Abandon: a dropped handler keeps the mutex.
AbandonKeepsLock(h) == IF lock = h THEN UNCHANGED <<lock, waiters>> ELSE LeaveQueue(h)

\* Dropping a handler releases its guard or leaves the queue.
Abandon(h) == IF lock = h THEN Release ELSE LeaveQueue(h)

-----------------------------------------------------------------------------
(* Handlers                                                                 *)

Finish(h, r) ==
    /\ pc' = [pc EXCEPT ![h] = "done"]
    /\ result' = [result EXCEPT ![h] = r]
    /\ command' = [command EXCEPT ![h] = "none"]
    /\ reply' = [reply EXCEPT ![h] = "none"]
    /\ UNCHANGED <<store, request, applied, expected>>

\* row_write with a request that parse_row_write accepted.
Start(h, q) ==
    /\ pc[h] = "idle"
    /\ pc' = [pc EXCEPT ![h] = "ready"]
    /\ request' = [request EXCEPT ![h] = q]
    /\ command' = [command EXCEPT ![h] = FirstCommand(q)]
    /\ UNCHANGED <<store, applied, result, expected, reply, connVars>>

\* Mutant of RejectsClosed: only the emptied Option stops a closed session.
RejectsClosedNever == FALSE

\* The unlocked test of `closed` at the start of `query` and before the script.
RejectsClosed == closed

\* Mutant of CheckClosed: the handler waits for the session to come back.
CheckClosedWaits(h) ==
    /\ pc[h] = "ready"
    /\ ~RejectsClosed
    /\ pc' = [pc EXCEPT ![h] = "checked"]
    /\ UNCHANGED <<tableVars, command, expected, reply, connVars>>

CheckClosed(h) ==
    /\ pc[h] = "ready"
    /\ \/ /\ RejectsClosed
          /\ Finish(h, "refused")
       \/ /\ ~RejectsClosed
          /\ pc' = [pc EXCEPT ![h] = "checked"]
          /\ UNCHANGED <<tableVars, command, expected, reply>>
    /\ UNCHANGED connVars

\* conn.lock().await: granted at once when free, else queued.
Lock(h) ==
    /\ pc[h] = "checked"
    /\ pc' = [pc EXCEPT ![h] = "waiting"]
    /\ IF lock = Free THEN lock' = h /\ UNCHANGED waiters
                      ELSE waiters' = Append(waiters, h) /\ UNCHANGED lock
    /\ UNCHANGED <<tableVars, command, expected, reply, wire, closed, conn, late>>

\* The guard is held: without a connection the session is closed, otherwise
\* the command goes out.
Send(h) ==
    /\ pc[h] = "waiting" /\ lock = h
    /\ \/ /\ ~conn
          /\ Finish(h, "refused")
          /\ Release
          /\ UNCHANGED <<wire, late>>
       \/ /\ conn
          /\ pc' = [pc EXCEPT ![h] = "inflight"]
          /\ wire' = [wire EXCEPT ![h] = command[h]]
          /\ late' = [late EXCEPT ![h] = IF closed THEN @ + 1 ELSE @]
          /\ UNCHANGED <<tableVars, command, expected, reply, lock, waiters>>
    /\ UNCHANGED <<closed, conn>>

\* What the handler does with a reply that lets it go on.
Continue(h) ==
    LET q == request[h] IN
    CASE command[h] = "TYPE" -> "GET"
      [] command[h] = "GET" -> AfterValueRead(q)
      [] OTHER -> "EVAL"

GivesUp(h) ==
    \/ reply[h] = "reject"
    \/ command[h] = "GET" /\ ~Editable(reply[h])

\* The reply has arrived: the guard goes, and the handler returns or runs the
\* next command of the operation.
HandleReply(h) ==
    /\ pc[h] = "replied"
    /\ Release
    /\ \/ /\ GivesUp(h)
          /\ Finish(h, "refused")
       \/ /\ ~GivesUp(h)
          /\ command[h] \in {"DEL", "SETNX", "EVAL"}
          /\ Finish(h, "ok")
       \/ /\ ~GivesUp(h)
          /\ command[h] \in {"TYPE", "GET", "EXISTS"}
          /\ pc' = [pc EXCEPT ![h] = "ready"]
          /\ command' = [command EXCEPT ![h] = Continue(h)]
          /\ expected' = IF command[h] = "GET" THEN [expected EXCEPT ![h] = reply[h]]
                                               ELSE expected
          /\ reply' = [reply EXCEPT ![h] = "none"]
          /\ UNCHANGED tableVars
    /\ UNCHANGED <<wire, closed, conn, late>>

\* The reply does not come (dropped connection, response timeout): the
\* handler returns an error; its command may still be executed.
ReplyFails(h) ==
    /\ pc[h] = "inflight"
    /\ Release
    /\ Finish(h, "unknown")
    /\ UNCHANGED <<wire, closed, conn, late>>

\* The server drops the handler's future at an await.
Canceled(h) ==
    /\ pc[h] \in {"waiting", "inflight", "replied"}
    /\ Abandon(h)
    /\ Finish(h, "unknown")
    /\ UNCHANGED <<wire, closed, conn, late>>

-----------------------------------------------------------------------------
(* Redis and the rest of the world                                          *)

\* Redis executes a command from the wire; nobody may be waiting any more.
Execute(h) ==
    /\ wire[h] \in Commands
    /\ wire' = [wire EXCEPT ![h] = "none"]
    /\ store' = IF Writes(h, wire[h]) THEN StoreAfter(h, wire[h]) ELSE store
    /\ applied' = [applied EXCEPT ![h] = @ \/ Writes(h, wire[h])]
    /\ IF pc[h] = "inflight"
       THEN /\ pc' = [pc EXCEPT ![h] = "replied"]
            /\ reply' = [reply EXCEPT ![h] = ReplyOf(h, wire[h])]
       ELSE UNCHANGED <<pc, reply>>
    /\ UNCHANGED <<request, result, command, expected, closed, conn, lock, waiters, late>>

\* A command nobody waits for is lost with its connection.
Lose(h) ==
    /\ wire[h] # "none" /\ pc[h] = "done"
    /\ wire' = [wire EXCEPT ![h] = "none"]
    /\ UNCHANGED <<tableVars, handlerVars, closed, conn, lock, waiters, late>>

OtherClient(k, e) ==
    /\ store' = [store EXCEPT ![k] = e]
    /\ UNCHANGED <<request, applied, result, handlerVars, connVars>>

\* RedisService::close: try_lock empties the Option unless a handler holds
\* the mutex.
Close ==
    /\ ~closed
    /\ closed' = TRUE
    /\ conn' = (conn /\ lock # Free)
    /\ UNCHANGED <<tableVars, handlerVars, wire, lock, waiters, late>>

\* The last handler has dropped its clone of the service: what close() had to
\* leave open goes with it.
ServiceDropped ==
    /\ closed /\ conn
    /\ \A h \in Handlers : pc[h] \in {"idle", "done"}
    /\ conn' = FALSE
    /\ UNCHANGED <<tableVars, handlerVars, wire, closed, lock, waiters, late>>

-----------------------------------------------------------------------------
Init ==
    /\ store \in [Keys -> Entries]
    /\ request = [h \in Handlers |-> NoRequest]
    /\ applied = [h \in Handlers |-> FALSE]
    /\ result = [h \in Handlers |-> "pending"]
    /\ pc = [h \in Handlers |-> "idle"]
    /\ command = [h \in Handlers |-> "none"]
    /\ expected = [h \in Handlers |-> NoValue]
    /\ reply = [h \in Handlers |-> "none"]
    /\ wire = [h \in Handlers |-> "none"]
    /\ closed = FALSE
    /\ conn = TRUE
    /\ lock = Free
    /\ waiters = <<>>
    /\ late = [h \in Handlers |-> 0]

HandlerStep(h) ==
    CheckClosed(h) \/ Lock(h) \/ Send(h) \/ HandleReply(h)

Next ==
    \/ \E h \in Handlers :
         \/ \E q \in Offered : Start(h, q)
         \/ HandlerStep(h) \/ ReplyFails(h) \/ Canceled(h)
         \/ Execute(h) \/ Lose(h)
    \/ \E k \in Keys, e \in Entries : OtherClient(k, e)
    \/ Close
    \/ ServiceDropped

Spec == Init /\ [][Next]_vars

\* Tasks are scheduled, and a command is answered or times out (the redis
\* crate bounds every response).
Fairness ==
    /\ \A h \in Handlers :
         WF_vars(HandlerStep(h)) /\ WF_vars(Execute(h) \/ ReplyFails(h))
    /\ WF_vars(ServiceDropped)

FairSpec == Spec /\ Fairness

-----------------------------------------------------------------------------
(* Properties                                                               *)

PCs == {"idle", "ready", "checked", "waiting", "inflight", "replied", "done"}

\* Every variable keeps its type.
TypeOK ==
    /\ store \in [Keys -> Entries]
    /\ request \in [Handlers -> Offered \cup {NoRequest}]
    /\ applied \in [Handlers -> BOOLEAN]
    /\ result \in [Handlers -> KT!Results]
    /\ pc \in [Handlers -> PCs]
    /\ command \in [Handlers -> Commands \cup {"none"}]
    /\ expected \in [Handlers -> Strings \cup {NoValue}]
    /\ reply \in [Handlers -> Entries \cup {"none", "accept", "reject"}]
    /\ wire \in [Handlers -> Commands \cup {"none"}]
    /\ closed \in BOOLEAN /\ conn \in BOOLEAN
    /\ lock \in Handlers \cup {Free}
    /\ waiters \in Seq(Handlers)
    /\ late \in [Handlers -> Nat]

\* row_write keeps the promise of KeysTable: atomic, at most once, "ok" only
\* when applied, "refused" only when never applied.
ImplementsKeysTable == KT!Spec

\* A value edit replaces exactly the value update_row validated: whatever
\* another client wrote after the GET is never overwritten.
EditReplacesValidated ==
    [][\A h \in Handlers :
         /\ ~applied[h] /\ applied'[h]
         /\ request[h].op = "update" /\ request[h].value # NoValue
         => store[request[h].key] = expected[h]]_vars

\* All I/O is serialized by the mutex, and nobody is forgotten in it: a
\* handler awaits a reply only as holder, and a waiter is the holder or has
\* one place in the queue.
LockExact ==
    /\ \A h \in Handlers :
         /\ pc[h] \in {"inflight", "replied"} => lock = h
         /\ lock = h => pc[h] \in {"waiting", "inflight", "replied"}
         /\ pc[h] = "waiting" <=>
              \/ lock = h /\ pc[h] \notin {"inflight", "replied"}
              \/ \E i \in DOMAIN waiters : waiters[i] = h
    /\ \A i, j \in DOMAIN waiters : waiters[i] = waiters[j] => i = j
    /\ lock = Free => waiters = <<>>

\* After close() a handler sends at most the one command whose test of
\* `closed` it had already passed.
LateCommandBound == \A h \in Handlers : late[h] <= 1

\* Every row write returns, even when others are dropped while they hold or
\* wait for the connection.
HandlerReturns == \A h \in Handlers : pc[h] = "ready" ~> pc[h] = "done"

\* A closed session gives its connection back, although close() itself leaves
\* it to a handler that holds the mutex at that moment.
ConnectionReleased == closed ~> ~conn
=============================================================================
