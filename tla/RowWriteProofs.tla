--------------------------- MODULE RowWriteProofs ---------------------------
(***************************************************************************)
(* Machine-checked proofs about RowWrite, for any number of handlers, keys *)
(* and values: row_write implements KeysTable, an edit replaces exactly    *)
(* the value it validated, a closed session sends at most one more command *)
(* per handler, and the connection's mutex is exact.                       *)
(***************************************************************************)
EXTENDS RowWrite, SequenceTheorems, TLAPS

WriteCommands == {"DEL", "SETNX", "EVAL"}

\* The command belongs to the handler's operation.
Fits(q, c) ==
    /\ c = "DEL" <=> q.op = "delete"
    /\ c = "SETNX" <=> q.op = "insert"
    /\ c \in {"TYPE", "GET"} => q.value # NoValue

\* The script is only sent with a validated value to compare.
Validated(h, c) ==
    c \in {"EXISTS", "EVAL"} /\ request[h].value # NoValue => expected[h] \in Strings

\* Where a handler stands determines what it can have done to the database.
HandlerInv(h) ==
    /\ pc[h] = "idle" <=> request[h] = NoRequest
    /\ pc[h] = "done" <=> result[h] # "pending"
    /\ pc[h] \in {"idle", "ready", "checked", "waiting"} => wire[h] = "none" /\ ~applied[h]
    /\ pc[h] \in {"ready", "checked", "waiting", "inflight", "replied"} =>
         command[h] \in Commands /\ Fits(request[h], command[h]) /\ Validated(h, command[h])
    /\ pc[h] = "inflight" => ~applied[h] /\ wire[h] = command[h]
    /\ pc[h] = "replied" =>
         /\ wire[h] = "none"
         /\ command[h] = "GET" => reply[h] \in Entries
         /\ command[h] # "GET" => reply[h] \in {"accept", "reject"}
         /\ applied[h] <=> command[h] \in WriteCommands /\ reply[h] = "accept"
    /\ result[h] = "ok" => applied[h] /\ wire[h] = "none"
    /\ result[h] = "refused" => ~applied[h] /\ wire[h] = "none"
    /\ wire[h] # "none" =>
         ~applied[h] /\ Fits(request[h], wire[h]) /\ Validated(h, wire[h])

Inv == TypeOK /\ \A h \in Handlers : HandlerInv(h)

-----------------------------------------------------------------------------
(* Requests, replies and their effects                                      *)

\* The fields of a validated RowWrite.
LEMMA RequestType ==
  ASSUME NEW q \in Offered
  PROVE  /\ q.op \in {"delete", "insert", "update"} /\ q.key \in Keys /\ q.dest \in Keys
         /\ q.value \in Strings \cup Blobs \cup {NoValue}
         /\ q.op = "delete" => q.value = NoValue
         /\ q.op = "insert" => q.value \in Strings \cup Blobs
         /\ q # NoRequest
  BY OfferedAssumption, DistinctAssumption DEF KT!Requests

\* The first command belongs to the operation, and an update skips the reads
\* of the value only if it leaves the value alone.
LEMMA FirstCommandFits ==
  ASSUME NEW q \in Offered
  PROVE  /\ FirstCommand(q) \in Commands
         /\ Fits(q, FirstCommand(q))
         /\ FirstCommand(q) \in {"EXISTS", "EVAL"} => q.value = NoValue
  BY RequestType DEF FirstCommand, AfterValueRead, Commands, Fits

\* A command's reply is an entry for GET and a yes or no for the others.
LEMMA ReplyType ==
  ASSUME TypeOK, NEW h \in Handlers, request[h] \in Offered, NEW c \in Commands
  PROVE  /\ c = "GET" => ReplyOf(h, c) \in Entries
         /\ c # "GET" => ReplyOf(h, c) \in {"accept", "reject"}
<1>1. request[h].key \in Keys
  BY RequestType
<1>2. store[request[h].key] \in Entries
  BY <1>1 DEF TypeOK
<1>3. CASE c = "GET"
  BY <1>2, <1>3 DEF ReplyOf
<1>4. CASE c # "GET"
  BY <1>4 DEF ReplyOf
<1> QED BY <1>3, <1>4

\* A write that Redis accepts is allowed by KeysTable and has its effect.
LEMMA WriteIsAllowed ==
  ASSUME TypeOK, NEW h \in Handlers, request[h] \in Offered, NEW c \in Commands,
         Fits(request[h], c), Validated(h, c), Writes(h, c)
  PROVE  /\ KT!Allowed(request[h], store)
         /\ StoreAfter(h, c) = KT!Effect(request[h], store)
<1> DEFINE q == request[h]
<1>1. /\ q.op \in {"delete", "insert", "update"} /\ q.key \in Keys /\ q.dest \in Keys
      /\ q.op = "delete" => q.value = NoValue
  BY RequestType
<1>2. store \in [Keys -> Entries]
  BY DEF TypeOK
<1>3. c \in WriteCommands
  BY DEF Writes, WriteCommands
<1>4. CASE c = "DEL"
  <2>1. q.op = "delete"
    BY <1>4 DEF Fits
  <2> QED BY <1>4, <2>1 DEF KT!Allowed, KT!Effect, StoreAfter
<1>5. CASE c = "SETNX"
  <2>1. q.op = "insert"
    BY <1>5 DEF Fits
  <2>2. store[q.key] = Absent
    BY <1>5 DEF Writes, ReplyOf
  <2> QED BY <1>5, <2>1, <2>2 DEF KT!Allowed, KT!Effect, StoreAfter
<1>6. CASE c = "EVAL"
  <2>1. q.op = "update"
    BY <1>1, <1>6 DEF Fits
  <2>2. ~ScriptRefuses(q, store, expected[h])
    BY <1>6 DEF Writes, ReplyOf
  <2>3. q.value # NoValue => expected[h] \in Strings
    BY <1>6 DEF Validated
  <2>4. KT!Allowed(q, store)
    BY <2>1, <2>2, <2>3 DEF KT!Allowed, ScriptRefuses
  <2>5. ScriptEffect(q, store) = KT!Effect(q, store)
    <3> DEFINE s == store
    <3>1. KT!Effect(q, s) =
            [k \in Keys |->
                IF k = q.dest THEN IF q.value = NoValue THEN s[q.key] ELSE q.value
                ELSE IF k = q.key THEN Absent ELSE s[k]]
      BY <2>1 DEF KT!Effect
    <3>2. CASE q.dest = q.key
      BY <1>1, <1>2, <3>1, <3>2 DEF ScriptEffect
    <3>3. CASE q.dest # q.key
      BY <1>1, <1>2, <3>1, <3>3 DEF ScriptEffect, Rename
    <3> QED BY <3>2, <3>3
  <2> QED BY <1>6, <2>4, <2>5 DEF StoreAfter
<1> QED BY <1>3, <1>4, <1>5, <1>6 DEF WriteCommands

\* The effect of a request on a table is a table.
LEMMA EffectType ==
  ASSUME NEW q \in Offered, NEW s \in [Keys -> Entries]
  PROVE  KT!Effect(q, s) \in [Keys -> Entries]
<1>1. /\ q.op \in {"delete", "insert", "update"} /\ q.key \in Keys /\ q.dest \in Keys
      /\ q.value \in Strings \cup Blobs \cup {NoValue}
      /\ q.op = "insert" => q.value \in Strings \cup Blobs
  BY RequestType
<1>2. CASE q.op = "delete"
  BY <1>1, <1>2 DEF KT!Effect, Entries, KT!Entries
<1>3. CASE q.op = "insert"
  BY <1>1, <1>3 DEF KT!Effect, Entries, KT!Entries
<1>4. CASE q.op = "update"
  BY <1>1, <1>4 DEF KT!Effect, Entries, KT!Entries
<1> QED BY <1>1, <1>2, <1>3, <1>4

-----------------------------------------------------------------------------
(* The mutex                                                                *)

\* Handing the mutex on keeps the types of holder and queue.
LEMMA ReleaseType ==
  ASSUME TypeOK, Release
  PROVE  lock' \in Handlers \cup {Free} /\ waiters' \in Seq(Handlers)
  BY DEF TypeOK, Release

\* So does dropping a handler that holds the mutex or waits for it.
LEMMA AbandonType ==
  ASSUME TypeOK, NEW h \in Handlers, Abandon(h)
  PROVE  lock' \in Handlers \cup {Free} /\ waiters' \in Seq(Handlers)
<1>1. CASE lock = h
  BY <1>1, ReleaseType DEF Abandon
<1>2. CASE lock # h
  <2>1. PICK i \in DOMAIN waiters :
           /\ waiters' = SubSeq(waiters, 1, i - 1) \o SubSeq(waiters, i + 1, Len(waiters))
           /\ lock' = lock
    BY <1>2 DEF Abandon, LeaveQueue
  <2>2. waiters \in Seq(Handlers)
    BY DEF TypeOK
  <2>3. /\ SubSeq(waiters, 1, i - 1) \in Seq(Handlers)
        /\ SubSeq(waiters, i + 1, Len(waiters)) \in Seq(Handlers)
    BY <2>2
  <2> QED BY <2>1, <2>3 DEF TypeOK
<1> QED BY <1>1, <1>2

-----------------------------------------------------------------------------
(* The inductive invariant                                                  *)

\* Steps of one handler leave the invariant of the others alone.
LEMMA OthersKeep ==
  ASSUME NEW h, NEW g, HandlerInv(g), g # h,
         /\ pc'[g] = pc[g] /\ request'[g] = request[g] /\ result'[g] = result[g]
         /\ wire'[g] = wire[g] /\ applied'[g] = applied[g] /\ command'[g] = command[g]
         /\ reply'[g] = reply[g] /\ expected'[g] = expected[g]
  PROVE  HandlerInv(g)'
  BY DEF HandlerInv, Validated, Fits, Entries, KT!Entries

\* Finishing without having written, or with the write acknowledged.
LEMMA FinishKeeps ==
  ASSUME Inv, NEW h \in Handlers, pc[h] \notin {"idle", "done"},
         NEW r \in {"ok", "refused", "unknown"}, Finish(h, r), UNCHANGED wire,
         r = "ok" => applied[h] /\ wire[h] = "none",
         r = "refused" => ~applied[h] /\ wire[h] = "none"
  PROVE  \A g \in Handlers : HandlerInv(g)'
<1> TAKE g \in Handlers
<1>1. TypeOK /\ HandlerInv(g) /\ HandlerInv(h)
  BY DEF Inv
<1>2. CASE g # h
  BY <1>1, <1>2, OthersKeep DEF Finish, TypeOK
<1>3. CASE g = h
  <2>1. /\ pc'[h] = "done" /\ result'[h] = r /\ request'[h] = request[h]
        /\ wire'[h] = wire[h] /\ applied'[h] = applied[h] /\ expected'[h] = expected[h]
    BY <1>1 DEF Finish, TypeOK
  <2>2. request[h] # NoRequest
    BY <1>1 DEF HandlerInv
  <2> QED BY <1>1, <1>3, <2>1, <2>2 DEF HandlerInv, Validated
<1> QED BY <1>2, <1>3

\* Returning from row_write keeps the types.
LEMMA FinishType ==
  ASSUME TypeOK, NEW h \in Handlers, NEW r \in {"ok", "refused", "unknown"}, Finish(h, r)
  PROVE  /\ pc' \in [Handlers -> PCs] /\ result' \in [Handlers -> KT!Results]
         /\ command' \in [Handlers -> Commands \cup {"none"}]
         /\ reply' \in [Handlers -> Entries \cup {"none", "accept", "reject"}]
         /\ UNCHANGED <<store, request, applied, expected>>
  BY DEF TypeOK, Finish, PCs, KT!Results

\* row_write starts: the invariant of its handler is established.
LEMMA StartKeeps ==
  ASSUME Inv, NEW h \in Handlers, NEW q \in Offered, Start(h, q)
  PROVE  Inv'
<1>1. TypeOK /\ HandlerInv(h)
  BY DEF Inv
<1>2. FirstCommand(q) \in Commands /\ Fits(q, FirstCommand(q))
      /\ (FirstCommand(q) \in {"EXISTS", "EVAL"} => q.value = NoValue) /\ q # NoRequest
  BY FirstCommandFits, RequestType
<1>3. TypeOK'
  BY <1>1, <1>2 DEF Start, TypeOK, PCs, connVars
<1>4. HandlerInv(h)'
  <2>1. /\ pc'[h] = "ready" /\ request'[h] = q /\ command'[h] = FirstCommand(q)
        /\ result'[h] = result[h] /\ wire'[h] = wire[h] /\ applied'[h] = applied[h]
        /\ pc[h] = "idle"
    BY <1>1 DEF Start, TypeOK, connVars
  <2> QED BY <1>1, <1>2, <2>1 DEF HandlerInv, Validated
<1>5. ASSUME NEW g \in Handlers, g # h PROVE HandlerInv(g)'
  BY <1>1, <1>5, OthersKeep DEF Start, TypeOK, connVars, Inv
<1> QED BY <1>3, <1>4, <1>5 DEF Inv

\* The test of `closed` either refuses a request that wrote nothing or goes on.
LEMMA CheckClosedKeeps ==
  ASSUME Inv, NEW h \in Handlers, CheckClosed(h)
  PROVE  Inv'
<1>1. TypeOK /\ HandlerInv(h) /\ pc[h] = "ready"
  BY DEF Inv, CheckClosed
<1>2. CASE Finish(h, "refused") /\ UNCHANGED connVars
  <2>1. \A g \in Handlers : HandlerInv(g)'
    BY <1>1, <1>2, FinishKeeps DEF HandlerInv, connVars
  <2>2. TypeOK'
    BY <1>1, <1>2, FinishType DEF TypeOK, connVars
  <2> QED BY <2>1, <2>2 DEF Inv
<1>3. CASE /\ pc' = [pc EXCEPT ![h] = "checked"]
           /\ UNCHANGED <<tableVars, command, expected, reply, connVars>>
  <2>1. TypeOK'
    BY <1>1, <1>3 DEF TypeOK, PCs, tableVars, connVars
  <2>2. HandlerInv(h)'
    BY <1>1, <1>3 DEF TypeOK, HandlerInv, Validated, tableVars, connVars
  <2>3. ASSUME NEW g \in Handlers, g # h PROVE HandlerInv(g)'
    BY <1>1, <1>3, <2>3, OthersKeep DEF TypeOK, tableVars, connVars, Inv
  <2> QED BY <2>1, <2>2, <2>3 DEF Inv
<1> QED BY <1>2, <1>3 DEF CheckClosed

\* Locking and queueing concern the mutex only.
LEMMA LockKeeps ==
  ASSUME Inv, NEW h \in Handlers, Lock(h)
  PROVE  Inv'
<1>1. TypeOK /\ HandlerInv(h) /\ pc[h] = "checked"
  BY DEF Inv, Lock
<1>2. TypeOK'
  <2>1. pc' \in [Handlers -> PCs]
    BY <1>1 DEF Lock, TypeOK, PCs
  <2>2. \/ lock' = h /\ waiters' = waiters
        \/ lock' = lock /\ waiters' = Append(waiters, h)
    BY DEF Lock
  <2>3. waiters \in Seq(Handlers) /\ Append(waiters, h) \in Seq(Handlers)
    BY <1>1 DEF TypeOK
  <2>4. lock' \in Handlers \cup {Free} /\ waiters' \in Seq(Handlers)
    BY <1>1, <2>2, <2>3 DEF TypeOK
  <2> QED BY <1>1, <2>1, <2>4 DEF Lock, TypeOK, tableVars
<1>3. HandlerInv(h)'
  BY <1>1 DEF Lock, TypeOK, HandlerInv, Validated, tableVars
<1>4. ASSUME NEW g \in Handlers, g # h PROVE HandlerInv(g)'
  BY <1>1, <1>4, OthersKeep DEF Lock, TypeOK, tableVars, Inv
<1> QED BY <1>2, <1>3, <1>4 DEF Inv

\* A command is put on the wire only by its own handler, validated before.
LEMMA SendKeeps ==
  ASSUME Inv, NEW h \in Handlers, Send(h)
  PROVE  Inv'
<1>1. TypeOK /\ HandlerInv(h) /\ pc[h] = "waiting"
  BY DEF Inv, Send
<1>2. CASE Finish(h, "refused") /\ Release /\ UNCHANGED <<wire, late, closed, conn>>
  <2>1. \A g \in Handlers : HandlerInv(g)'
    BY <1>1, <1>2, FinishKeeps DEF HandlerInv
  <2>2. TypeOK'
    BY <1>1, <1>2, FinishType, ReleaseType DEF TypeOK
  <2> QED BY <2>1, <2>2 DEF Inv
<1>3. CASE /\ pc' = [pc EXCEPT ![h] = "inflight"]
           /\ wire' = [wire EXCEPT ![h] = command[h]]
           /\ late' = [late EXCEPT ![h] = IF closed THEN @ + 1 ELSE @]
           /\ UNCHANGED <<tableVars, command, expected, reply, lock, waiters, closed, conn>>
  <2>1. TypeOK'
    <3>1. pc' \in [Handlers -> PCs] /\ wire' \in [Handlers -> Commands \cup {"none"}]
      BY <1>1, <1>3 DEF TypeOK, PCs
    <3>2. late' \in [Handlers -> Nat]
      BY <1>1, <1>3 DEF TypeOK
    <3> QED BY <1>1, <1>3, <3>1, <3>2 DEF TypeOK, tableVars
  <2>2. HandlerInv(h)'
    BY <1>1, <1>3 DEF TypeOK, HandlerInv, Validated, tableVars, Commands
  <2>3. ASSUME NEW g \in Handlers, g # h PROVE HandlerInv(g)'
    BY <1>1, <1>3, <2>3, OthersKeep DEF TypeOK, tableVars, Inv
  <2> QED BY <2>1, <2>2, <2>3 DEF Inv
<1> QED BY <1>2, <1>3 DEF Send

\* A reply ends the request truthfully or leads to the next command with the
\* value it validated.
LEMMA HandleReplyKeeps ==
  ASSUME Inv, NEW h \in Handlers, HandleReply(h)
  PROVE  Inv'
<1>1. TypeOK /\ HandlerInv(h) /\ pc[h] = "replied" /\ Release
      /\ UNCHANGED <<wire, closed, conn, late>>
  BY DEF Inv, HandleReply
<1>2. request[h] \in Offered /\ command[h] \in Commands /\ Fits(request[h], command[h])
      /\ wire[h] = "none"
  BY <1>1 DEF HandlerInv, TypeOK
<1>3. GivesUp(h) => ~applied[h]
  BY <1>1 DEF HandlerInv, GivesUp, WriteCommands
<1>4. ~GivesUp(h) /\ command[h] \in {"DEL", "SETNX", "EVAL"} => applied[h]
  BY <1>1 DEF HandlerInv, GivesUp, WriteCommands
<1>5. ASSUME NEW r \in {"ok", "refused"}, Finish(h, r),
             r = "ok" => applied[h], r = "refused" => ~applied[h]
      PROVE  Inv'
  <2>1. \A g \in Handlers : HandlerInv(g)'
    BY <1>1, <1>2, <1>5, FinishKeeps
  <2>2. TypeOK'
    BY <1>1, <1>5, FinishType, ReleaseType DEF TypeOK
  <2> QED BY <2>1, <2>2 DEF Inv
<1>6. CASE /\ ~GivesUp(h)
           /\ command[h] \in {"TYPE", "GET", "EXISTS"}
           /\ pc' = [pc EXCEPT ![h] = "ready"]
           /\ command' = [command EXCEPT ![h] = Continue(h)]
           /\ expected' = IF command[h] = "GET" THEN [expected EXCEPT ![h] = reply[h]]
                                                ELSE expected
           /\ reply' = [reply EXCEPT ![h] = "none"]
           /\ UNCHANGED tableVars
  <2>1. Continue(h) \in Commands /\ Fits(request[h], Continue(h))
    BY <1>2, <1>6, RequestType DEF Continue, AfterValueRead, Commands, Fits
  <2>2. command[h] = "GET" => reply[h] \in Strings
    BY <1>6 DEF GivesUp, Editable
  <2>3. expected' \in [Handlers -> Strings \cup {NoValue}]
    BY <1>1, <1>6, <2>2 DEF TypeOK
  <2>4. TypeOK'
    <3>1. /\ pc' \in [Handlers -> PCs] /\ command' \in [Handlers -> Commands \cup {"none"}]
          /\ reply' \in [Handlers -> Entries \cup {"none", "accept", "reject"}]
      BY <1>1, <1>6, <2>1 DEF TypeOK, PCs
    <3> QED BY <1>1, <1>6, <2>3, <3>1, ReleaseType DEF TypeOK, tableVars
  <2>5. ~applied[h]
    BY <1>1, <1>6 DEF HandlerInv, WriteCommands
  <2>6. Continue(h) \in {"EXISTS", "EVAL"} /\ request[h].value # NoValue
           => expected'[h] \in Strings
    <3>1. command[h] = "GET" => expected'[h] \in Strings
      BY <1>1, <1>6, <2>2 DEF TypeOK
    <3>2. command[h] = "EXISTS" => (request[h].value # NoValue => expected'[h] \in Strings)
      BY <1>1, <1>6 DEF HandlerInv, Validated
    <3>3. command[h] = "TYPE" => Continue(h) = "GET"
      BY DEF Continue
    <3> QED BY <1>6, <3>1, <3>2, <3>3
  <2>7. HandlerInv(h)'
    <3>1. /\ pc'[h] = "ready" /\ command'[h] = Continue(h) /\ request'[h] = request[h]
          /\ result'[h] = result[h] /\ wire'[h] = "none" /\ applied'[h] = applied[h]
      BY <1>1, <1>2, <1>6 DEF TypeOK, tableVars
    <3> QED BY <1>1, <2>1, <2>5, <2>6, <3>1 DEF HandlerInv, Validated
  <2>8. ASSUME NEW g \in Handlers, g # h PROVE HandlerInv(g)'
    BY <1>1, <1>6, <2>8, OthersKeep DEF TypeOK, tableVars, Inv
  <2> QED BY <2>4, <2>7, <2>8 DEF Inv
<1> QED BY <1>3, <1>4, <1>5, <1>6 DEF HandleReply

\* A handler that stops waiting reports "unknown", which claims nothing.
LEMMA GiveUpKeeps ==
  ASSUME Inv, NEW h \in Handlers, ReplyFails(h) \/ Canceled(h)
  PROVE  Inv'
<1>1. TypeOK /\ pc[h] \notin {"idle", "done"} /\ Finish(h, "unknown")
      /\ UNCHANGED <<wire, closed, conn, late>>
  BY DEF Inv, ReplyFails, Canceled
<1>2. \A g \in Handlers : HandlerInv(g)'
  BY <1>1, FinishKeeps
<1>3. lock' \in Handlers \cup {Free} /\ waiters' \in Seq(Handlers)
  BY <1>1, ReleaseType, AbandonType DEF ReplyFails, Canceled
<1>4. TypeOK'
  BY <1>1, <1>3, FinishType DEF TypeOK
<1> QED BY <1>2, <1>4 DEF Inv

\* What Redis does with a command is what KeysTable allows, or nothing.
LEMMA ExecuteWrites ==
  ASSUME Inv, NEW h \in Handlers, Execute(h)
  PROVE  /\ request[h] \in Offered
         /\ Writes(h, wire[h]) =>
              /\ KT!Allowed(request[h], store)
              /\ store' = KT!Effect(request[h], store)
         /\ ~Writes(h, wire[h]) => store' = store
<1>1. TypeOK /\ HandlerInv(h) /\ wire[h] \in Commands /\ wire[h] # "none"
  BY DEF Inv, Execute, Commands
<1>2. request[h] \in Offered
  BY <1>1 DEF HandlerInv, TypeOK
<1>3. Fits(request[h], wire[h]) /\ Validated(h, wire[h])
  BY <1>1 DEF HandlerInv
<1> QED BY <1>1, <1>2, <1>3, WriteIsAllowed DEF Execute

\* Redis executes a command: the reply agrees with what was applied.
LEMMA ExecuteKeeps ==
  ASSUME Inv, NEW h \in Handlers, Execute(h)
  PROVE  Inv'
<1>1. TypeOK /\ HandlerInv(h) /\ wire[h] \in Commands /\ wire[h] # "none"
  BY DEF Inv, Execute, Commands
<1>2. request[h] \in Offered
  BY ExecuteWrites
<1>3. store' \in [Keys -> Entries]
  BY <1>1, <1>2, ExecuteWrites, EffectType DEF TypeOK
<1>4. /\ wire[h] = "GET" => ReplyOf(h, wire[h]) \in Entries
      /\ wire[h] # "GET" => ReplyOf(h, wire[h]) \in {"accept", "reject"}
  BY <1>1, <1>2, ReplyType
<1>5. TypeOK'
  <2>1. wire' \in [Handlers -> Commands \cup {"none"}]
    BY <1>1 DEF Execute, TypeOK
  <2>2. applied' \in [Handlers -> BOOLEAN]
    BY <1>1 DEF Execute, TypeOK
  <2>3. pc' \in [Handlers -> PCs]
    <3>1. pc' = pc \/ pc' = [pc EXCEPT ![h] = "replied"]
      BY DEF Execute
    <3> QED BY <1>1, <3>1 DEF TypeOK, PCs
  <2>4. reply' \in [Handlers -> Entries \cup {"none", "accept", "reject"}]
    BY <1>1, <1>4 DEF Execute, TypeOK
  <2> QED BY <1>1, <1>3, <2>1, <2>2, <2>3, <2>4 DEF Execute, TypeOK
<1>6. HandlerInv(h)'
  <2>1. /\ wire'[h] = "none" /\ request'[h] = request[h] /\ result'[h] = result[h]
        /\ command'[h] = command[h] /\ expected'[h] = expected[h]
        /\ applied'[h] <=> Writes(h, wire[h])
    BY <1>1 DEF Execute, TypeOK, HandlerInv
  <2>2. CASE pc[h] = "inflight"
    <3>1. pc'[h] = "replied" /\ reply'[h] = ReplyOf(h, wire[h]) /\ wire[h] = command[h]
      BY <1>1, <2>2 DEF Execute, TypeOK, HandlerInv
    <3>2. Writes(h, wire[h]) <=> command[h] \in WriteCommands /\ reply'[h] = "accept"
      BY <3>1 DEF Writes, WriteCommands
    <3> QED BY <1>1, <1>4, <2>1, <2>2, <3>1, <3>2
            DEF HandlerInv, Validated, Entries, KT!Entries
  <2>3. CASE pc[h] # "inflight"
    <3>1. pc'[h] = pc[h] /\ pc[h] = "done" /\ result[h] = "unknown"
      BY <1>1, <2>3 DEF Execute, TypeOK, HandlerInv, PCs, KT!Results
    <3> QED BY <1>1, <2>1, <3>1 DEF HandlerInv
  <2> QED BY <2>2, <2>3
<1>7. ASSUME NEW g \in Handlers, g # h PROVE HandlerInv(g)'
  BY <1>1, <1>7, OthersKeep DEF Execute, TypeOK, Inv
<1> QED BY <1>5, <1>6, <1>7 DEF Inv

\* A lost command was not applied and never will be.
LEMMA LoseKeeps ==
  ASSUME Inv, NEW h \in Handlers, Lose(h)
  PROVE  Inv'
<1>1. TypeOK /\ HandlerInv(h)
  BY DEF Inv
<1>2. TypeOK'
  BY <1>1 DEF Lose, TypeOK, tableVars, handlerVars
<1>3. HandlerInv(h)'
  BY <1>1 DEF Lose, TypeOK, HandlerInv, tableVars, handlerVars
<1>4. ASSUME NEW g \in Handlers, g # h PROVE HandlerInv(g)'
  BY <1>1, <1>4, OthersKeep DEF Lose, TypeOK, tableVars, handlerVars, Inv
<1> QED BY <1>2, <1>3, <1>4 DEF Inv

\* Steps outside the handlers: other clients and the session's close.
LEMMA OutsideKeeps ==
  ASSUME Inv, \/ \E k \in Keys, e \in Entries : OtherClient(k, e)
              \/ Close \/ ServiceDropped
              \/ UNCHANGED vars
  PROVE  Inv'
<1>1. UNCHANGED <<request, applied, result, pc, command, expected, reply, wire, lock,
                  waiters, late>>
  BY DEF OtherClient, Close, ServiceDropped, tableVars, handlerVars, connVars, vars
<1>2. TypeOK
  BY DEF Inv
<1>3. store' \in [Keys -> Entries]
  BY <1>2 DEF TypeOK, OtherClient, Close, ServiceDropped, tableVars, vars
<1>4. closed' \in BOOLEAN /\ conn' \in BOOLEAN
  BY <1>2 DEF TypeOK, OtherClient, Close, ServiceDropped, connVars, vars
<1>5. TypeOK'
  BY <1>1, <1>2, <1>3, <1>4 DEF TypeOK
<1>6. \A h \in Handlers : HandlerInv(h)'
  BY <1>1 DEF Inv, HandlerInv, Validated
<1> QED BY <1>5, <1>6 DEF Inv

\* Every step keeps the invariant.
LEMMA InvNext == Inv /\ [Next]_vars => Inv'
<1> SUFFICES ASSUME Inv, [Next]_vars PROVE Inv'
  OBVIOUS
<1> QED
  BY StartKeeps, CheckClosedKeeps, LockKeeps, SendKeeps, HandleReplyKeeps, GiveUpKeeps,
     ExecuteKeeps, LoseKeeps, OutsideKeeps
     DEF Next, HandlerStep

\* The invariant holds of a session that has had no request.
LEMMA InvInit == Init => Inv
<1> SUFFICES ASSUME Init PROVE Inv
  OBVIOUS
<1>1. waiters \in Seq(Handlers)
  BY DEF Init
<1>2. applied \in [Handlers -> BOOLEAN] /\ closed \in BOOLEAN /\ conn \in BOOLEAN
  BY Zenon DEF Init
<1>3. TypeOK
  BY <1>1, <1>2 DEF Init, TypeOK, PCs, KT!Results
<1>4. \A h \in Handlers : HandlerInv(h)
  BY DEF Init, HandlerInv
<1> QED BY <1>3, <1>4 DEF Inv

\* The invariant of all reachable states.
LEMMA InvAlways == Spec => []Inv
  BY InvInit, InvNext, PTL DEF Spec

\* Every variable of a session's row writes always has its type.
THEOREM RowWriteTypes == Spec => []TypeOK
<1>1. Inv => TypeOK
  BY DEF Inv
<1> QED BY <1>1, InvAlways, PTL

-----------------------------------------------------------------------------
(* The refinement                                                           *)

\* Every step of RowWrite is a step of KeysTable or leaves its state alone.
LEMMA StepSimulation ==
  ASSUME Inv, [Next]_vars
  PROVE  [KT!Next]_(KT!vars)
<1> USE DEF KT!vars
<1>0. TypeOK /\ \A h \in Handlers : HandlerInv(h)
  BY DEF Inv
<1>1. ASSUME NEW h \in Handlers, NEW q \in Offered, Start(h, q) PROVE KT!Next
  <2>1. KT!Submit(h, q)
    BY <1>0, <1>1 DEF Start, KT!Submit, HandlerInv
  <2>2. q \in KT!Requests
    BY OfferedAssumption
  <2> QED BY <2>1, <2>2 DEF KT!Next
<1>2. ASSUME NEW h \in Handlers, NEW r \in {"ok", "refused", "unknown"}, Finish(h, r),
             pc[h] \notin {"idle", "done"},
             r = "ok" => applied[h], r = "refused" => ~applied[h]
      PROVE  KT!Next
  <2>1. request[h] # NoRequest /\ result[h] = "pending"
    BY <1>0, <1>2 DEF HandlerInv
  <2>2. KT!Respond(h, r)
    BY <1>2, <2>1 DEF Finish, KT!Respond
  <2>3. r \in KT!Results \ {"pending"}
    BY DEF KT!Results
  <2> QED BY <2>2, <2>3 DEF KT!Next
<1>3. ASSUME NEW h \in Handlers, CheckClosed(h) PROVE [KT!Next]_(KT!vars)
  <2>1. CASE Finish(h, "refused")
    BY <1>0, <1>2, <1>3, <2>1 DEF CheckClosed, HandlerInv
  <2> QED BY <1>3, <2>1 DEF CheckClosed, tableVars
<1>4. ASSUME NEW h \in Handlers, Lock(h) PROVE [KT!Next]_(KT!vars)
  BY <1>4 DEF Lock, tableVars
<1>5. ASSUME NEW h \in Handlers, Send(h) PROVE [KT!Next]_(KT!vars)
  <2>1. CASE Finish(h, "refused")
    BY <1>0, <1>2, <1>5, <2>1 DEF Send, HandlerInv
  <2> QED BY <1>5, <2>1 DEF Send, tableVars
<1>6. ASSUME NEW h \in Handlers, HandleReply(h) PROVE [KT!Next]_(KT!vars)
  <2>1. CASE GivesUp(h) /\ Finish(h, "refused")
    <3>1. ~applied[h] /\ pc[h] = "replied"
      BY <1>0, <1>6, <2>1 DEF HandleReply, HandlerInv, GivesUp, WriteCommands
    <3> QED BY <1>2, <2>1, <3>1
  <2>2. CASE ~GivesUp(h) /\ command[h] \in {"DEL", "SETNX", "EVAL"} /\ Finish(h, "ok")
    <3>1. applied[h] /\ pc[h] = "replied"
      BY <1>0, <1>6, <2>2 DEF HandleReply, HandlerInv, GivesUp, WriteCommands
    <3> QED BY <1>2, <2>2, <3>1
  <2> QED BY <1>6, <2>1, <2>2 DEF HandleReply, tableVars
<1>7. ASSUME NEW h \in Handlers, ReplyFails(h) \/ Canceled(h) PROVE KT!Next
  BY <1>2, <1>7 DEF ReplyFails, Canceled
<1>8. ASSUME NEW h \in Handlers, Execute(h) PROVE [KT!Next]_(KT!vars)
  <2>1. CASE Writes(h, wire[h])
    <3>1. /\ request[h] \in Offered /\ KT!Allowed(request[h], store)
          /\ store' = KT!Effect(request[h], store)
      BY <1>8, <2>1, ExecuteWrites
    <3>2. request[h] # NoRequest
      BY <3>1, RequestType
    <3>3. wire[h] # "none"
      BY <1>8 DEF Execute, Commands
    <3>4. ~applied[h] /\ result[h] \in {"pending", "unknown"}
      BY <1>0, <3>3 DEF HandlerInv, TypeOK, KT!Results
    <3>5. applied' = [applied EXCEPT ![h] = TRUE] /\ UNCHANGED <<request, result>>
      BY <1>0, <1>8, <2>1 DEF Execute, TypeOK
    <3>6. KT!Apply(h)
      BY <3>1, <3>2, <3>4, <3>5 DEF KT!Apply
    <3> QED BY <3>6 DEF KT!Next
  <2>2. CASE ~Writes(h, wire[h])
    <3>1. applied' = applied
      BY <1>0, <1>8, <2>2 DEF Execute, TypeOK
    <3> QED BY <1>8, <2>2, <3>1 DEF Execute
  <2> QED BY <2>1, <2>2
<1>9. ASSUME NEW h \in Handlers, Lose(h) PROVE [KT!Next]_(KT!vars)
  BY <1>9 DEF Lose, tableVars
<1>10. ASSUME NEW k \in Keys, NEW e \in Entries, OtherClient(k, e) PROVE KT!Next
  BY <1>10 DEF OtherClient, KT!OtherClient, KT!Next, Entries
<1>11. CASE Close \/ ServiceDropped \/ UNCHANGED vars
  BY <1>11 DEF Close, ServiceDropped, vars, tableVars
<1> QED
  BY <1>1, <1>3, <1>4, <1>5, <1>6, <1>7, <1>8, <1>9, <1>10, <1>11 DEF Next, HandlerStep

\* row_write implements the abstract table: whatever handlers are dropped,
\* sessions closed, replies lost and keys written by others, each request
\* takes effect atomically and at most once, and its answer tells the truth.
THEOREM RowWriteImplements == Spec => ImplementsKeysTable
<1>1. Init => KT!Init
  BY DEF Init, KT!Init, Entries
<1>2. Inv /\ [Next]_vars => [KT!Next]_(KT!vars)
  BY StepSimulation
<1> QED BY <1>1, <1>2, InvAlways, PTL DEF Spec, ImplementsKeysTable, KT!Spec

\* A value edit that took effect found exactly the value it had validated.
THEOREM EditIsCompareAndSet == Spec => EditReplacesValidated
<1> DEFINE Replaced ==
      \A h \in Handlers :
         /\ ~applied[h] /\ applied'[h]
         /\ request[h].op = "update" /\ request[h].value # NoValue
         => store[request[h].key] = expected[h]
<1>1. ASSUME Inv, [Next]_vars PROVE [Replaced]_vars
  <2>0. TypeOK /\ \A h \in Handlers : HandlerInv(h)
    BY <1>1 DEF Inv
  <2>1. ASSUME NEW g \in Handlers, Execute(g) PROVE Replaced
    <3> SUFFICES ASSUME NEW h \in Handlers, ~applied[h], applied'[h],
                        request[h].op = "update", request[h].value # NoValue
                 PROVE  store[request[h].key] = expected[h]
      OBVIOUS
    <3>1. h = g /\ Writes(h, wire[h])
      BY <2>0, <2>1 DEF Execute, TypeOK
    <3>2. wire[h] # "none" /\ Fits(request[h], wire[h])
      BY <2>0, <2>1, <3>1 DEF Execute, Commands, HandlerInv
    <3>3. wire[h] = "EVAL"
      BY <3>1, <3>2 DEF Writes, Fits
    <3>4. ~ScriptRefuses(request[h], store, expected[h])
      BY <3>1, <3>3 DEF Writes, ReplyOf
    <3> QED BY <3>4 DEF ScriptRefuses
  <2>2. CASE ~\E g \in Handlers : Execute(g)
    <3>1. applied' = applied
      BY <1>1, <2>2 DEF Next, HandlerStep, Start, CheckClosed, Lock, Send, HandleReply,
         ReplyFails, Canceled, Lose, OtherClient, Close, ServiceDropped, Finish, tableVars, vars
    <3> QED BY <2>0, <3>1 DEF TypeOK
  <2> QED BY <2>1, <2>2
<1>2. Inv /\ [Next]_vars => [Replaced]_vars
  BY <1>1
<1> QED BY <1>2, InvAlways, PTL DEF Spec, EditReplacesValidated

-----------------------------------------------------------------------------
(* The closed session                                                       *)

\* A late command was sent after the close by a handler that has not passed
\* the test of `closed` since.
LateInv ==
  /\ Inv
  /\ \A h \in Handlers : \/ late[h] = 0
                         \/ late[h] = 1 /\ closed /\ pc[h] \notin {"idle", "checked", "waiting"}

\* Every step keeps the bound on late commands: a handler that returns to the
\* test of `closed` after close() goes no further.
LEMMA LateNext == LateInv /\ [Next]_vars => LateInv'
<1> SUFFICES ASSUME LateInv, [Next]_vars PROVE LateInv'
  OBVIOUS
<1>1. Inv /\ Inv' /\ TypeOK
  BY InvNext DEF LateInv, Inv
<1>2. closed => closed'
  BY DEF Next, HandlerStep, Start, CheckClosed, Lock, Send, HandleReply, ReplyFails, Canceled,
     Execute, Lose, OtherClient, Close, ServiceDropped, connVars, vars
<1>3. ASSUME NEW h \in Handlers, Send(h) PROVE LateInv'
  <2>1. late[h] = 0
    BY <1>3 DEF LateInv, Send
  <2>2. CASE conn
    BY <1>1, <1>2, <1>3, <2>1, <2>2 DEF LateInv, Send, TypeOK, Finish
  <2>3. CASE ~conn
    BY <1>1, <1>2, <1>3, <2>1, <2>3 DEF LateInv, Send, TypeOK, Finish
  <2> QED BY <2>2, <2>3
<1>4. CASE ~\E h \in Handlers : Send(h)
  <2>1. late' = late
    BY <1>4 DEF Next, HandlerStep, Start, CheckClosed, Lock, HandleReply, ReplyFails, Canceled,
       Execute, Lose, OtherClient, Close, ServiceDropped, connVars, vars
  <2>2. ASSUME NEW h \in Handlers, closed, pc'[h] \in {"idle", "checked", "waiting"}
        PROVE  pc[h] \in {"idle", "checked", "waiting"}
    <3>1. ASSUME NEW g \in Handlers, NEW q \in Offered, Start(g, q)
          PROVE  pc[h] \in {"idle", "checked", "waiting"}
      BY <1>1, <2>2, <3>1 DEF Start, TypeOK
    <3>2. ASSUME NEW g \in Handlers, CheckClosed(g)
          PROVE  pc[h] \in {"idle", "checked", "waiting"}
      BY <1>1, <2>2, <3>2 DEF CheckClosed, RejectsClosed, Finish, TypeOK
    <3>3. ASSUME NEW g \in Handlers, Lock(g)
          PROVE  pc[h] \in {"idle", "checked", "waiting"}
      BY <1>1, <2>2, <3>3 DEF Lock, TypeOK
    <3>4. ASSUME NEW g \in Handlers, HandleReply(g)
          PROVE  pc[h] \in {"idle", "checked", "waiting"}
      BY <1>1, <2>2, <3>4 DEF HandleReply, Finish, TypeOK
    <3>5. ASSUME NEW g \in Handlers, ReplyFails(g) \/ Canceled(g)
          PROVE  pc[h] \in {"idle", "checked", "waiting"}
      BY <1>1, <2>2, <3>5 DEF ReplyFails, Canceled, Finish, TypeOK
    <3>6. ASSUME NEW g \in Handlers, Execute(g) \/ Lose(g)
          PROVE  pc[h] \in {"idle", "checked", "waiting"}
      BY <1>1, <2>2, <3>6 DEF Execute, Lose, TypeOK, handlerVars
    <3>7. CASE UNCHANGED handlerVars
      BY <2>2, <3>7 DEF handlerVars
    <3> QED BY <1>4, <3>1, <3>2, <3>3, <3>4, <3>5, <3>6, <3>7
            DEF Next, HandlerStep, OtherClient, Close, ServiceDropped, vars
  <2> QED BY <1>1, <1>2, <2>1, <2>2 DEF LateInv
<1> QED BY <1>3, <1>4

\* After close() each handler sends at most one more command.
THEOREM ClosedSessionBound == Spec => []LateCommandBound
<1>1. Init => LateInv
  BY InvInit DEF Init, LateInv
<1>2. LateInv => LateCommandBound
  <2> SUFFICES ASSUME LateInv, NEW h \in Handlers PROVE late[h] <= 1
    BY DEF LateCommandBound
  <2>1. late[h] \in {0, 1}
    BY DEF LateInv
  <2> QED BY <2>1
<1> QED BY <1>1, <1>2, LateNext, PTL DEF Spec

-----------------------------------------------------------------------------
(* The connection mutex serializes, and forgets nobody                      *)

\* Who holds the mutex, who waits for it, and that nobody does both: without
\* the last a released mutex could be handed to a handler that is not waiting.
MutexInv ==
    /\ \A h \in Handlers :
         /\ pc[h] \in {"inflight", "replied"} => lock = h
         /\ lock = h => pc[h] \in {"waiting", "inflight", "replied"}
         /\ pc[h] = "waiting" => lock = h \/ \E i \in DOMAIN waiters : waiters[i] = h
    /\ \A i \in DOMAIN waiters : pc[waiters[i]] = "waiting" /\ waiters[i] # lock
    /\ \A i, j \in DOMAIN waiters : waiters[i] = waiters[j] => i = j
    /\ lock = Free => waiters = <<>>

\* A sequence without its i-th element.
LEMMA RemovedAt ==
  ASSUME NEW S, NEW s \in Seq(S), NEW i \in DOMAIN s, NEW t,
         t = SubSeq(s, 1, i - 1) \o SubSeq(s, i + 1, Len(s))
  PROVE  /\ t \in Seq(S) /\ Len(t) = Len(s) - 1
         /\ \A j \in 1..(Len(s) - 1) : t[j] = IF j < i THEN s[j] ELSE s[j + 1]
<1>1. Len(s) \in Nat /\ i \in 1..Len(s)
  OBVIOUS
<1> DEFINE a == SubSeq(s, 1, i - 1)
           b == SubSeq(s, i + 1, Len(s))
<1>2. a \in Seq(S) /\ Len(a) = i - 1 /\ \A j \in 1..(i - 1) : a[j] = s[j]
  BY <1>1
<1>3. b \in Seq(S) /\ Len(b) = Len(s) - i /\ \A j \in 1..(Len(s) - i) : b[j] = s[j + i]
  BY <1>1
<1> HIDE DEF a, b
<1>4. t = a \o b
  BY DEF a, b
<1>5. t \in Seq(S) /\ Len(t) = Len(s) - 1
  BY <1>1, <1>2, <1>3, <1>4
<1>6. ASSUME NEW j \in 1..(Len(s) - 1) PROVE t[j] = IF j < i THEN s[j] ELSE s[j + 1]
  <2>1. CASE j < i
    BY <1>1, <1>2, <1>3, <1>4, <2>1
  <2>2. CASE ~(j < i)
    <3>1. t[j] = b[j - (i - 1)] /\ j - (i - 1) \in 1..(Len(s) - i)
      <4>1. j \in 1..(Len(a) + Len(b)) /\ ~(j <= Len(a))
        BY <1>1, <1>2, <1>3, <2>2
      <4>2. (a \o b)[j] = b[j - Len(a)]
        <5>1. (a \o b)[j] = IF j <= Len(a) THEN a[j] ELSE b[j - Len(a)]
          BY <1>2, <1>3, <4>1, ConcatProperties, Zenon
        <5> QED BY <4>1, <5>1
      <4>3. j - (i - 1) \in 1..(Len(s) - i)
        BY <1>1, <1>2, <2>2
      <4> QED BY <1>2, <1>4, <4>2, <4>3
    <3>2. b[j - (i - 1)] = s[(j - (i - 1)) + i]
      BY <1>3, <3>1
    <3>3. (j - (i - 1)) + i = j + 1
      BY <1>1
    <3> QED BY <2>2, <3>1, <3>2, <3>3
  <2> QED BY <2>1, <2>2
<1> QED BY <1>5, <1>6

\* The holder lets go: the longest waiter holds the mutex, the others keep
\* their places.
LEMMA MutexReleased ==
  ASSUME TypeOK, MutexInv, NEW h \in Handlers, lock = h, Release,
         pc'[h] \notin {"waiting", "inflight", "replied"},
         \A g \in Handlers : g # h => pc'[g] = pc[g]
  PROVE  MutexInv'
<1> USE DistinctAssumption
<1>1. waiters \in Seq(Handlers) /\ Free \notin Handlers
  BY DEF TypeOK
<1>2. CASE waiters = <<>>
  <2>1. lock' = Free /\ waiters' = <<>> /\ DOMAIN waiters' = {}
    BY <1>2 DEF Release
  <2>2. DOMAIN waiters = {}
    BY <1>2
  <2> QED BY <1>1, <2>1, <2>2 DEF MutexInv
<1>3. CASE waiters # <<>>
  <2>1. /\ lock' = waiters[1] /\ Len(waiters) \in Nat /\ Len(waiters) >= 1
        /\ waiters' \in Seq(Handlers) /\ Len(waiters') = Len(waiters) - 1
        /\ \A i \in DOMAIN waiters' : waiters'[i] = waiters[i + 1]
    BY <1>1, <1>3 DEF Release
  <2>2. 1 \in DOMAIN waiters /\ waiters[1] \in Handlers
    BY <1>1, <2>1
  <2>3. \A i \in DOMAIN waiters' : i + 1 \in DOMAIN waiters /\ i \in Nat /\ i + 1 # 1
    BY <1>1, <2>1
  <2>4. \A i \in DOMAIN waiters : i = 1 \/ (i - 1 \in DOMAIN waiters' /\ (i - 1) + 1 = i)
    BY <1>1, <2>1
  <2>5. \A i \in DOMAIN waiters : waiters[i] \in Handlers /\ waiters[i] # h
    BY <1>1 DEF MutexInv
  <2>6. ASSUME NEW g \in Handlers
        PROVE  /\ pc'[g] \in {"inflight", "replied"} => lock' = g
               /\ lock' = g => pc'[g] \in {"waiting", "inflight", "replied"}
               /\ pc'[g] = "waiting" =>
                    lock' = g \/ \E i \in DOMAIN waiters' : waiters'[i] = g
    <3>1. CASE g = h
      BY <2>1, <2>2, <2>5, <3>1
    <3>2. CASE g # h
      <4>1. pc'[g] = pc[g] /\ lock # g
        BY <3>2
      <4>2. lock' = g => pc[g] = "waiting"
        <5>1. pc[waiters[1]] = "waiting"
          BY <2>2 DEF MutexInv
        <5> QED BY <2>1, <5>1
      <4>3. ASSUME pc[g] = "waiting"
            PROVE  lock' = g \/ \E i \in DOMAIN waiters' : waiters'[i] = g
        <5>1. PICK i \in DOMAIN waiters : waiters[i] = g
          BY <4>1, <4>3 DEF MutexInv
        <5> QED BY <2>1, <2>4, <5>1
      <4> QED BY <4>1, <4>2, <4>3 DEF MutexInv
    <3> QED BY <3>1, <3>2
  <2>7. \A i \in DOMAIN waiters' : pc'[waiters'[i]] = "waiting" /\ waiters'[i] # lock'
    BY <2>1, <2>2, <2>3, <2>5 DEF MutexInv
  <2>8. \A i, j \in DOMAIN waiters' : waiters'[i] = waiters'[j] => i = j
    <3> TAKE i, j \in DOMAIN waiters'
    <3>1. waiters'[i] = waiters[i + 1] /\ waiters'[j] = waiters[j + 1]
      BY <2>1
    <3>2. i + 1 \in DOMAIN waiters /\ j + 1 \in DOMAIN waiters /\ i \in Nat /\ j \in Nat
      BY <2>3
    <3>3. waiters[i + 1] = waiters[j + 1] => i + 1 = j + 1
      BY <3>2 DEF MutexInv
    <3> QED BY <3>1, <3>2, <3>3
  <2>9. lock' # Free
    BY <1>1, <2>1, <2>2
  <2> QED BY <2>6, <2>7, <2>8, <2>9 DEF MutexInv
<1> QED BY <1>2, <1>3

\* A dropped waiter leaves the queue, and the others keep their order.
LEMMA MutexLeft ==
  ASSUME TypeOK, MutexInv, NEW h \in Handlers, lock # h, LeaveQueue(h),
         pc'[h] \notin {"waiting", "inflight", "replied"},
         \A g \in Handlers : g # h => pc'[g] = pc[g]
  PROVE  MutexInv'
<1>1. waiters \in Seq(Handlers) /\ Len(waiters) \in Nat
  BY DEF TypeOK
<1>2. PICK k \in DOMAIN waiters :
        /\ waiters[k] = h
        /\ waiters' = SubSeq(waiters, 1, k - 1) \o SubSeq(waiters, k + 1, Len(waiters))
        /\ lock' = lock
  BY DEF LeaveQueue
<1>3. /\ waiters' \in Seq(Handlers) /\ Len(waiters') = Len(waiters) - 1
      /\ \A j \in 1..(Len(waiters) - 1) :
           waiters'[j] = IF j < k THEN waiters[j] ELSE waiters[j + 1]
  <2>1. \A s \in Seq(Handlers) : \A i \in DOMAIN s : \A t :
           t = SubSeq(s, 1, i - 1) \o SubSeq(s, i + 1, Len(s)) =>
             /\ t \in Seq(Handlers) /\ Len(t) = Len(s) - 1
             /\ \A j \in 1..(Len(s) - 1) : t[j] = IF j < i THEN s[j] ELSE s[j + 1]
    BY RemovedAt, Zenon
  <2> QED BY <1>1, <1>2, <2>1, Zenon
<1> DEFINE old(j) == IF j < k THEN j ELSE j + 1
<1>4. DOMAIN waiters' = 1..(Len(waiters) - 1) /\ DOMAIN waiters = 1..Len(waiters) /\ k \in Nat
  BY <1>1, <1>3
<1>5. \A j \in DOMAIN waiters' :
         old(j) \in DOMAIN waiters /\ old(j) # k /\ waiters'[j] = waiters[old(j)]
  BY <1>1, <1>3, <1>4
<1>6. \A i, j \in DOMAIN waiters' : old(i) = old(j) => i = j
  BY <1>1, <1>4
<1>7. \A i \in DOMAIN waiters : i = k \/ \E j \in DOMAIN waiters' : old(j) = i
  <2> TAKE i \in DOMAIN waiters
  <2>1. CASE i < k
    <3>1. i \in DOMAIN waiters' /\ old(i) = i
      BY <1>1, <1>4, <2>1
    <3> QED BY <3>1
  <2>2. CASE i > k
    <3>1. i - 1 \in DOMAIN waiters' /\ old(i - 1) = i
      BY <1>1, <1>4, <2>2
    <3> QED BY <3>1
  <2> QED BY <1>1, <1>4, <2>1, <2>2
<1> HIDE DEF old
<1>8. \A j \in DOMAIN waiters' : waiters'[j] \in Handlers /\ waiters'[j] # h
  <2> TAKE j \in DOMAIN waiters'
  <2>1. old(j) \in DOMAIN waiters /\ old(j) # k /\ waiters'[j] = waiters[old(j)]
    BY <1>5
  <2>2. waiters[old(j)] \in Handlers
    BY <1>1, <2>1
  <2>3. waiters[old(j)] # waiters[k]
    BY <2>1 DEF MutexInv
  <2> QED BY <1>2, <2>1, <2>2, <2>3
<1>9. ASSUME NEW g \in Handlers
      PROVE  /\ pc'[g] \in {"inflight", "replied"} => lock' = g
             /\ lock' = g => pc'[g] \in {"waiting", "inflight", "replied"}
             /\ pc'[g] = "waiting" =>
                  lock' = g \/ \E i \in DOMAIN waiters' : waiters'[i] = g
  <2>1. CASE g = h
    BY <1>2, <2>1
  <2>2. CASE g # h
    <3>1. pc'[g] = pc[g] /\ lock' = lock
      BY <1>2, <2>2
    <3>2. ASSUME NEW i \in DOMAIN waiters, waiters[i] = g
          PROVE  \E j \in DOMAIN waiters' : waiters'[j] = g
      BY <1>2, <1>5, <1>7, <2>2, <3>2
    <3> QED BY <3>1, <3>2 DEF MutexInv
  <2> QED BY <2>1, <2>2
<1>10. \A j \in DOMAIN waiters' : pc'[waiters'[j]] = "waiting" /\ waiters'[j] # lock'
  <2> TAKE j \in DOMAIN waiters'
  <2>1. old(j) \in DOMAIN waiters /\ waiters'[j] = waiters[old(j)]
    BY <1>5
  <2>2. pc[waiters[old(j)]] = "waiting" /\ waiters[old(j)] # lock
    BY <2>1 DEF MutexInv
  <2>3. pc'[waiters'[j]] = pc[waiters'[j]]
    BY <1>8
  <2> QED BY <1>2, <2>1, <2>2, <2>3
<1>11. \A i, j \in DOMAIN waiters' : waiters'[i] = waiters'[j] => i = j
  BY <1>5, <1>6 DEF MutexInv
<1>12. lock' # Free
  BY <1>1, <1>2 DEF MutexInv
<1> QED BY <1>9, <1>10, <1>11, <1>12 DEF MutexInv

\* Where handlers move without touching the mutex.
LEMMA MutexUntouched ==
  ASSUME TypeOK, MutexInv, UNCHANGED <<lock, waiters>>,
         \A g \in Handlers :
            \/ pc'[g] = pc[g]
            \/ {pc[g], pc'[g]} \cap {"waiting", "inflight", "replied"} = {}
            \/ pc'[g] \in {"inflight", "replied"} /\ lock = g
  PROVE  MutexInv'
<1>1. \A i \in DOMAIN waiters : waiters[i] \in Handlers
  BY DEF TypeOK
<1>2. ASSUME NEW g \in Handlers
      PROVE  /\ pc'[g] \in {"inflight", "replied"} => lock' = g
             /\ lock' = g => pc'[g] \in {"waiting", "inflight", "replied"}
             /\ pc'[g] = "waiting" =>
                  lock' = g \/ \E i \in DOMAIN waiters' : waiters'[i] = g
  <2>1. CASE {pc[g], pc'[g]} \cap {"waiting", "inflight", "replied"} = {}
    <3>1. pc[g] \notin {"waiting", "inflight", "replied"}
          /\ pc'[g] \notin {"waiting", "inflight", "replied"}
      BY <2>1
    <3> QED BY <3>1 DEF MutexInv
  <2> QED BY <2>1 DEF MutexInv
<1>3. \A i \in DOMAIN waiters' : pc'[waiters'[i]] = "waiting" /\ waiters'[i] # lock'
  <2> TAKE i \in DOMAIN waiters'
  <2>1. waiters[i] \in Handlers /\ pc[waiters[i]] = "waiting" /\ waiters[i] # lock
    BY <1>1 DEF MutexInv
  <2> QED BY <2>1
<1> QED BY <1>2, <1>3 DEF MutexInv

\* lock().await: a free mutex is taken, a held one waited for at the end of
\* the queue.
LEMMA MutexLock ==
  ASSUME TypeOK, MutexInv, NEW h \in Handlers, Lock(h)
  PROVE  MutexInv'
<1> USE DistinctAssumption
<1>1. /\ waiters \in Seq(Handlers) /\ Len(waiters) \in Nat
      /\ pc[h] = "checked" /\ pc'[h] = "waiting"
      /\ \A g \in Handlers : g # h => pc'[g] = pc[g]
  BY DEF TypeOK, Lock
<1>2. lock # h /\ \A i \in DOMAIN waiters : waiters[i] \in Handlers /\ waiters[i] # h
  BY <1>1 DEF MutexInv
<1>3. CASE lock = Free
  <2>1. lock' = h /\ waiters' = waiters /\ waiters = <<>> /\ DOMAIN waiters = {}
    BY <1>3 DEF Lock, MutexInv
  <2> QED BY <1>1, <1>3, <2>1 DEF MutexInv
<1>4. CASE lock # Free
  <2>1. /\ lock' = lock /\ waiters' = Append(waiters, h)
        /\ DOMAIN waiters = 1..Len(waiters)
        /\ DOMAIN waiters' = 1..(Len(waiters) + 1)
        /\ waiters'[Len(waiters) + 1] = h
        /\ \A i \in DOMAIN waiters : waiters'[i] = waiters[i]
    BY <1>1, <1>4 DEF Lock
  <2>2. \A i \in DOMAIN waiters' : i \in DOMAIN waiters \/ i = Len(waiters) + 1
    BY <1>1, <2>1
  <2>3. Len(waiters) + 1 \in DOMAIN waiters'
        /\ \A i \in DOMAIN waiters : i \in DOMAIN waiters'
    BY <1>1, <2>1
  <2>4. ASSUME NEW g \in Handlers
        PROVE  /\ pc'[g] \in {"inflight", "replied"} => lock' = g
               /\ lock' = g => pc'[g] \in {"waiting", "inflight", "replied"}
               /\ pc'[g] = "waiting" =>
                    lock' = g \/ \E i \in DOMAIN waiters' : waiters'[i] = g
    <3>1. CASE g = h
      BY <1>1, <1>2, <2>1, <2>3, <3>1
    <3>2. CASE g # h
      BY <1>1, <2>1, <2>3, <3>2 DEF MutexInv
    <3> QED BY <3>1, <3>2
  <2>5. \A i \in DOMAIN waiters' : pc'[waiters'[i]] = "waiting" /\ waiters'[i] # lock'
    BY <1>1, <1>2, <2>1, <2>2 DEF MutexInv
  <2>6. \A i, j \in DOMAIN waiters' : waiters'[i] = waiters'[j] => i = j
    BY <1>2, <2>1, <2>2 DEF MutexInv
  <2> QED BY <1>4, <2>1, <2>4, <2>5, <2>6 DEF MutexInv
<1> QED BY <1>3, <1>4

\* Every step keeps the mutex consistent.
LEMMA MutexNext == Inv /\ MutexInv /\ [Next]_vars => MutexInv'
<1> SUFFICES ASSUME Inv, MutexInv, [Next]_vars PROVE MutexInv'
  OBVIOUS
<1>1. TypeOK
  BY DEF Inv
<1>2. ASSUME NEW h \in Handlers, NEW r, Finish(h, r)
      PROVE  pc'[h] = "done" /\ \A g \in Handlers : g # h => pc'[g] = pc[g]
  BY <1>1, <1>2 DEF Finish, TypeOK
<1>3. ASSUME NEW h \in Handlers, NEW q \in Offered, Start(h, q) PROVE MutexInv'
  BY <1>1, <1>3, MutexUntouched DEF Start, TypeOK, connVars
<1>4. ASSUME NEW h \in Handlers, CheckClosed(h) PROVE MutexInv'
  <2>1. /\ pc[h] = "ready" /\ pc'[h] \in {"done", "checked"}
        /\ \A g \in Handlers : g # h => pc'[g] = pc[g]
        /\ UNCHANGED <<lock, waiters>>
    BY <1>1, <1>2, <1>4 DEF CheckClosed, TypeOK, connVars
  <2> QED BY <1>1, <2>1, MutexUntouched
<1>5. ASSUME NEW h \in Handlers, Send(h) PROVE MutexInv'
  <2>1. CASE ~conn
    BY <1>1, <1>2, <1>5, <2>1, MutexReleased DEF Send
  <2>2. CASE conn
    <3>1. /\ pc'[h] = "inflight" /\ lock = h
          /\ \A g \in Handlers : g # h => pc'[g] = pc[g]
          /\ UNCHANGED <<lock, waiters>>
      BY <1>1, <1>5, <2>2 DEF Send, TypeOK
    <3> QED BY <1>1, <3>1, MutexUntouched
  <2> QED BY <2>1, <2>2
<1>6. ASSUME NEW h \in Handlers, HandleReply(h) PROVE MutexInv'
  <2>1. lock = h /\ Release
    BY <1>6 DEF HandleReply, MutexInv
  <2>2. pc'[h] \in {"done", "ready"} /\ \A g \in Handlers : g # h => pc'[g] = pc[g]
    BY <1>1, <1>2, <1>6 DEF HandleReply, TypeOK
  <2> QED BY <1>1, <2>1, <2>2, MutexReleased
<1>7. ASSUME NEW h \in Handlers, ReplyFails(h) PROVE MutexInv'
  <2>1. lock = h /\ Release
    BY <1>7 DEF ReplyFails, MutexInv
  <2> QED BY <1>1, <1>2, <1>7, <2>1, MutexReleased DEF ReplyFails
<1>8. ASSUME NEW h \in Handlers, Canceled(h) PROVE MutexInv'
  <2>1. pc'[h] = "done" /\ \A g \in Handlers : g # h => pc'[g] = pc[g]
    BY <1>2, <1>8 DEF Canceled
  <2> QED BY <1>1, <1>8, <2>1, MutexReleased, MutexLeft DEF Canceled, Abandon
<1>9. ASSUME NEW h \in Handlers, Execute(h) PROVE MutexInv'
  <2>1. /\ pc'[h] = pc[h] \/ (pc[h] = "inflight" /\ pc'[h] = "replied")
        /\ \A g \in Handlers : g # h => pc'[g] = pc[g]
        /\ UNCHANGED <<lock, waiters>>
    BY <1>1, <1>9 DEF Execute, TypeOK
  <2>2. pc[h] = "inflight" => lock = h
    BY DEF MutexInv
  <2> QED BY <1>1, <2>1, <2>2, MutexUntouched
<1>10. CASE UNCHANGED <<pc, lock, waiters>>
  BY <1>1, <1>10, MutexUntouched
<1> QED
  BY <1>1, <1>3, <1>4, <1>5, <1>6, <1>7, <1>8, <1>9, <1>10, MutexLock
     DEF Next, HandlerStep, Lose, OtherClient, Close, ServiceDropped, handlerVars, connVars, vars

\* All commands go out one at a time under the mutex, and no handler that
\* waits for it is ever forgotten or queued twice, however handlers are
\* dropped while they hold it or wait.
THEOREM MutexSound == Spec => []LockExact
<1>1. Init => MutexInv
  BY DistinctAssumption DEF Init, MutexInv
<1>2. (Inv /\ MutexInv) /\ [Next]_vars => (Inv /\ MutexInv)'
  BY InvNext, MutexNext
<1>3. MutexInv => LockExact
  BY DEF MutexInv, LockExact
<1> QED BY <1>1, <1>2, <1>3, InvInit, PTL DEF Spec
=============================================================================
