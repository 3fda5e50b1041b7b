------------------------------- MODULE Server -------------------------------
(***************************************************************************)
(* The perk/v1 server of src/src/server.rs: the frame loop, the spawned    *)
(* tasks of the session methods, the in-flight registry, the sink with its *)
(* single writer task, and the shutdown sequence of `run`.                 *)
(*                                                                         *)
(* Four kinds of actors interleave on tokio's multi-threaded runtime: the  *)
(* frame loop, one task per accepted session request, the writer, and the  *)
(* host at the other end of the pipes.  A step is the code between two     *)
(* points where another thread can observe or change shared state (the     *)
(* registry mutex, the `open` flag, the channel, a token).  Reading a      *)
(* frame and the host's writing of it are one step: only the loop looks at *)
(* stdin, so a frame that waits in the pipe is as good as one not sent.    *)
(***************************************************************************)
EXTENDS Integers, Sequences

CONSTANTS
    Requests,    \* session requests the host may have accepted by the server
    WireId,      \* [Requests -> Int]: the JSON-RPC id each one carries
    IdWidth,     \* width of the registry key (64 in the code)
    MaxSessions, \* bound on opened sessions
    MaxFrames,   \* bound on frames answered by the loop itself
    NoRequest    \* an empty registry slot

ASSUME WireIdAssumption == WireId \in [Requests -> Int]
ASSUME IdWidthAssumption == IdWidth \in Nat
ASSUME MaxSessionsAssumption == MaxSessions \in Nat
ASSUME MaxFramesAssumption == MaxFrames \in Nat
ASSUME NoRequestAssumption == NoRequest \notin Requests
ASSUME FrameOwnersAssumption == {"initialize", "inline"} \cap Requests = {}

VARIABLES
    loop,        \* where the frame loop, then the shutdown sequence, stands
    verdict,     \* what ended the loop: a clean EOF or a terminal violation
    initialized, \* Server::initialized
    sessions,    \* keys of Server::sessions
    nextSession, \* Server::next_session_id
    registry,    \* Registry::inflight
    task,        \* program counter of each session request's task
    cancelled,   \* the CancellationToken of each request
    outcome,     \* what the task is about to answer
    sinkOpen,    \* Sink::open
    queue,       \* frames in the unbounded channel
    writer,      \* program counter of the writer task
    held,        \* the frame the writer has taken and not yet written
    aborted,     \* JoinHandle::abort was called on the writer
    stdout,      \* frames written to the host
    late         \* history: frames written after Sink::close returned

loopVars == <<loop, verdict, initialized, sessions, nextSession>>
taskVars == <<registry, task, cancelled, outcome>>
sinkVars == <<sinkOpen, queue, writer, held, aborted, stdout, late>>
vars == <<loopVars, taskVars, sinkVars>>

-----------------------------------------------------------------------------
(* Frames.  The payload is dropped; what stays is whom a frame answers and  *)
(* with which class of answer.                                              *)

\* "error" stands for every code but -32800: -32600, -32601, -32602 and the
\* codes of the service errors are not told apart.
HandlerAnswers == {"result", "error"}
Answers == HandlerAnswers \cup {"canceled"}

Frames == [re: Requests \cup {"initialize", "inline"}, answer: Answers]

\* The answer to the successful handshake, and those the loop gives inline.
Handshake == [re |-> "initialize", answer |-> "result"]
Inline(answer) == [re |-> "inline", answer |-> answer]
Reply(r, answer) == [re |-> r, answer |-> answer]

FramesFor(r, s) == {i \in DOMAIN s : s[i].re = r}

\* What was sent and not discarded, in order: written, held, queued.
Output == stdout \o held \o queue

-----------------------------------------------------------------------------
(* Sink                                                                     *)

\* Sink::send: a closed sink, like a channel whose receiver is gone, drops
\* the frame without telling the sender.
SinkSend(f) ==
    /\ queue' = IF sinkOpen /\ writer # "stopped" THEN Append(queue, f) ELSE queue
    /\ UNCHANGED <<sinkOpen, writer, held, aborted, stdout, late>>

-----------------------------------------------------------------------------
(* Registry                                                                 *)

\* The registry key of a request: its id read as an unsigned integer of
\* IdWidth bits.
Key(r) == WireId[r] % 2^IdWidth
Keys == {Key(r) : r \in Requests}

Insert(r) == [registry EXCEPT ![Key(r)] = r]

\* Mutant of Remove: the finished request stays registered.
RemoveForgotten(r) == registry

Remove(r) == [registry EXCEPT ![Key(r)] = NoRequest]

\* Mutant of CancelTarget: id 0 is taken for a missing id.
CancelTargetNonZero(id) ==
    IF id > 0 /\ id \in Keys THEN registry[id] ELSE NoRequest

\* The request whose token perk/v1/cancel reaches when it names this id:
\* CancelRequest::id is a u64, so a negative id does not even decode.
CancelTarget(id) ==
    IF id >= 0 /\ id \in Keys THEN registry[id] ELSE NoRequest

\* Mutant of CancelRegistered: the shutdown cancels nobody.
CancelNobody == cancelled

\* Registry::cancel_all.
CancelRegistered ==
    [r \in Requests |-> cancelled[r] \/ \E k \in Keys : registry[k] = r]

-----------------------------------------------------------------------------
(* handle_message: what a well-formed frame leads to                        *)

Methods == {"", "initialize", "cancel", "build_target", "open", "close",
            "session_method", "document_write", "unknown"}

Messages == [id: {"absent", "integer", "other"}, jsonrpc: BOOLEAN, method: Methods]

InvalidUnlessNotification(m) ==
    IF m.id = "absent" THEN "ignored" ELSE "rejected"

\* Mutant of BeforeInitialize: build_target needs no handshake.
BeforeInitializeLenient(m) ==
    IF m.method = "build_target" THEN "build_target" ELSE "rejected"

\* Requests other than initialize are refused until the handshake.
BeforeInitialize(m) == "rejected"

\* The branch handle_message takes: a handler, an inline error or nothing.
\* perk/v1/cancel sent as a request is an unknown method.
Disposition(m) ==
    CASE m.id = "other" -> "rejected"
      [] m.id # "other" /\ (~m.jsonrpc \/ m.method = "") -> InvalidUnlessNotification(m)
      [] m.id = "absent" /\ m.jsonrpc /\ m.method # "" ->
            IF m.method = "cancel" THEN "cancel" ELSE "ignored"
      [] m.id = "integer" /\ m.jsonrpc /\ m.method # "" ->
            IF ~initialized /\ m.method # "initialize" THEN BeforeInitialize(m)
            ELSE IF initialized /\ m.method = "initialize" THEN "rejected"
            ELSE IF m.method \in {"cancel", "document_write", "unknown"} THEN "rejected"
            ELSE m.method

\* The loop has read a frame with this disposition.
Receives(d) ==
    /\ loop = "reading"
    /\ \E m \in Messages : Disposition(m) = d

\* Bound: the loop answers at most MaxFrames frames itself.
InlineBudget ==
    Len(SelectSeq(Output, LAMBDA f : f.re \notin Requests)) < MaxFrames

AnswerInline(f) ==
    /\ InlineBudget
    /\ SinkSend(f)
    /\ UNCHANGED taskVars

RejectMessage ==
    /\ Receives("rejected")
    /\ AnswerInline(Inline("error"))
    /\ UNCHANGED loopVars

HandleInitialize ==
    /\ Receives("initialize")
    /\ \/ /\ initialized' = TRUE
          /\ AnswerInline(Handshake)
       \/ /\ AnswerInline(Inline("error"))  \* bad params or another version
          /\ UNCHANGED initialized
    /\ UNCHANGED <<loop, verdict, sessions, nextSession>>

HandleBuildTarget ==
    /\ Receives("build_target")
    /\ \E answer \in {"error", "result"} : AnswerInline(Inline(answer))
    /\ UNCHANGED loopVars

\* handle_open awaits the factory inline: until it returns, the loop reads
\* no frame, hence no cancel and no end of file either.
HandleOpen ==
    /\ Receives("open")
    /\ \/ /\ AnswerInline(Inline("error"))
          /\ UNCHANGED loop
       \/ /\ InlineBudget
          /\ loop' = "opening"
          /\ UNCHANGED <<taskVars, sinkVars>>
    /\ UNCHANGED <<verdict, initialized, sessions, nextSession>>

OpenFails ==
    /\ loop = "opening"
    /\ loop' = "reading"
    /\ AnswerInline(Inline("error"))
    /\ UNCHANGED <<verdict, initialized, sessions, nextSession>>

\* Mutant of NextSessionId: the counter is not advanced.
NextSessionIdStuck == nextSession

\* Session ids count up from 1 and are never given out again.
NextSessionId == nextSession + 1

\* Mutant of OpenSucceeds: the session gets the lowest id that is free.
OpenSucceedsLowestId ==
    /\ loop = "opening"
    /\ nextSession <= MaxSessions
    /\ loop' = "reading"
    /\ \E s \in 1..nextSession :
         /\ s \notin sessions /\ 1..(s - 1) \subseteq sessions
         /\ sessions' = sessions \cup {s}
    /\ nextSession' = NextSessionId
    /\ AnswerInline(Inline("result"))
    /\ UNCHANGED <<verdict, initialized>>

OpenSucceeds ==
    /\ loop = "opening"
    /\ nextSession <= MaxSessions
    /\ loop' = "reading"
    /\ sessions' = sessions \cup {nextSession}
    /\ nextSession' = NextSessionId
    /\ AnswerInline(Inline("result"))
    /\ UNCHANGED <<verdict, initialized>>

\* handle_close removes the session before its close hook runs; tasks that
\* already cloned the Arc keep running on it.
HandleClose ==
    /\ Receives("close")
    /\ \/ /\ AnswerInline(Inline("error"))
          /\ UNCHANGED sessions
       \/ \E s \in sessions :
            /\ sessions' = sessions \ {s}
            /\ AnswerInline(Inline("result"))
    /\ UNCHANGED <<loop, verdict, initialized, nextSession>>

RejectSessionMethod ==
    /\ Receives("session_method")
    /\ AnswerInline(Inline("error"))
    /\ UNCHANGED loopVars

\* The host is a JSON-RPC client: it does not reuse the id of a request it
\* has no answer to.
MayIssue(r) ==
    /\ task[r] = "unused"
    /\ \A q \in Requests \ {r} :
         WireId[q] = WireId[r] => task[q] = "unused" \/ FramesFor(q, stdout) # {}

SpawnSessionMethod(r) ==
    /\ Receives("session_method")
    /\ sessions # {}
    /\ MayIssue(r)
    /\ registry' = Insert(r)
    /\ task' = [task EXCEPT ![r] = "running"]
    /\ UNCHANGED <<loopVars, cancelled, outcome, sinkVars>>

\* Mutant of HandleCancel: the loop answers the canceled request itself.
HandleCancelAnswers(id) ==
    /\ Receives("cancel")
    /\ CancelTarget(id) # NoRequest
    /\ cancelled' = [cancelled EXCEPT ![CancelTarget(id)] = TRUE]
    /\ ~cancelled[CancelTarget(id)]
    /\ SinkSend(Reply(CancelTarget(id), "canceled"))
    /\ UNCHANGED <<loopVars, registry, task, outcome>>

\* An unknown id leaves everything as it is.
HandleCancel(id) ==
    /\ Receives("cancel")
    /\ CancelTarget(id) # NoRequest
    /\ cancelled' = [cancelled EXCEPT ![CancelTarget(id)] = TRUE]
    /\ UNCHANGED <<loopVars, registry, task, outcome, sinkVars>>

-----------------------------------------------------------------------------
(* The spawned task of one session request                                  *)

TaskMove(r, from, to) ==
    /\ loop # "exited"
    /\ task[r] = from
    /\ task' = [task EXCEPT ![r] = to]

\* run_session_method returns what the handler, or the decoding of its
\* params, produced.  When the token has fired too, select! may still pick
\* this branch.
HandlerReturns(r) ==
    /\ TaskMove(r, "running", "returned")
    /\ \E answer \in HandlerAnswers : outcome' = [outcome EXCEPT ![r] = answer]
    /\ UNCHANGED <<loopVars, registry, cancelled, sinkVars>>

\* Mutant of HandlerCanceled: the handler is not raced against its token.
HandlerNeverCanceled(r) == FALSE /\ UNCHANGED vars

\* select! picks token.cancelled(): the handler's future is dropped.
HandlerCanceled(r) ==
    /\ cancelled[r]
    /\ TaskMove(r, "running", "returned")
    /\ outcome' = [outcome EXCEPT ![r] = "canceled"]
    /\ UNCHANGED <<loopVars, registry, cancelled, sinkVars>>

\* Mutant of FinalOutcome: the late cancel is not looked at.
FinalOutcomeNoRecheck(r) == outcome[r]

\* A handler that finishes after the cancel fired is answered -32800
\* regardless.
FinalOutcome(r) == IF cancelled[r] THEN "canceled" ELSE outcome[r]

Decide(r) ==
    /\ TaskMove(r, "returned", "decided")
    /\ outcome' = [outcome EXCEPT ![r] = FinalOutcome(r)]
    /\ UNCHANGED <<loopVars, registry, cancelled, sinkVars>>

\* Mutant of SendResponse: a canceled request is dropped silently.
SendResponseUnlessCanceled(r) ==
    /\ TaskMove(r, "decided", "answered")
    /\ IF outcome[r] = "canceled" THEN UNCHANGED sinkVars
                                 ELSE SinkSend(Reply(r, outcome[r]))
    /\ UNCHANGED <<loopVars, registry, cancelled, outcome>>

SendResponse(r) ==
    /\ TaskMove(r, "decided", "answered")
    /\ SinkSend(Reply(r, outcome[r]))
    /\ UNCHANGED <<loopVars, registry, cancelled, outcome>>

RemoveRequest(r) ==
    /\ TaskMove(r, "answered", "done")
    /\ registry' = Remove(r)
    /\ UNCHANGED <<loopVars, cancelled, outcome, sinkVars>>

-----------------------------------------------------------------------------
(* The writer task                                                          *)

\* Mutant of GateOpen: the writer does not look at the flag.
GateIgnored == TRUE

\* The writer's own check of `open` for the frame it has received.
GateOpen == sinkOpen

\* rx.recv() yields a frame and `open` is loaded.
WriterAdmit ==
    /\ loop # "exited"
    /\ writer = "idle" /\ queue # <<>> /\ GateOpen
    /\ writer' = "admitted"
    /\ held' = <<Head(queue)>>
    /\ queue' = Tail(queue)
    /\ UNCHANGED <<loopVars, taskVars, sinkOpen, aborted, stdout, late>>

WriterDiscard ==
    /\ loop # "exited"
    /\ writer = "idle" /\ queue # <<>> /\ ~GateOpen
    /\ queue' = Tail(queue)
    /\ UNCHANGED <<loopVars, taskVars, sinkOpen, writer, held, aborted, stdout, late>>

\* write_all and flush.  DirectStdout never yields, so an abort does not
\* interrupt them.
WriterWrite ==
    /\ loop # "exited"
    /\ writer = "admitted"
    /\ writer' = "idle"
    /\ stdout' = stdout \o held
    /\ held' = <<>>
    /\ late' = IF sinkOpen THEN late ELSE late + 1
    /\ UNCHANGED <<loopVars, taskVars, sinkOpen, queue, aborted>>

\* The writer ends and drops the receiver with what is queued, on an I/O
\* error (`?`) or because it was aborted while parked in recv.
WriterStops ==
    /\ loop # "exited"
    /\ writer = "admitted" \/ (writer = "idle" /\ aborted)
    /\ writer' = "stopped"
    /\ held' = <<>>
    /\ queue' = <<>>
    /\ UNCHANGED <<loopVars, taskVars, sinkOpen, aborted, stdout, late>>

-----------------------------------------------------------------------------
(* The end of the loop, the rest of `run`, and main                         *)

\* Mutant of ServeReturns: the terminal condition does not end the loop.
ServeContinues ==
    /\ loop = "reading"
    /\ verdict' \in {"eof", "violation"}
    /\ UNCHANGED <<loop, initialized, sessions, nextSession, taskVars, sinkVars>>

\* serve returns: end of file, or a frame that is oversized, not UTF-8, not
\* JSON or not an object.
ServeReturns ==
    /\ loop = "reading"
    /\ loop' = "cancelling"
    /\ verdict' \in {"eof", "violation"}
    /\ UNCHANGED <<initialized, sessions, nextSession, taskVars, sinkVars>>

CancelAll ==
    /\ loop = "cancelling"
    /\ loop' = "closing"
    /\ cancelled' = CancelRegistered
    /\ UNCHANGED <<verdict, initialized, sessions, nextSession,
                   registry, task, outcome, sinkVars>>

CloseSink ==
    /\ loop = "closing"
    /\ loop' = "aborting"
    /\ sinkOpen' = FALSE
    /\ UNCHANGED <<verdict, initialized, sessions, nextSession, taskVars,
                   queue, writer, held, aborted, stdout, late>>

AbortWriter ==
    /\ loop = "aborting"
    /\ loop' = "returned"
    /\ aborted' = TRUE
    /\ UNCHANGED <<verdict, initialized, sessions, nextSession, taskVars,
                   sinkOpen, queue, writer, held, stdout, late>>

\* Nothing is in the middle of a poll: every task and the writer are parked.
Parked ==
    /\ writer # "admitted"
    /\ \A r \in Requests : task[r] \in {"unused", "running", "done"}

\* main: after a clean end the runtime's drop waits for the polls under way
\* and drops the parked tasks; after a violation exit(1) waits for nothing.
Exit ==
    /\ loop = "returned"
    /\ verdict = "eof" => Parked
    /\ loop' = "exited"
    /\ UNCHANGED <<verdict, initialized, sessions, nextSession, taskVars, sinkVars>>

Exited == loop = "exited" /\ UNCHANGED vars

-----------------------------------------------------------------------------
Init ==
    /\ loop = "reading"
    /\ verdict = "none"
    /\ initialized = FALSE
    /\ sessions = {}
    /\ nextSession = 1
    /\ registry = [k \in Keys |-> NoRequest]
    /\ task = [r \in Requests |-> "unused"]
    /\ cancelled = [r \in Requests |-> FALSE]
    /\ outcome = [r \in Requests |-> "error"]
    /\ sinkOpen = TRUE
    /\ queue = <<>>
    /\ writer = "idle"
    /\ held = <<>>
    /\ aborted = FALSE
    /\ stdout = <<>>
    /\ late = 0

LoopStep ==
    \/ RejectMessage \/ HandleInitialize \/ HandleBuildTarget
    \/ HandleOpen \/ OpenFails \/ OpenSucceeds \/ HandleClose
    \/ RejectSessionMethod
    \/ \E r \in Requests : SpawnSessionMethod(r)
    \/ \E id \in Keys : HandleCancel(id)
    \/ ServeReturns

TaskStep(r) ==
    \/ HandlerReturns(r) \/ HandlerCanceled(r)
    \/ Decide(r) \/ SendResponse(r) \/ RemoveRequest(r)

WriterStep == WriterAdmit \/ WriterDiscard \/ WriterWrite \/ WriterStops

ShutdownStep == CancelAll \/ CloseSink \/ AbortWriter \/ Exit

Next ==
    \/ LoopStep
    \/ \E r \in Requests : TaskStep(r)
    \/ WriterStep
    \/ ShutdownStep
    \/ Exited

Spec == Init /\ [][Next]_vars

\* A task that can leave its await does so: cancellation wakes it, and from
\* there to the end of the task the code does not block.  The handler itself
\* waits for Redis and is under no fairness, nor is the factory's open.
TaskProgress(r) ==
    HandlerCanceled(r) \/ Decide(r) \/ SendResponse(r) \/ RemoveRequest(r)

\* The writer runs, and the host keeps reading stdout.
WriterProgress == WriterAdmit \/ WriterDiscard \/ WriterWrite

Fairness ==
    /\ \A r \in Requests : WF_vars(TaskProgress(r))
    /\ WF_vars(WriterProgress)
    /\ WF_vars(ShutdownStep)

FairSpec == Spec /\ Fairness

-----------------------------------------------------------------------------
(* Properties                                                               *)

LoopStates == {"reading", "opening", "cancelling", "closing", "aborting",
               "returned", "exited"}
TaskStates == {"unused", "running", "returned", "decided", "answered", "done"}

\* Every variable keeps its type; session ids in use were given out by the
\* counter of handle_open, and the writer holds a frame exactly between its
\* check of `open` and the end of its write.
TypeOK ==
    /\ loop \in LoopStates
    /\ verdict \in {"none", "eof", "violation"}
    /\ initialized \in BOOLEAN
    /\ nextSession \in Nat \ {0}
    /\ sessions \subseteq 1..(nextSession - 1)
    /\ registry \in [Keys -> Requests \cup {NoRequest}]
    /\ task \in [Requests -> TaskStates]
    /\ cancelled \in [Requests -> BOOLEAN]
    /\ outcome \in [Requests -> Answers]
    /\ sinkOpen \in BOOLEAN
    /\ queue \in Seq(Frames)
    /\ writer \in {"idle", "admitted", "stopped"}
    /\ held \in Seq(Frames)
    /\ Len(held) = IF writer = "admitted" THEN 1 ELSE 0
    /\ aborted \in BOOLEAN
    /\ stdout \in Seq(Frames)
    /\ late \in Nat

Inflight(r) == task[r] \in {"running", "returned", "decided", "answered"}

\* A request is answered once: no second frame for it ever enters the sink,
\* and its frame is missing only when the sink was closed under it or the
\* writer is gone (spawned task of spawn_session_method, Sink::send).
AnsweredOnce ==
    \A r \in Requests :
        /\ \A i, j \in FramesFor(r, Output) : i = j
        /\ FramesFor(r, Output) # {} => task[r] \in {"answered", "done"}
        /\ task[r] \in {"answered", "done"} /\ sinkOpen /\ writer # "stopped"
             => FramesFor(r, Output) # {}

\* A cancel that names the original id of a request whose handler is still
\* running reaches that request's token (Registry, handle_cancel), unless the
\* id is negative: then it reaches no request at all.
OriginalIdCancels ==
    \A r \in Requests : task[r] = "running" =>
        CancelTarget(WireId[r]) = IF WireId[r] >= 0 THEN r ELSE NoRequest

\* The registry holds exactly the tokens of the tasks that have not removed
\* themselves: nothing leaks, and nobody's entry is taken by another task.
RegistryExact ==
    \A r \in Requests : \A k \in Keys :
        registry[k] = r <=> Inflight(r) /\ k = Key(r)

\* Once cancel_all has run, every handler still awaiting has had its token
\* fired: the shutdown of `run` leaves no handler that nobody told.
ShutdownCancels ==
    loop \in {"closing", "aborting", "returned", "exited"} =>
        \A r \in Requests : task[r] = "running" => cancelled[r]

\* Of the frames queued or held when Sink::close returns, at most the one
\* the writer had already admitted still reaches stdout: the close does not
\* gate all further output, but all of it except that frame.
AtMostOneLateFrame == late <= 1

\* The host sees the handshake's result before any other result and before
\* any answer of a session method, and sees it once.
HandshakeFirst ==
    /\ \A i \in DOMAIN stdout :
         stdout[i].answer = "result" \/ stdout[i].re \in Requests =>
            \E j \in 1..i : stdout[j] = Handshake
    /\ \A i, j \in FramesFor("initialize", stdout) : i = j

\* A session id that was closed never names a session again.
SessionIdsNeverReused ==
    [][\A s \in 1..MaxSessions :
         s < nextSession /\ s \notin sessions => s \notin sessions']_vars

\* A request whose token fired while its handler was still running is never
\* answered anything but -32800, however the race of select! ends.
CancelWins ==
    \A r \in Requests :
        [](task[r] = "running" /\ cancelled[r] =>
             [](\A i \in FramesFor(r, Output) : Output[i].answer = "canceled"))

\* Something ends the exchange with the host: the loop is over or the writer
\* has failed.
Ended == verdict # "none" \/ writer = "stopped"

\* A request canceled while its handler runs is answered -32800 on stdout,
\* even if Redis never replies.
CancelAnswered ==
    \A r \in Requests :
        task[r] = "running" /\ cancelled[r] ~>
            Ended \/ \E i \in DOMAIN stdout : stdout[i] = Reply(r, "canceled")

\* What a handler returned reaches the host.
AnswerDelivered ==
    \A r \in Requests :
        task[r] = "returned" ~> Ended \/ FramesFor(r, stdout) # {}

\* After end of file or a terminal violation the process exits, whatever
\* its handlers are waiting for.
ShutdownCompletes == verdict # "none" ~> loop = "exited"
=============================================================================
