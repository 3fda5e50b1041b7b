---------------------------- MODULE ServerProofs ----------------------------
(***************************************************************************)
(* Machine-checked proofs about Server, for every set of requests, every   *)
(* assignment of ids and every bound.                                      *)
(***************************************************************************)
EXTENDS Server, TLAPS

\* The key of a request is one of the registry's keys.
LEMMA KeyInKeys == \A r \in Requests : Key(r) \in Keys
  BY DEF Keys

\* Sending keeps the channel a sequence of frames and touches nothing else.
LEMMA SinkSendType ==
  ASSUME TypeOK, NEW f \in Frames, SinkSend(f)
  PROVE  /\ queue' \in Seq(Frames)
         /\ UNCHANGED <<sinkOpen, writer, held, aborted, stdout, late>>
  BY DEF SinkSend, TypeOK

\* The frames the loop and the tasks build are frames.
LEMMA FrameType ==
  /\ Handshake \in Frames
  /\ \A a \in Answers : Inline(a) \in Frames
  /\ \A r \in Requests, a \in Answers : Reply(r, a) \in Frames
  BY DEF Handshake, Inline, Reply, Frames, Answers, HandlerAnswers

\* An inline answer of the frame loop keeps the types of sink and tasks.
LEMMA AnswerInlineType ==
  ASSUME TypeOK, NEW f \in Frames, AnswerInline(f)
  PROVE  /\ queue' \in Seq(Frames)
         /\ UNCHANGED <<sinkOpen, writer, held, aborted, stdout, late, taskVars>>
  BY SinkSendType DEF AnswerInline

\* Every step of the frame loop keeps every variable in its type.
LEMMA LoopStepType ==
  ASSUME TypeOK, LoopStep
  PROVE  TypeOK'
<1>1. CASE RejectMessage
  <2>1. Inline("error") \in Frames
    BY FrameType DEF Answers, HandlerAnswers
  <2> QED BY <1>1, <2>1, AnswerInlineType DEF RejectMessage, TypeOK, loopVars, taskVars
<1>2. CASE HandleInitialize
  <2>1. Inline("error") \in Frames /\ Handshake \in Frames
    BY FrameType DEF Answers, HandlerAnswers
  <2> QED BY <1>2, <2>1, AnswerInlineType DEF HandleInitialize, TypeOK, loopVars, taskVars
<1>3. CASE HandleBuildTarget
  <2>1. \A a \in {"error", "result"} : Inline(a) \in Frames
    BY FrameType DEF Answers, HandlerAnswers
  <2> QED BY <1>3, <2>1, AnswerInlineType DEF HandleBuildTarget, TypeOK, loopVars, taskVars
<1>4. CASE HandleOpen
  <2>1. Inline("error") \in Frames
    BY FrameType DEF Answers, HandlerAnswers
  <2> QED BY <1>4, <2>1, AnswerInlineType
          DEF HandleOpen, TypeOK, loopVars, taskVars, sinkVars, LoopStates
<1>5. CASE OpenFails
  <2>1. Inline("error") \in Frames
    BY FrameType DEF Answers, HandlerAnswers
  <2> QED BY <1>5, <2>1, AnswerInlineType DEF OpenFails, TypeOK, taskVars, LoopStates
<1>6. CASE OpenSucceeds
  <2>1. Inline("result") \in Frames
    BY FrameType DEF Answers, HandlerAnswers
  <2> QED BY <1>6, <2>1, AnswerInlineType
          DEF OpenSucceeds, NextSessionId, TypeOK, taskVars, LoopStates
<1>7. CASE HandleClose
  <2>1. Inline("error") \in Frames /\ Inline("result") \in Frames
    BY FrameType DEF Answers, HandlerAnswers
  <2> QED BY <1>7, <2>1, AnswerInlineType DEF HandleClose, TypeOK, taskVars
<1>8. CASE RejectSessionMethod
  <2>1. Inline("error") \in Frames
    BY FrameType DEF Answers, HandlerAnswers
  <2> QED BY <1>8, <2>1, AnswerInlineType DEF RejectSessionMethod, TypeOK, loopVars, taskVars
<1>9. ASSUME NEW r \in Requests, SpawnSessionMethod(r) PROVE TypeOK'
  BY <1>9, KeyInKeys DEF SpawnSessionMethod, Insert, TypeOK, TaskStates, loopVars, sinkVars
<1>10. ASSUME NEW id \in Keys, HandleCancel(id) PROVE TypeOK'
  BY <1>10 DEF HandleCancel, CancelTarget, TypeOK, loopVars, sinkVars
<1>11. CASE ServeReturns
  BY <1>11 DEF ServeReturns, TypeOK, LoopStates, taskVars, sinkVars
<1> QED
  BY <1>1, <1>2, <1>3, <1>4, <1>5, <1>6, <1>7, <1>8, <1>9, <1>10, <1>11 DEF LoopStep

\* Every step of a spawned task keeps every variable in its type.
LEMMA TaskStepType ==
  ASSUME TypeOK, NEW r \in Requests, TaskStep(r)
  PROVE  TypeOK'
<1>1. CASE HandlerReturns(r)
  BY <1>1 DEF HandlerReturns, TaskMove, TypeOK, TaskStates, HandlerAnswers, Answers,
              loopVars, sinkVars
<1>2. CASE HandlerCanceled(r)
  BY <1>2 DEF HandlerCanceled, TaskMove, TypeOK, TaskStates, Answers, loopVars, sinkVars
<1>3. CASE Decide(r)
  BY <1>3 DEF Decide, FinalOutcome, TaskMove, TypeOK, TaskStates, Answers, loopVars, sinkVars
<1>4. CASE SendResponse(r)
  <2>1. Reply(r, outcome[r]) \in Frames
    BY FrameType DEF TypeOK
  <2> QED BY <1>4, <2>1, SinkSendType DEF SendResponse, TaskMove, TypeOK, TaskStates, loopVars
<1>5. CASE RemoveRequest(r)
  BY <1>5, KeyInKeys DEF RemoveRequest, Remove, TaskMove, TypeOK, TaskStates, loopVars, sinkVars
<1> QED BY <1>1, <1>2, <1>3, <1>4, <1>5 DEF TaskStep

\* Every step of the writer keeps every variable in its type.
LEMMA WriterStepType ==
  ASSUME TypeOK, WriterStep
  PROVE  TypeOK'
<1>1. CASE WriterAdmit
  <2>1. Head(queue) \in Frames /\ Tail(queue) \in Seq(Frames)
    BY <1>1 DEF WriterAdmit, TypeOK
  <2>2. <<Head(queue)>> \in Seq(Frames) /\ Len(<<Head(queue)>>) = 1
    BY <2>1
  <2> QED BY <1>1, <2>1, <2>2 DEF WriterAdmit, TypeOK, loopVars, taskVars
<1>2. CASE WriterDiscard
  BY <1>2 DEF WriterDiscard, TypeOK, loopVars, taskVars
<1>3. CASE WriterWrite
  BY <1>3 DEF WriterWrite, TypeOK, loopVars, taskVars
<1>4. CASE WriterStops
  BY <1>4 DEF WriterStops, TypeOK, loopVars, taskVars
<1> QED BY <1>1, <1>2, <1>3, <1>4 DEF WriterStep

\* Every step of the shutdown keeps every variable in its type.
LEMMA ShutdownStepType ==
  ASSUME TypeOK, ShutdownStep
  PROVE  TypeOK'
<1>1. CASE CancelAll
  BY <1>1 DEF CancelAll, CancelRegistered, TypeOK, LoopStates, sinkVars
<1>2. CASE CloseSink
  BY <1>2 DEF CloseSink, TypeOK, LoopStates, taskVars
<1>3. CASE AbortWriter
  BY <1>3 DEF AbortWriter, TypeOK, LoopStates, taskVars
<1>4. CASE Exit
  BY <1>4 DEF Exit, TypeOK, LoopStates, taskVars, sinkVars
<1> QED BY <1>1, <1>2, <1>3, <1>4 DEF ShutdownStep

\* A step that changes no variable keeps the types.
LEMMA StutterType ==
  ASSUME TypeOK, UNCHANGED vars
  PROVE  TypeOK'
  BY DEF TypeOK, vars, loopVars, taskVars, sinkVars

\* So does every step of loop, tasks, writer and shutdown.
LEMMA NextType == TypeOK /\ [Next]_vars => TypeOK'
<1> SUFFICES ASSUME TypeOK, [Next]_vars PROVE TypeOK'
  OBVIOUS
<1> QED BY LoopStepType, TaskStepType, WriterStepType, ShutdownStepType, StutterType
        DEF Next, Exited

\* Server::new and the set-up of `run` establish the types.
LEMMA InitType == Init => TypeOK
<1> SUFFICES ASSUME Init PROVE TypeOK
  OBVIOUS
<1>1. <<>> \in Seq(Frames) /\ Len(<<>>) = 0
  OBVIOUS
<1>2. queue \in Seq(Frames) /\ held \in Seq(Frames) /\ stdout \in Seq(Frames)
      /\ Len(held) = 0
  BY <1>1 DEF Init
<1>3. cancelled \in [Requests -> BOOLEAN]
  BY Zenon DEF Init
<1>4. registry \in [Keys -> Requests \cup {NoRequest}]
  BY DEF Init
<1>5. task \in [Requests -> TaskStates] /\ outcome \in [Requests -> Answers]
  BY DEF Init, TaskStates, Answers, HandlerAnswers
<1>6. sessions \subseteq 1..(nextSession - 1) /\ nextSession \in Nat \ {0} /\ late \in Nat
  BY DEF Init
<1>7. Len(held) = IF writer = "admitted" THEN 1 ELSE 0
  BY <1>2 DEF Init
<1>8. loop \in LoopStates /\ verdict \in {"none", "eof", "violation"}
      /\ writer \in {"idle", "admitted", "stopped"}
  BY DEF Init, LoopStates
<1>9. initialized \in BOOLEAN /\ sinkOpen \in BOOLEAN /\ aborted \in BOOLEAN
  BY Zenon DEF Init
<1> QED BY <1>2, <1>3, <1>4, <1>5, <1>6, <1>7, <1>8, <1>9 DEF TypeOK

\* Every variable of the server always has its type: session ids come from
\* the counter, and the writer holds a frame exactly while it writes.
THEOREM TypeCorrect == Spec => []TypeOK
  BY InitType, NextType, PTL DEF Spec

-----------------------------------------------------------------------------
(* The registry                                                             *)

\* No two requests share a registry key: the host never reuses an id.
DistinctKeys == \A q, r \in Requests : Key(q) = Key(r) => q = r

\* An id that is not negative fits the registry key.
IdsFit == \A r \in Requests : WireId[r] >= 0 => Key(r) = WireId[r]

\* cancel_all reached every handler still awaiting, and no task starts after.
RegistryInv == TypeOK /\ RegistryExact /\ ShutdownCancels

\* Steps that change neither registry nor tasks nor tokens, and stay on the
\* same side of cancel_all, keep the registry's invariant.
LEMMA RegistryFrame ==
  ASSUME RegistryInv, TypeOK', UNCHANGED taskVars,
         loop' \in {"closing", "aborting", "returned", "exited"}
            => loop \in {"closing", "aborting", "returned", "exited"}
  PROVE  RegistryInv'
  BY DEF RegistryInv, RegistryExact, ShutdownCancels, Inflight, taskVars

\* Every step keeps the registry exact: only spawn_session_method inserts and
\* only the task that was inserted removes.
LEMMA RegistryNext ==
  ASSUME DistinctKeys, RegistryInv, [Next]_vars
  PROVE  RegistryInv'
<1>1. TypeOK /\ TypeOK'
  BY NextType DEF RegistryInv
<1>2. ASSUME NEW r \in Requests, SpawnSessionMethod(r) PROVE RegistryInv'
  <2>1. Key(r) \in Keys /\ \A q \in Requests : Key(q) = Key(r) => q = r
    BY KeyInKeys DEF DistinctKeys
  <2>2. loop' = "reading" /\ task[r] = "unused"
    BY <1>2 DEF SpawnSessionMethod, Receives, MayIssue, loopVars
  <2>3. RegistryExact'
    BY <1>1, <1>2, <2>1, <2>2, NoRequestAssumption
       DEF RegistryInv, RegistryExact, SpawnSessionMethod, Insert, Inflight, TypeOK, TaskStates
  <2> QED BY <1>1, <2>2, <2>3 DEF RegistryInv, ShutdownCancels
<1>3. ASSUME NEW id \in Keys, HandleCancel(id) PROVE RegistryInv'
  <2>1. loop' = "reading"
    BY <1>3 DEF HandleCancel, Receives, loopVars
  <2> QED BY <1>1, <1>3, <2>1
          DEF RegistryInv, RegistryExact, ShutdownCancels, HandleCancel, Inflight
<1>4. ASSUME NEW r \in Requests, TaskStep(r) PROVE RegistryInv'
  <2>1. CASE HandlerReturns(r) \/ HandlerCanceled(r) \/ Decide(r) \/ SendResponse(r)
    <3>1. /\ task \in [Requests -> TaskStates]
          /\ \E to \in {"returned", "decided", "answered"} : task' = [task EXCEPT ![r] = to]
          /\ task[r] \in {"running", "returned", "decided"}
          /\ UNCHANGED <<loop, registry, cancelled>>
      BY <1>1, <2>1 DEF HandlerReturns, HandlerCanceled, Decide, SendResponse, TaskMove,
                        loopVars, TypeOK
    <3>2. \A q \in Requests : /\ Inflight(q)' <=> Inflight(q)
                              /\ task'[q] = "running" => task[q] = "running"
      BY <3>1 DEF Inflight
    <3>3. RegistryExact'
      BY <3>1, <3>2 DEF RegistryInv, RegistryExact
    <3>4. ShutdownCancels'
      BY <3>1, <3>2 DEF RegistryInv, ShutdownCancels
    <3> QED BY <1>1, <3>3, <3>4 DEF RegistryInv
  <2>2. CASE RemoveRequest(r)
    <3>1. \A q \in Requests : Key(q) = Key(r) => q = r
      BY DEF DistinctKeys
    <3>2. RegistryExact'
      BY <1>1, <2>2, <3>1, NoRequestAssumption
         DEF RegistryInv, RegistryExact, RemoveRequest, Remove, TaskMove, Inflight, TypeOK
    <3>3. ShutdownCancels'
      BY <1>1, <2>2 DEF RegistryInv, ShutdownCancels, RemoveRequest, TaskMove, TypeOK, loopVars
    <3> QED BY <1>1, <3>2, <3>3 DEF RegistryInv
  <2> QED BY <1>4, <2>1, <2>2 DEF TaskStep
<1>5. CASE CancelAll
  <2>1. \A r \in Requests : task[r] = "running" => cancelled'[r]
    BY <1>1, <1>5, KeyInKeys
       DEF CancelAll, CancelRegistered, RegistryInv, RegistryExact, Inflight
  <2> QED BY <1>1, <1>5, <2>1
          DEF CancelAll, RegistryInv, RegistryExact, ShutdownCancels, Inflight
<1>6. CASE RejectMessage \/ HandleInitialize \/ HandleBuildTarget \/ HandleOpen
           \/ OpenFails \/ OpenSucceeds \/ HandleClose \/ RejectSessionMethod
           \/ ServeReturns
  <2>1. UNCHANGED taskVars /\ loop' \in {"reading", "opening", "cancelling"}
    BY <1>6 DEF RejectMessage, HandleInitialize, HandleBuildTarget, HandleOpen, OpenFails,
       OpenSucceeds, HandleClose, RejectSessionMethod, ServeReturns, AnswerInline, Receives,
       loopVars
  <2> QED BY <1>1, <2>1, RegistryFrame
<1>7. CASE WriterStep \/ CloseSink \/ AbortWriter \/ Exit \/ UNCHANGED vars
  <2>1. UNCHANGED taskVars
        /\ (loop' = loop \/ loop \in {"closing", "aborting", "returned", "exited"})
    BY <1>7 DEF WriterStep, WriterAdmit, WriterDiscard, WriterWrite, WriterStops, CloseSink,
       AbortWriter, Exit, loopVars, vars
  <2> QED BY <1>1, <2>1, RegistryFrame
<1> QED
  BY <1>2, <1>3, <1>4, <1>5, <1>6, <1>7
     DEF Next, LoopStep, WriterStep, ShutdownStep, Exited

\* The registry starts empty, with no task in flight.
LEMMA RegistryInit == Init => RegistryInv
<1> SUFFICES ASSUME Init PROVE RegistryInv
  OBVIOUS
<1> QED BY InitType, NoRequestAssumption
        DEF Init, RegistryInv, RegistryExact, ShutdownCancels, Inflight

\* The registry invariant of all reachable states.
LEMMA RegistryAlways == DistinctKeys => (Spec => []RegistryInv)
<1> SUFFICES ASSUME DistinctKeys PROVE Spec => []RegistryInv
  OBVIOUS
<1>1. RegistryInv /\ [Next]_vars => RegistryInv'
  BY RegistryNext
<1> QED BY RegistryInit, <1>1, PTL DEF Spec

\* With ids that are never reused, the registry holds exactly the tokens of
\* the tasks that have not removed themselves.
THEOREM RegistryIsExact == DistinctKeys => (Spec => []RegistryExact)
<1>1. RegistryInv => RegistryExact
  BY DEF RegistryInv
<1> QED BY RegistryAlways, <1>1, PTL

\* With ids that are never reused, cancel_all leaves no handler awaiting with
\* an unfired token.
THEOREM ShutdownReachesAll == DistinctKeys => (Spec => []ShutdownCancels)
<1>1. RegistryInv => ShutdownCancels
  BY DEF RegistryInv
<1> QED BY RegistryAlways, <1>1, PTL

\* With ids that are never reused, perk/v1/cancel reaches the token of any
\* request whose handler is running, except that a negative id names none.
THEOREM CancelReachesHandler ==
  DistinctKeys /\ IdsFit => (Spec => []OriginalIdCancels)
<1> SUFFICES ASSUME DistinctKeys, IdsFit PROVE Spec => []OriginalIdCancels
  OBVIOUS
<1>1. RegistryInv => OriginalIdCancels
  BY KeyInKeys DEF RegistryInv, RegistryExact, OriginalIdCancels, CancelTarget, Inflight,
                   IdsFit
<1> QED BY RegistryAlways, <1>1, PTL

-----------------------------------------------------------------------------
(* The closed sink                                                          *)

\* The frame the writer admitted before the close is the only one that can
\* follow it.
LateInv ==
  /\ TypeOK
  /\ late <= 1
  /\ sinkOpen \/ writer = "admitted" => late = 0

\* Every step keeps the bound on late frames: once `open` is false the writer
\* admits nothing, so only the frame it held can still be written.
LEMMA LateNext == LateInv /\ [Next]_vars => LateInv'
<1> SUFFICES ASSUME LateInv, [Next]_vars PROVE LateInv'
  OBVIOUS
<1>1. TypeOK /\ TypeOK'
  BY NextType DEF LateInv
<1>2. CASE WriterWrite
  <2>1. late = 0 /\ late' \in {0, 1} /\ (sinkOpen' => late' = 0) /\ writer' = "idle"
    BY <1>1, <1>2 DEF WriterWrite, LateInv, TypeOK
  <2> QED BY <1>1, <2>1 DEF LateInv
<1>3. CASE WriterAdmit \/ WriterDiscard \/ WriterStops
  <2>1. UNCHANGED <<sinkOpen, late>>
    BY <1>3 DEF WriterAdmit, WriterDiscard, WriterStops
  <2>2. writer' = "admitted" => sinkOpen \/ writer = "admitted"
    BY <1>3 DEF WriterAdmit, WriterDiscard, WriterStops, GateOpen
  <2> QED BY <1>1, <2>1, <2>2 DEF LateInv
<1>4. CASE ShutdownStep \/ UNCHANGED vars
  BY <1>1, <1>4 DEF ShutdownStep, CancelAll, CloseSink, AbortWriter, Exit, LateInv,
                    sinkVars, vars
<1>5. CASE LoopStep
  <2>1. UNCHANGED <<sinkOpen, writer, late>>
    BY <1>5 DEF LoopStep, RejectMessage, HandleInitialize, HandleBuildTarget, HandleOpen,
       OpenFails, OpenSucceeds, HandleClose, RejectSessionMethod, SpawnSessionMethod,
       HandleCancel, ServeReturns, AnswerInline, SinkSend, sinkVars
  <2> QED BY <1>1, <2>1 DEF LateInv
<1>6. ASSUME NEW r \in Requests, TaskStep(r) PROVE LateInv'
  <2>1. UNCHANGED <<sinkOpen, writer, late>>
    BY <1>6 DEF TaskStep, HandlerReturns, HandlerCanceled, Decide, SendResponse,
       RemoveRequest, SinkSend, sinkVars
  <2> QED BY <1>1, <2>1 DEF LateInv
<1> QED BY <1>2, <1>3, <1>4, <1>5, <1>6 DEF Next, WriterStep, Exited

\* At most one frame reaches stdout after Sink::close.
THEOREM LateFrameBound == Spec => []AtMostOneLateFrame
<1>1. Init => LateInv
  BY InitType DEF Init, LateInv
<1>2. LateInv => AtMostOneLateFrame
  BY DEF LateInv, AtMostOneLateFrame
<1> QED BY <1>1, <1>2, LateNext, PTL DEF Spec

-----------------------------------------------------------------------------
(* Sessions                                                                 *)

\* No step gives a closed session's id to another session.
THEOREM SessionIdsFresh == Spec => SessionIdsNeverReused
<1> DEFINE Kept == \A s \in 1..MaxSessions :
                     s < nextSession /\ s \notin sessions => s \notin sessions'
<1>1. ASSUME TypeOK, [Next]_vars PROVE [Kept]_vars
  <2>1. CASE OpenSucceeds
    BY <1>1, <2>1, MaxSessionsAssumption DEF OpenSucceeds, TypeOK
  <2>2. CASE HandleClose
    BY <2>2 DEF HandleClose
  <2>3. CASE LoopStep /\ ~OpenSucceeds /\ ~HandleClose
    BY <2>3 DEF LoopStep, RejectMessage, HandleInitialize, HandleBuildTarget, HandleOpen,
       OpenFails, RejectSessionMethod, SpawnSessionMethod, HandleCancel, ServeReturns, loopVars
  <2>4. ASSUME NEW r \in Requests, TaskStep(r) PROVE sessions' = sessions
    BY <2>4 DEF TaskStep, HandlerReturns, HandlerCanceled, Decide, SendResponse,
       RemoveRequest, loopVars
  <2>5. CASE WriterStep
    BY <2>5 DEF WriterStep, WriterAdmit, WriterDiscard, WriterWrite, WriterStops, loopVars
  <2>6. CASE ShutdownStep
    BY <2>6 DEF ShutdownStep, CancelAll, CloseSink, AbortWriter, Exit
  <2> QED BY <1>1, <2>1, <2>2, <2>3, <2>4, <2>5, <2>6 DEF Next, Exited
<1>2. TypeOK /\ [Next]_vars => [Kept]_vars
  BY <1>1
<1> QED BY TypeCorrect, <1>2, PTL DEF Spec, SessionIdsNeverReused

-----------------------------------------------------------------------------
(* One answer per request                                                   *)

\* Appending a frame adds its position to those of its owner only.
LEMMA FramesForAppend ==
  ASSUME NEW s \in Seq(Frames), NEW f \in Frames, NEW r
  PROVE  /\ f.re = r => FramesFor(r, Append(s, f)) = FramesFor(r, s) \cup {Len(s) + 1}
         /\ f.re # r => FramesFor(r, Append(s, f)) = FramesFor(r, s)
<1>1. DOMAIN s = 1..Len(s) /\ DOMAIN Append(s, f) = 1..(Len(s) + 1) /\ Len(s) \in Nat
  OBVIOUS
<1>2. \A i \in 1..Len(s) : Append(s, f)[i] = s[i]
  OBVIOUS
<1>3. Append(s, f)[Len(s) + 1] = f
  OBVIOUS
<1> QED BY <1>1, <1>2, <1>3 DEF FramesFor

\* Dropping the tail of a concatenation leaves no new frame and no new twin.
LEMMA FramesForPrefix ==
  ASSUME NEW s \in Seq(Frames), NEW t \in Seq(Frames), NEW r
  PROVE  FramesFor(r, s) \subseteq FramesFor(r, s \o t)
<1>1. DOMAIN s = 1..Len(s) /\ DOMAIN (s \o t) = 1..(Len(s) + Len(t))
      /\ Len(s) \in Nat /\ Len(t) \in Nat
  OBVIOUS
<1>2. \A i \in 1..Len(s) : (s \o t)[i] = s[i]
  OBVIOUS
<1> QED BY <1>1, <1>2 DEF FramesFor

\* Discarding the first queued frame shifts the others by one.
LEMMA FramesForTail ==
  ASSUME NEW s \in Seq(Frames), NEW t \in Seq(Frames), t # <<>>, NEW r
  PROVE  \A i \in FramesFor(r, s \o Tail(t)) :
            IF i <= Len(s) THEN i \in FramesFor(r, s \o t)
                           ELSE i + 1 \in FramesFor(r, s \o t)
<1>1. /\ DOMAIN (s \o t) = 1..(Len(s) + Len(t))
      /\ DOMAIN (s \o Tail(t)) = 1..(Len(s) + Len(t) - 1)
      /\ Len(s) \in Nat /\ Len(t) \in Nat
  OBVIOUS
<1>2. \A i \in 1..Len(s) : (s \o Tail(t))[i] = s[i] /\ (s \o t)[i] = s[i]
  OBVIOUS
<1>3. \A i \in (Len(s) + 1)..(Len(s) + Len(t) - 1) : (s \o Tail(t))[i] = (s \o t)[i + 1]
  OBVIOUS
<1> QED BY <1>1, <1>2, <1>3 DEF FramesFor

\* Appending to the second part of a concatenation appends to the whole.
LEMMA ConcatAppend ==
  ASSUME NEW s \in Seq(Frames), NEW t \in Seq(Frames), NEW f \in Frames
  PROVE  s \o Append(t, f) = Append(s \o t, f)
  OBVIOUS

\* Sending appends to the output, or drops the frame when the sink is closed
\* or the writer is gone.
LEMMA OutputSend ==
  ASSUME TypeOK, NEW f \in Frames, SinkSend(f)
  PROVE  IF sinkOpen /\ writer # "stopped" THEN Output' = Append(Output, f)
                                           ELSE Output' = Output
<1>1. CASE sinkOpen /\ writer # "stopped"
  <2>1. queue' = Append(queue, f) /\ UNCHANGED <<stdout, held>>
    BY <1>1 DEF SinkSend
  <2>2. stdout \o held \in Seq(Frames) /\ queue \in Seq(Frames)
    BY DEF TypeOK
  <2>3. (stdout \o held) \o Append(queue, f) = Append((stdout \o held) \o queue, f)
    BY <2>2, ConcatAppend
  <2> QED BY <1>1, <2>1, <2>3 DEF Output
<1>2. CASE ~(sinkOpen /\ writer # "stopped")
  BY <1>2 DEF SinkSend, Output
<1> QED BY <1>1, <1>2

\* Written, held and queued frames together are a sequence of frames.
LEMMA OutputType == TypeOK => Output \in Seq(Frames)
  BY DEF TypeOK, Output

OnceInv == TypeOK /\ AnsweredOnce

\* A frame that answers no session request disturbs nobody's answer.
LEMMA OnceInline ==
  ASSUME OnceInv, TypeOK', NEW f \in Frames, f.re \notin Requests, SinkSend(f),
         UNCHANGED task
  PROVE  OnceInv'
<1>1. Output \in Seq(Frames) /\ TypeOK
  BY OutputType DEF OnceInv
<1>2. Output' = Append(Output, f) \/ Output' = Output
  BY <1>1, OutputSend
<1>3. \A r \in Requests : FramesFor(r, Output)' = FramesFor(r, Output)
  <2> TAKE r \in Requests
  <2>1. FramesFor(r, Output)' = FramesFor(r, Output')
    BY DEF FramesFor
  <2>2. f.re # r
    OBVIOUS
  <2>3. FramesFor(r, Append(Output, f)) = FramesFor(r, Output)
    BY <1>1, <2>2, FramesForAppend
  <2> QED BY <1>2, <2>1, <2>3
<1>4. UNCHANGED <<sinkOpen, writer>>
  BY DEF SinkSend
<1> QED BY <1>3, <1>4 DEF OnceInv, AnsweredOnce

\* Steps that leave output, tasks and the sink's state alone.
LEMMA OnceFrame ==
  ASSUME OnceInv, TypeOK', Output' = Output,
         \A r \in Requests :
            task'[r] \in {"answered", "done"} <=> task[r] \in {"answered", "done"},
         sinkOpen' /\ writer' # "stopped" => sinkOpen /\ writer # "stopped"
  PROVE  OnceInv'
<1>1. \A r \in Requests : FramesFor(r, Output)' = FramesFor(r, Output)
  BY DEF FramesFor
<1> QED BY <1>1 DEF OnceInv, AnsweredOnce

\* Every step keeps the answers unique: only SendResponse adds one, and its
\* task has added none before.
LEMMA OnceNext == OnceInv /\ [Next]_vars => OnceInv'
<1> SUFFICES ASSUME OnceInv, [Next]_vars PROVE OnceInv'
  OBVIOUS
<1>1. TypeOK /\ TypeOK'
  BY NextType DEF OnceInv
<1>2. CASE RejectMessage \/ HandleInitialize \/ HandleBuildTarget
           \/ OpenFails \/ OpenSucceeds \/ HandleClose \/ RejectSessionMethod
           \/ (HandleOpen /\ ~UNCHANGED sinkVars)
  <2>1. PICK f \in {Handshake, Inline("error"), Inline("result")} :
           SinkSend(f) /\ UNCHANGED task
    BY <1>2 DEF RejectMessage, HandleInitialize, HandleBuildTarget, OpenFails, OpenSucceeds,
       HandleClose, RejectSessionMethod, HandleOpen, AnswerInline, taskVars
  <2>2. f \in Frames
    BY <2>1, FrameType DEF Answers, HandlerAnswers
  <2>3. f.re \notin Requests
    BY <2>1, FrameOwnersAssumption DEF Handshake, Inline
  <2> QED BY <1>1, <2>1, <2>2, <2>3, OnceInline
<1>3. CASE (\E r \in Requests : SpawnSessionMethod(r)) \/ (\E id \in Keys : HandleCancel(id))
           \/ ServeReturns \/ ShutdownStep \/ (HandleOpen /\ UNCHANGED sinkVars)
           \/ UNCHANGED vars
  <2>1. UNCHANGED <<stdout, held, queue, writer>> /\ (sinkOpen' => sinkOpen)
    BY <1>3 DEF SpawnSessionMethod, HandleCancel, ServeReturns, ShutdownStep, CancelAll,
       CloseSink, AbortWriter, Exit, sinkVars, vars
  <2>2. Output' = Output
    BY <2>1 DEF Output
  <2>3. \A r \in Requests :
           task'[r] \in {"answered", "done"} <=> task[r] \in {"answered", "done"}
    BY <1>1, <1>3 DEF SpawnSessionMethod, MayIssue, HandleCancel, ServeReturns, ShutdownStep,
       CancelAll, CloseSink, AbortWriter, Exit, HandleOpen, AnswerInline, taskVars, vars,
       TypeOK
  <2> QED BY <1>1, <2>1, <2>2, <2>3, OnceFrame
<1>4. ASSUME NEW q \in Requests, TaskStep(q) PROVE OnceInv'
  <2>1. CASE HandlerReturns(q) \/ HandlerCanceled(q) \/ Decide(q) \/ RemoveRequest(q)
    <3>1. UNCHANGED sinkVars
      BY <2>1 DEF HandlerReturns, HandlerCanceled, Decide, RemoveRequest
    <3>2. Output' = Output
      BY <3>1 DEF sinkVars, Output
    <3>3. \A r \in Requests :
             task'[r] \in {"answered", "done"} <=> task[r] \in {"answered", "done"}
      BY <1>1, <2>1 DEF HandlerReturns, HandlerCanceled, Decide, RemoveRequest, TaskMove, TypeOK
    <3> QED BY <1>1, <3>1, <3>2, <3>3, OnceFrame DEF sinkVars
  <2>2. CASE SendResponse(q)
    <3> DEFINE f == Reply(q, outcome[q])
    <3>1. f \in Frames /\ f.re = q
      BY <1>1, FrameType DEF TypeOK, Reply
    <3>2. /\ task[q] = "decided" /\ task' = [task EXCEPT ![q] = "answered"]
          /\ SinkSend(f)
      BY <2>2 DEF SendResponse, TaskMove
    <3>3. UNCHANGED <<sinkOpen, writer>>
      BY <3>2 DEF SinkSend
    <3>4. FramesFor(q, Output) = {}
      BY <3>2 DEF OnceInv, AnsweredOnce
    <3>5. IF sinkOpen /\ writer # "stopped" THEN Output' = Append(Output, f)
                                            ELSE Output' = Output
      BY <1>1, <3>1, <3>2, OutputSend
    <3>6. Output \in Seq(Frames)
      BY <1>1, OutputType
    <3>7. \A r \in Requests : FramesFor(r, Output)' = FramesFor(r, Output')
      BY DEF FramesFor
    <3>8. FramesFor(q, Append(Output, f)) = {Len(Output) + 1}
      BY <3>1, <3>4, <3>6, FramesForAppend
    <3>9. \A r \in Requests \ {q} : FramesFor(r, Append(Output, f)) = FramesFor(r, Output)
      BY <3>1, <3>6, FramesForAppend
    <3> HIDE DEF f
    <3>10. \A r \in Requests \ {q} : FramesFor(r, Output') = FramesFor(r, Output)
                                      /\ task'[r] = task[r]
      BY <1>1, <3>2, <3>5, <3>9 DEF TypeOK
    <3>11. /\ task'[q] = "answered"
           /\ IF sinkOpen /\ writer # "stopped" THEN FramesFor(q, Output') = {Len(Output) + 1}
                                                  ELSE FramesFor(q, Output') = {}
      BY <1>1, <3>2, <3>4, <3>5, <3>8 DEF TypeOK
    <3> QED BY <1>1, <3>3, <3>7, <3>10, <3>11 DEF OnceInv, AnsweredOnce
  <2> QED BY <1>4, <2>1, <2>2 DEF TaskStep
<1>5. CASE WriterAdmit
  <2>1. Output' = Output
    <3>1. /\ stdout' = stdout /\ held' = <<Head(queue)>> /\ queue' = Tail(queue)
          /\ queue # <<>> /\ held = <<>>
      BY <1>1, <1>5 DEF WriterAdmit, TypeOK
    <3>2. stdout \in Seq(Frames) /\ queue \in Seq(Frames)
      BY <1>1 DEF TypeOK
    <3>3. (stdout \o <<Head(queue)>>) \o Tail(queue) = (stdout \o <<>>) \o queue
      BY <3>1, <3>2
    <3> QED BY <3>1, <3>3 DEF Output
  <2>2. UNCHANGED <<task, sinkOpen>> /\ writer # "stopped"
    BY <1>5 DEF WriterAdmit, taskVars
  <2> QED BY <1>1, <2>1, <2>2, OnceFrame
<1>6. CASE WriterWrite
  <2>1. Output' = Output
    <3>1. stdout' = stdout \o held /\ held' = <<>> /\ queue' = queue
      BY <1>6 DEF WriterWrite
    <3>2. stdout \in Seq(Frames) /\ queue \in Seq(Frames) /\ held \in Seq(Frames)
      BY <1>1 DEF TypeOK
    <3>3. ((stdout \o held) \o <<>>) \o queue = (stdout \o held) \o queue
      BY <3>2
    <3> QED BY <3>1, <3>3 DEF Output
  <2>2. UNCHANGED <<task, sinkOpen>> /\ writer # "stopped"
    BY <1>6 DEF WriterWrite, taskVars
  <2> QED BY <1>1, <2>1, <2>2, OnceFrame
<1>7. CASE WriterDiscard
  <2>1. /\ stdout' = stdout /\ held' = held /\ queue' = Tail(queue) /\ queue # <<>>
        /\ task' = task /\ ~sinkOpen /\ ~sinkOpen'
    BY <1>7 DEF WriterDiscard, GateOpen, taskVars
  <2> DEFINE s == stdout \o held
  <2>2. s \in Seq(Frames) /\ queue \in Seq(Frames) /\ Len(s) \in Nat
    BY <1>1 DEF TypeOK
  <2>3. Output = s \o queue /\ Output' = s \o Tail(queue)
    BY <2>1 DEF Output
  <2> HIDE DEF s
  <2>4. \A r \in Requests : FramesFor(r, Output)' = FramesFor(r, Output')
    BY DEF FramesFor
  <2>5. \A r \in Requests : \A i \in FramesFor(r, Output') :
           i \in Int /\ IF i <= Len(s) THEN i \in FramesFor(r, Output)
                                      ELSE i + 1 \in FramesFor(r, Output)
    <3>1. \A r \in Requests : \A i \in FramesFor(r, Output') : i \in Int
      BY <2>2, <2>3 DEF FramesFor
    <3> QED BY <2>1, <2>2, <2>3, <3>1, FramesForTail
  <2>6. \A r \in Requests : \A i, j \in FramesFor(r, Output') : i = j
    BY <2>2, <2>5 DEF OnceInv, AnsweredOnce
  <2>7. \A r \in Requests :
           FramesFor(r, Output') # {} => task[r] \in {"answered", "done"}
    BY <2>5 DEF OnceInv, AnsweredOnce
  <2> QED BY <1>1, <2>1, <2>4, <2>6, <2>7 DEF OnceInv, AnsweredOnce
<1>8. CASE WriterStops
  <2>1. /\ stdout' = stdout /\ held' = <<>> /\ queue' = <<>>
        /\ task' = task /\ writer' = "stopped"
    BY <1>8 DEF WriterStops, taskVars
  <2>2. stdout \in Seq(Frames) /\ held \o queue \in Seq(Frames)
    BY <1>1 DEF TypeOK
  <2>3. Output' = stdout /\ Output = stdout \o (held \o queue)
    BY <1>1, <2>1 DEF Output, TypeOK
  <2>4. \A r \in Requests : FramesFor(r, Output)' = FramesFor(r, Output')
    BY DEF FramesFor
  <2>5. \A r \in Requests : FramesFor(r, Output') \subseteq FramesFor(r, Output)
    BY <2>2, <2>3, FramesForPrefix
  <2> QED BY <1>1, <2>1, <2>4, <2>5 DEF OnceInv, AnsweredOnce
<1> QED
  BY <1>2, <1>3, <1>4, <1>5, <1>6, <1>7, <1>8 DEF Next, LoopStep, WriterStep, Exited

\* Nothing is answered before the first request.
LEMMA OnceInit == Init => OnceInv
<1> SUFFICES ASSUME Init PROVE OnceInv
  OBVIOUS
<1>1. Output = <<>> /\ \A r \in Requests : task[r] = "unused"
  BY DEF Init, Output
<1>2. \A r \in Requests : FramesFor(r, Output) = {}
  <2>1. <<>> \in Seq(Frames) /\ DOMAIN <<>> = 1..0
    OBVIOUS
  <2>2. DOMAIN Output = {}
    BY <1>1, <2>1
  <2> QED BY <2>2 DEF FramesFor
<1> QED BY <1>1, <1>2, InitType DEF OnceInv, AnsweredOnce

\* The answers of all reachable states are unique.
LEMMA OnceAlways == Spec => []OnceInv
  BY OnceInit, OnceNext, PTL DEF Spec

\* No request is ever answered twice, and an answer is lost only to the
\* shutdown or to a failed writer; this needs nothing of the host's ids.
THEOREM OneAnswer == Spec => []AnsweredOnce
<1>1. OnceInv => AnsweredOnce
  BY DEF OnceInv
<1> QED BY <1>1, OnceAlways, PTL

-----------------------------------------------------------------------------
(* What a step adds to the output                                           *)

\* Every frame of the output was there before, answers no session request, or
\* is the answer its task has just sent.
LEMMA OutputGrows ==
  ASSUME TypeOK, [Next]_vars, NEW i \in DOMAIN Output'
  PROVE  \/ \E j \in DOMAIN Output : Output[j] = Output'[i]
         \/ Output'[i].re \notin Requests
         \/ \E r \in Requests : SendResponse(r) /\ Output'[i] = Reply(r, outcome[r])
<1>1. Output \in Seq(Frames)
  BY OutputType
<1>2. ASSUME NEW f \in Frames, SinkSend(f)
      PROVE  (\E j \in DOMAIN Output : Output[j] = Output'[i]) \/ Output'[i] = f
  <2>1. Output' = Append(Output, f) \/ Output' = Output
    BY <1>2, OutputSend
  <2>2. CASE Output' = Append(Output, f)
    <3>1. Len(Output) \in Nat /\ DOMAIN Output = 1..Len(Output)
          /\ i \in 1..(Len(Output) + 1)
      BY <1>1, <2>2
    <3>2. CASE i = Len(Output) + 1
      BY <1>1, <2>2, <3>2
    <3>3. CASE i \in 1..Len(Output)
      BY <1>1, <2>2, <3>1, <3>3
    <3> QED BY <3>1, <3>2, <3>3
  <2> QED BY <2>1, <2>2
<1>3. CASE Output' = Output
  BY <1>3
<1>4. CASE RejectMessage \/ HandleInitialize \/ HandleBuildTarget
           \/ OpenFails \/ OpenSucceeds \/ HandleClose \/ RejectSessionMethod
           \/ (HandleOpen /\ ~UNCHANGED sinkVars)
  <2>1. PICK f \in {Handshake, Inline("error"), Inline("result")} : SinkSend(f)
    BY <1>4 DEF RejectMessage, HandleInitialize, HandleBuildTarget, OpenFails, OpenSucceeds,
       HandleClose, RejectSessionMethod, HandleOpen, AnswerInline
  <2>2. f \in Frames
    BY <2>1, FrameType DEF Answers, HandlerAnswers
  <2>3. f.re \notin Requests
    BY <2>1, FrameOwnersAssumption DEF Handshake, Inline
  <2> QED BY <1>2, <2>1, <2>2, <2>3
<1>5. ASSUME NEW r \in Requests, SendResponse(r)
      PROVE  \/ \E j \in DOMAIN Output : Output[j] = Output'[i]
             \/ Output'[i] = Reply(r, outcome[r])
  <2>1. Reply(r, outcome[r]) \in Frames
    BY FrameType DEF TypeOK
  <2> QED BY <1>2, <1>5, <2>1 DEF SendResponse
<1>6. CASE WriterAdmit
  <2>1. /\ stdout' = stdout /\ held' = <<Head(queue)>> /\ queue' = Tail(queue)
        /\ queue # <<>> /\ held = <<>>
    BY <1>6 DEF WriterAdmit, TypeOK
  <2>2. stdout \in Seq(Frames) /\ queue \in Seq(Frames)
    BY DEF TypeOK
  <2>3. (stdout \o <<Head(queue)>>) \o Tail(queue) = (stdout \o <<>>) \o queue
    BY <2>1, <2>2
  <2> QED BY <1>3, <2>1, <2>3 DEF Output
<1>7. CASE WriterWrite
  <2>1. stdout' = stdout \o held /\ held' = <<>> /\ queue' = queue
    BY <1>7 DEF WriterWrite
  <2>2. stdout \in Seq(Frames) /\ queue \in Seq(Frames) /\ held \in Seq(Frames)
    BY DEF TypeOK
  <2>3. ((stdout \o held) \o <<>>) \o queue = (stdout \o held) \o queue
    BY <2>2
  <2> QED BY <1>3, <2>1, <2>3 DEF Output
<1>8. CASE WriterDiscard
  <2>1. stdout' = stdout /\ held' = held /\ queue' = Tail(queue) /\ queue # <<>>
    BY <1>8 DEF WriterDiscard
  <2> DEFINE s == stdout \o held
  <2>2. s \in Seq(Frames) /\ queue \in Seq(Frames) /\ Len(s) \in Nat
    BY DEF TypeOK
  <2>3. Output = s \o queue /\ Output' = s \o Tail(queue)
    BY <2>1 DEF Output
  <2> HIDE DEF s
  <2>4. /\ i \in 1..(Len(s) + Len(queue) - 1)
        /\ DOMAIN Output = 1..(Len(s) + Len(queue)) /\ Len(queue) \in Nat
    BY <2>1, <2>2, <2>3
  <2>5. CASE i <= Len(s)
    <3>1. Output'[i] = s[i] /\ Output[i] = s[i] /\ i \in DOMAIN Output
      BY <2>1, <2>2, <2>3, <2>4, <2>5
    <3> QED BY <3>1
  <2>6. CASE ~(i <= Len(s))
    <3>1. i \in (Len(s) + 1)..(Len(s) + Len(queue) - 1) /\ i + 1 \in DOMAIN Output
      BY <2>2, <2>4, <2>6
    <3>2. (s \o Tail(queue))[i] = (s \o queue)[i + 1]
      BY <2>1, <2>2, <3>1
    <3> QED BY <2>3, <3>1, <3>2
  <2> QED BY <2>5, <2>6
<1>9. CASE WriterStops
  <2>1. stdout' = stdout /\ held' = <<>> /\ queue' = <<>>
    BY <1>9 DEF WriterStops
  <2>2. stdout \in Seq(Frames) /\ held \o queue \in Seq(Frames)
    BY DEF TypeOK
  <2>3. Output' = stdout /\ Output = stdout \o (held \o queue)
    BY <2>1 DEF Output, TypeOK
  <2>4. i \in DOMAIN Output /\ Output[i] = Output'[i]
    BY <2>2, <2>3
  <2> QED BY <2>4
<1>10. CASE UNCHANGED sinkVars
  BY <1>3, <1>10 DEF sinkVars, Output
<1>11. CASE ShutdownStep
  <2>1. UNCHANGED <<stdout, held, queue>>
    BY <1>11 DEF ShutdownStep, CancelAll, CloseSink, AbortWriter, Exit, sinkVars
  <2> QED BY <1>3, <2>1 DEF Output
<1> QED
  BY <1>4, <1>5, <1>6, <1>7, <1>8, <1>9, <1>10, <1>11
     DEF Next, LoopStep, TaskStep, WriterStep, Exited, SpawnSessionMethod, HandleCancel,
         ServeReturns, HandlerReturns, HandlerCanceled, Decide, RemoveRequest, vars

-----------------------------------------------------------------------------
(* A cancel that comes in time wins                                         *)

\* From the moment the token fired under a running handler: whatever the
\* handler returns, the recheck replaces it, and no other answer exists.
CancelInv(r) ==
    /\ cancelled[r]
    /\ task[r] # "unused"
    /\ task[r] \in {"decided", "answered", "done"} => outcome[r] = "canceled"
    /\ \A i \in FramesFor(r, Output) : Output[i].answer = "canceled"

\* A running handler has no answer yet.
LEMMA CancelStarts ==
  ASSUME NEW r \in Requests, OnceInv, task[r] = "running", cancelled[r]
  PROVE  CancelInv(r)
<1>1. FramesFor(r, Output) = {}
  BY DEF OnceInv, AnsweredOnce
<1> QED BY <1>1 DEF CancelInv

\* Tokens stay fired, and the answer is settled by the recheck of the token.
LEMMA CancelStays ==
  ASSUME NEW r \in Requests, OnceInv, CancelInv(r), [Next]_vars
  PROVE  CancelInv(r)'
<1>1. TypeOK
  BY DEF OnceInv
<1>2. cancelled'[r]
  <2>1. ASSUME NEW id \in Keys, HandleCancel(id) PROVE cancelled'[r]
    BY <1>1, <2>1 DEF HandleCancel, CancelInv, TypeOK
  <2>2. CASE CancelAll
    BY <2>2 DEF CancelAll, CancelRegistered, CancelInv
  <2>3. CASE UNCHANGED cancelled
    BY <2>3 DEF CancelInv
  <2> QED
    BY <2>1, <2>2, <2>3 DEF Next, LoopStep, TaskStep, WriterStep, ShutdownStep, Exited,
       RejectMessage, HandleInitialize, HandleBuildTarget, HandleOpen, OpenFails, OpenSucceeds,
       HandleClose, RejectSessionMethod, SpawnSessionMethod, ServeReturns, AnswerInline,
       HandlerReturns, HandlerCanceled, Decide, SendResponse, RemoveRequest, WriterAdmit,
       WriterDiscard, WriterWrite, WriterStops, CloseSink, AbortWriter, Exit, taskVars, vars
<1>3. /\ task'[r] # "unused"
      /\ task'[r] \in {"decided", "answered", "done"} => outcome'[r] = "canceled"
  <2>1. ASSUME NEW q \in Requests, SpawnSessionMethod(q)
        PROVE  q # r /\ task'[r] = task[r] /\ outcome' = outcome
    BY <1>1, <2>1 DEF SpawnSessionMethod, MayIssue, CancelInv, TypeOK
  <2>2. ASSUME NEW q \in Requests, TaskStep(q), q # r
        PROVE  task'[r] = task[r] /\ outcome'[r] = outcome[r]
    BY <1>1, <2>2 DEF TaskStep, HandlerReturns, HandlerCanceled, Decide, SendResponse,
       RemoveRequest, TaskMove, TypeOK
  <2>3. CASE HandlerReturns(r) \/ HandlerCanceled(r)
    BY <1>1, <2>3 DEF HandlerReturns, HandlerCanceled, TaskMove, TypeOK
  <2>4. CASE Decide(r)
    BY <1>1, <2>4 DEF Decide, FinalOutcome, TaskMove, CancelInv, TypeOK
  <2>5. CASE SendResponse(r) \/ RemoveRequest(r)
    BY <1>1, <2>5 DEF SendResponse, RemoveRequest, TaskMove, CancelInv, TypeOK
  <2>6. CASE UNCHANGED <<task, outcome>>
    BY <2>6 DEF CancelInv
  <2>7. CASE LoopStep /\ ~\E q \in Requests : SpawnSessionMethod(q)
    BY <2>6, <2>7 DEF LoopStep,
       RejectMessage, HandleInitialize, HandleBuildTarget, HandleOpen, OpenFails, OpenSucceeds,
       HandleClose, RejectSessionMethod, HandleCancel, ServeReturns, AnswerInline, taskVars
  <2>8. CASE WriterStep \/ ShutdownStep \/ UNCHANGED vars
    BY <2>6, <2>8 DEF WriterStep, ShutdownStep, WriterAdmit, WriterDiscard, WriterWrite,
       WriterStops, CancelAll, CloseSink, AbortWriter, Exit, taskVars, vars
  <2> QED BY <2>1, <2>2, <2>3, <2>4, <2>5, <2>7, <2>8
          DEF Next, LoopStep, TaskStep, Exited, CancelInv
<1>4. \A i \in FramesFor(r, Output') : Output'[i].answer = "canceled"
  <2> SUFFICES ASSUME NEW i \in DOMAIN Output', Output'[i].re = r
               PROVE  Output'[i].answer = "canceled"
    BY DEF FramesFor
  <2>1. CASE \E j \in DOMAIN Output : Output[j] = Output'[i]
    BY <2>1 DEF CancelInv, FramesFor
  <2>2. ASSUME NEW q \in Requests, SendResponse(q), Output'[i] = Reply(q, outcome[q])
        PROVE  Output'[i].answer = "canceled"
    BY <2>2 DEF Reply, SendResponse, TaskMove, CancelInv
  <2> QED BY <1>1, <2>1, <2>2, OutputGrows
<1>5. FramesFor(r, Output)' = FramesFor(r, Output')
  BY DEF FramesFor
<1> QED BY <1>2, <1>3, <1>4, <1>5 DEF CancelInv

\* A request whose token fired while its handler was running is never answered
\* anything but -32800: neither the race of select! nor a frame already on its
\* way can bring another answer.
THEOREM CancelPrevails == Spec => CancelWins
<1> SUFFICES ASSUME NEW r \in Requests
             PROVE  Spec => [](task[r] = "running" /\ cancelled[r] =>
                      [](\A i \in FramesFor(r, Output) : Output[i].answer = "canceled"))
  BY DEF CancelWins
<1>1. OnceInv /\ task[r] = "running" /\ cancelled[r] => CancelInv(r)
  BY CancelStarts
<1>2. OnceInv /\ CancelInv(r) /\ [Next]_vars => CancelInv(r)'
  BY CancelStays
<1>3. CancelInv(r) => \A i \in FramesFor(r, Output) : Output[i].answer = "canceled"
  BY DEF CancelInv
<1> QED BY <1>1, <1>2, <1>3, OnceAlways, PTL DEF Spec

-----------------------------------------------------------------------------
(* The handshake comes first                                                *)

\* In this sequence of frames the handshake's result comes once, and before
\* any other result and any answer of a session method.
Ordered(s) ==
    /\ \A i \in DOMAIN s : s[i].answer = "result" \/ s[i].re \in Requests =>
                              \E j \in 1..i : s[j] = Handshake
    /\ \A i, j \in FramesFor("initialize", s) : i = j

\* Everything sent is in order as long as the sink is open; a closed sink may
\* discard the handshake from the middle of the queue, but then writes only
\* the frame it holds.  Before the handshake there is nothing to answer.
HandshakeInv ==
    /\ TypeOK
    /\ Ordered(stdout \o held)
    /\ sinkOpen => Ordered(Output)
    /\ ~initialized => /\ loop # "opening"
                       /\ \A r \in Requests : task[r] = "unused"
                       /\ FramesFor("initialize", Output) = {}
    /\ initialized /\ sinkOpen /\ writer # "stopped"
         => \E j \in DOMAIN Output : Output[j] = Handshake

\* What is written first is in order if the whole is.
LEMMA OrderedPrefix ==
  ASSUME NEW s \in Seq(Frames), NEW t \in Seq(Frames), Ordered(s \o t)
  PROVE  Ordered(s)
<1>1. DOMAIN s = 1..Len(s) /\ DOMAIN (s \o t) = 1..(Len(s) + Len(t))
      /\ Len(s) \in Nat /\ Len(t) \in Nat
  OBVIOUS
<1>2. \A i \in 1..Len(s) : (s \o t)[i] = s[i]
  OBVIOUS
<1>3. ASSUME NEW i \in DOMAIN s, s[i].answer = "result" \/ s[i].re \in Requests
      PROVE  \E j \in 1..i : s[j] = Handshake
  <2>1. i \in DOMAIN (s \o t) /\ (s \o t)[i] = s[i]
    BY <1>1, <1>2
  <2>2. PICK j \in 1..i : (s \o t)[j] = Handshake
    BY <1>3, <2>1 DEF Ordered
  <2>3. j \in 1..Len(s)
    BY <1>1
  <2> QED BY <1>2, <2>2, <2>3
<1>4. \A i, j \in FramesFor("initialize", s) : i = j
  BY FramesForPrefix DEF Ordered
<1> QED BY <1>3, <1>4 DEF Ordered

\* Appending keeps the order if what is appended is the first handshake, or no
\* handshake and either neither a result nor an answer, or behind a handshake.
LEMMA OrderedAppend ==
  ASSUME NEW s \in Seq(Frames), NEW f \in Frames, Ordered(s),
         \/ f = Handshake /\ FramesFor("initialize", s) = {}
         \/ /\ f.re # "initialize"
            /\ \/ f.answer # "result" /\ f.re \notin Requests
               \/ \E j \in DOMAIN s : s[j] = Handshake
  PROVE  Ordered(Append(s, f))
<1> DEFINE t == Append(s, f)
<1>1. DOMAIN s = 1..Len(s) /\ DOMAIN t = 1..(Len(s) + 1) /\ Len(s) \in Nat
  OBVIOUS
<1>2. \A i \in 1..Len(s) : t[i] = s[i]
  OBVIOUS
<1>3. t[Len(s) + 1] = f
  OBVIOUS
<1>4. /\ f.re = "initialize" => FramesFor("initialize", t)
                                  = FramesFor("initialize", s) \cup {Len(s) + 1}
      /\ f.re # "initialize" => FramesFor("initialize", t) = FramesFor("initialize", s)
  BY FramesForAppend
<1>5. \A i, j \in FramesFor("initialize", t) : i = j
  BY <1>4 DEF Ordered, Handshake
<1> HIDE DEF t
<1>6. ASSUME NEW i \in DOMAIN t, t[i].answer = "result" \/ t[i].re \in Requests
      PROVE  \E j \in 1..i : t[j] = Handshake
  <2>1. CASE i \in 1..Len(s)
    <3>1. PICK j \in 1..i : s[j] = Handshake
      BY <1>1, <1>2, <1>6, <2>1 DEF Ordered
    <3>2. j \in 1..Len(s)
      BY <1>1, <2>1
    <3> QED BY <1>2, <3>1, <3>2
  <2>2. CASE i = Len(s) + 1
    <3>1. CASE f = Handshake
      BY <1>1, <1>3, <2>2, <3>1
    <3>2. CASE f # Handshake
      <4>1. PICK j \in DOMAIN s : s[j] = Handshake
        BY <1>3, <1>6, <2>2, <3>2
      <4>2. j \in 1..i /\ t[j] = Handshake
        BY <1>1, <1>2, <2>2, <4>1
      <4> QED BY <4>2
    <3> QED BY <3>1, <3>2
  <2> QED BY <1>1, <2>1, <2>2
<1> QED BY <1>5, <1>6 DEF Ordered, t

\* Sending keeps the output in order, on the same conditions.
LEMMA HandshakeSend ==
  ASSUME HandshakeInv, TypeOK', NEW f \in Frames, SinkSend(f),
         \/ f = Handshake /\ ~initialized /\ initialized'
         \/ /\ f.re # "initialize" /\ initialized' = initialized
            /\ initialized \/ (f.answer # "result" /\ f.re \notin Requests),
         initialized \/ (loop' # "opening" /\ UNCHANGED task)
  PROVE  HandshakeInv'
<1>1. TypeOK /\ Output \in Seq(Frames)
  BY OutputType DEF HandshakeInv
<1>2. UNCHANGED <<stdout, held, sinkOpen, writer>>
  BY DEF SinkSend
<1>3. Ordered(stdout \o held)'
  BY <1>2 DEF HandshakeInv, Ordered, FramesFor
<1>4. CASE ~(sinkOpen /\ writer # "stopped")
  <2>1. Output' = Output
    BY <1>1, <1>4, OutputSend
  <2>2. sinkOpen' => Ordered(Output)'
    BY <1>2, <2>1 DEF HandshakeInv, Ordered, FramesFor
  <2>3. ~initialized' => FramesFor("initialize", Output)' = {}
    BY <2>1 DEF HandshakeInv, FramesFor
  <2> QED BY <1>2, <1>3, <1>4, <2>1, <2>2, <2>3 DEF HandshakeInv
<1>5. CASE sinkOpen /\ writer # "stopped"
  <2>1. Output' = Append(Output, f)
    BY <1>1, <1>5, OutputSend
  <2>2. Ordered(Append(Output, f))
    <3>1. initialized => \E j \in DOMAIN Output : Output[j] = Handshake
      BY <1>5 DEF HandshakeInv
    <3>2. Ordered(Output)
      BY <1>5 DEF HandshakeInv
    <3>3. ~initialized => FramesFor("initialize", Output) = {}
      BY DEF HandshakeInv
    <3> QED BY <1>1, <3>1, <3>2, <3>3, OrderedAppend
  <2>3. Ordered(Output)'
    BY <2>1, <2>2 DEF Ordered, FramesFor
  <2>4. ~initialized' => FramesFor("initialize", Output)' = {}
    <3> SUFFICES ASSUME ~initialized' PROVE FramesFor("initialize", Output') = {}
      BY DEF FramesFor
    <3> QED BY <1>1, <2>1, FramesForAppend DEF HandshakeInv
  <2>5. Len(Output) \in Nat /\ DOMAIN Output = 1..Len(Output)
        /\ DOMAIN Output' = 1..(Len(Output) + 1)
        /\ Output'[Len(Output) + 1] = f /\ \A j \in DOMAIN Output : Output'[j] = Output[j]
    BY <1>1, <2>1
  <2>6. initialized' => \E j \in DOMAIN Output' : Output'[j] = Handshake
    <3>1. CASE initialized
      <4>1. PICK j \in DOMAIN Output : Output[j] = Handshake
        BY <1>5, <3>1 DEF HandshakeInv
      <4>2. j \in DOMAIN Output' /\ Output'[j] = Handshake
        BY <2>5, <4>1
      <4> QED BY <4>2
    <3>2. CASE ~initialized
      <4>1. Len(Output) + 1 \in DOMAIN Output'
        BY <2>5
      <4> QED BY <2>5, <3>2, <4>1
    <3> QED BY <3>1, <3>2
  <2> QED BY <1>2, <1>3, <2>3, <2>4, <2>6 DEF HandshakeInv
<1> QED BY <1>4, <1>5

\* Steps that send nothing and end no handshake.
LEMMA HandshakeFrame ==
  ASSUME HandshakeInv, TypeOK', UNCHANGED <<stdout, held, queue, writer, initialized>>,
         sinkOpen' => sinkOpen,
         ~initialized => loop' # "opening" /\ \A r \in Requests : task'[r] = "unused"
  PROVE  HandshakeInv'
<1>1. Output' = Output
  BY DEF Output
<1>2. Ordered(stdout \o held)' /\ (sinkOpen' => Ordered(Output)')
  BY <1>1 DEF HandshakeInv, Ordered, FramesFor
<1>3. FramesFor("initialize", Output)' = FramesFor("initialize", Output)
  BY <1>1 DEF FramesFor
<1> QED BY <1>1, <1>2, <1>3 DEF HandshakeInv

\* Every method but initialize is refused before the handshake, and initialize
\* after it.
LEMMA DispositionNeedsHandshake ==
  /\ \A d \in {"build_target", "open", "close", "session_method"} : Receives(d) => initialized
  /\ Receives("initialize") => ~initialized
<1>1. ASSUME NEW m \in Messages,
             Disposition(m) \in {"initialize", "build_target", "open", "close",
                                "session_method"}
      PROVE  IF initialized THEN Disposition(m) # "initialize"
                            ELSE Disposition(m) = "initialize"
  <2>1. m.id \in {"absent", "integer", "other"} /\ m.jsonrpc \in BOOLEAN
    BY DEF Messages
  <2>2. CASE m.id = "integer" /\ m.jsonrpc /\ m.method # ""
    BY <1>1, <2>2 DEF Disposition, BeforeInitialize
  <2>3. CASE ~(m.id = "integer" /\ m.jsonrpc /\ m.method # "")
    <3>1. Disposition(m) \in {"rejected", "ignored", "cancel"}
      BY <2>1, <2>3 DEF Disposition, InvalidUnlessNotification
    <3> QED BY <1>1, <3>1
  <2> QED BY <2>2, <2>3
<1> QED BY <1>1 DEF Receives

\* Every step of the frame loop keeps the handshake first.
LEMMA HandshakeLoop ==
  ASSUME HandshakeInv, TypeOK', LoopStep
  PROVE  HandshakeInv'
<1>1. TypeOK /\ (loop = "opening" => initialized)
  BY DEF HandshakeInv
<1>2. Inline("error") \in Frames /\ Inline("result") \in Frames /\ Handshake \in Frames
  BY FrameType DEF Answers, HandlerAnswers
<1>3. /\ Inline("error").re = "inline" /\ Inline("result").re = "inline"
      /\ Inline("error").answer = "error" /\ "inline" \notin Requests
  BY FrameOwnersAssumption DEF Inline
<1>4. CASE RejectMessage \/ RejectSessionMethod \/ OpenFails
  <2>1. /\ SinkSend(Inline("error")) /\ UNCHANGED <<initialized, task>>
        /\ loop' # "opening"
    BY <1>4 DEF RejectMessage, RejectSessionMethod, OpenFails, Receives, AnswerInline,
       loopVars, taskVars
  <2> QED BY <1>2, <1>3, <2>1, HandshakeSend
<1>5. CASE HandleInitialize
  <2>1. ~initialized /\ loop' # "opening" /\ UNCHANGED task
    BY <1>5, DispositionNeedsHandshake DEF HandleInitialize, Receives, AnswerInline, taskVars
  <2>2. CASE initialized' /\ SinkSend(Handshake)
    BY <1>2, <2>1, <2>2, HandshakeSend
  <2>3. CASE SinkSend(Inline("error")) /\ UNCHANGED initialized
    BY <1>2, <1>3, <2>1, <2>3, HandshakeSend
  <2> QED BY <1>5, <2>2, <2>3 DEF HandleInitialize, AnswerInline
<1>6. CASE HandleBuildTarget \/ OpenSucceeds \/ HandleClose
  <2>1. PICK f \in {Inline("error"), Inline("result")} :
           SinkSend(f) /\ UNCHANGED initialized
    BY <1>6 DEF HandleBuildTarget, OpenSucceeds, HandleClose, AnswerInline, loopVars
  <2>2. initialized
    BY <1>1, <1>6, DispositionNeedsHandshake DEF HandleBuildTarget, OpenSucceeds, HandleClose
  <2> QED BY <1>2, <1>3, <2>1, <2>2, HandshakeSend
<1>7. CASE HandleOpen
  <2>1. initialized /\ UNCHANGED initialized
    BY <1>7, DispositionNeedsHandshake DEF HandleOpen
  <2>2. CASE SinkSend(Inline("error"))
    BY <1>2, <1>3, <2>1, <2>2, HandshakeSend
  <2>3. CASE UNCHANGED sinkVars
    BY <2>1, <2>3, HandshakeFrame DEF sinkVars
  <2> QED BY <1>7, <2>2, <2>3 DEF HandleOpen, AnswerInline
<1>8. ASSUME NEW r \in Requests, SpawnSessionMethod(r) PROVE HandshakeInv'
  <2>1. initialized /\ UNCHANGED <<initialized, stdout, held, queue, writer, sinkOpen>>
    BY <1>8, DispositionNeedsHandshake DEF SpawnSessionMethod, loopVars, sinkVars
  <2> QED BY <2>1, HandshakeFrame
<1>9. CASE (\E id \in Keys : HandleCancel(id)) \/ ServeReturns
  <2>1. /\ UNCHANGED <<initialized, stdout, held, queue, writer, sinkOpen, task>>
        /\ loop' # "opening"
    BY <1>9 DEF HandleCancel, ServeReturns, Receives, loopVars, taskVars, sinkVars
  <2> QED BY <2>1, HandshakeFrame DEF HandshakeInv
<1> QED BY <1>4, <1>5, <1>6, <1>7, <1>8, <1>9 DEF LoopStep

\* A task exists only after the handshake, so its answer follows it.
LEMMA HandshakeTask ==
  ASSUME HandshakeInv, TypeOK', NEW r \in Requests, TaskStep(r)
  PROVE  HandshakeInv'
<1>1. initialized /\ UNCHANGED initialized
  BY DEF TaskStep, HandlerReturns, HandlerCanceled, Decide, SendResponse, RemoveRequest,
         TaskMove, loopVars, HandshakeInv
<1>2. CASE SendResponse(r)
  <2>1. /\ Reply(r, outcome[r]) \in Frames /\ Reply(r, outcome[r]).re # "initialize"
        /\ SinkSend(Reply(r, outcome[r]))
    BY <1>2, FrameType, FrameOwnersAssumption DEF SendResponse, HandshakeInv, TypeOK, Reply
  <2> QED BY <1>1, <2>1, HandshakeSend
<1>3. CASE UNCHANGED sinkVars
  BY <1>1, <1>3, HandshakeFrame DEF sinkVars
<1> QED BY <1>2, <1>3
        DEF TaskStep, HandlerReturns, HandlerCanceled, Decide, RemoveRequest

\* The writer takes from the front of what is in order; what it discards once
\* the sink is closed is never written.
LEMMA HandshakeWriter ==
  ASSUME HandshakeInv, TypeOK', WriterStep
  PROVE  HandshakeInv'
<1>1. /\ TypeOK /\ stdout \in Seq(Frames) /\ held \in Seq(Frames) /\ queue \in Seq(Frames)
      /\ stdout \o held \in Seq(Frames)
  BY DEF HandshakeInv, TypeOK
<1>2. UNCHANGED <<initialized, loop, task, sinkOpen>>
  BY DEF WriterStep, WriterAdmit, WriterDiscard, WriterWrite, WriterStops, loopVars, taskVars
<1>3. CASE WriterAdmit
  <2>1. /\ stdout' = stdout /\ held' = <<Head(queue)>> /\ queue' = Tail(queue)
        /\ queue # <<>> /\ held = <<>> /\ sinkOpen /\ writer # "stopped"
    BY <1>1, <1>3 DEF WriterAdmit, GateOpen, TypeOK
  <2>2. (stdout \o <<Head(queue)>>) \o Tail(queue) = (stdout \o <<>>) \o queue
    BY <1>1, <2>1
  <2>3. Output' = Output
    BY <2>1, <2>2 DEF Output
  <2>4. Ordered(stdout \o <<Head(queue)>>)
    <3>1. stdout \o <<Head(queue)>> \in Seq(Frames) /\ Tail(queue) \in Seq(Frames)
      BY <1>1, <2>1
    <3>2. Ordered((stdout \o <<Head(queue)>>) \o Tail(queue))
      BY <2>1, <2>2 DEF HandshakeInv, Output
    <3> QED BY <3>1, <3>2, OrderedPrefix
  <2>5. Ordered(stdout \o held)'
    BY <2>1, <2>4 DEF Ordered, FramesFor
  <2>6. (sinkOpen' => Ordered(Output)')
        /\ FramesFor("initialize", Output)' = FramesFor("initialize", Output)
    BY <1>2, <2>3 DEF HandshakeInv, Ordered, FramesFor
  <2> QED BY <1>2, <2>1, <2>3, <2>5, <2>6 DEF HandshakeInv
<1>4. CASE WriterWrite
  <2>1. stdout' = stdout \o held /\ held' = <<>> /\ queue' = queue /\ writer # "stopped"
    BY <1>4 DEF WriterWrite
  <2>2. /\ (stdout \o held) \o <<>> = stdout \o held
        /\ ((stdout \o held) \o <<>>) \o queue = (stdout \o held) \o queue
    BY <1>1
  <2>3. Output' = Output /\ (stdout \o held)' = stdout \o held
    BY <2>1, <2>2 DEF Output
  <2>4. Ordered(stdout \o held)' /\ (sinkOpen' => Ordered(Output)')
        /\ FramesFor("initialize", Output)' = FramesFor("initialize", Output)
    BY <1>2, <2>3 DEF HandshakeInv, Ordered, FramesFor
  <2> QED BY <1>2, <2>1, <2>3, <2>4 DEF HandshakeInv
<1>5. CASE WriterDiscard
  <2>1. /\ stdout' = stdout /\ held' = held /\ queue' = Tail(queue) /\ queue # <<>>
        /\ ~sinkOpen /\ ~sinkOpen'
    BY <1>5 DEF WriterDiscard, GateOpen
  <2>2. Ordered(stdout \o held)'
    BY <2>1 DEF HandshakeInv, Ordered, FramesFor
  <2>3. ASSUME ~initialized' PROVE FramesFor("initialize", Output)' = {}
    <3> DEFINE s == stdout \o held
    <3>1. s \in Seq(Frames) /\ Output = s \o queue /\ Output' = s \o Tail(queue)
      BY <1>1, <2>1 DEF Output
    <3> HIDE DEF s
    <3>2. FramesFor("initialize", s \o queue) = {}
      BY <1>2, <2>3, <3>1 DEF HandshakeInv
    <3>3. FramesFor("initialize", s \o Tail(queue)) = {}
      BY <1>1, <2>1, <3>1, <3>2, FramesForTail
    <3> QED BY <3>1, <3>3 DEF FramesFor
  <2> QED BY <1>2, <2>1, <2>2, <2>3 DEF HandshakeInv
<1>6. CASE WriterStops
  <2>1. stdout' = stdout /\ held' = <<>> /\ queue' = <<>> /\ writer' = "stopped"
    BY <1>6 DEF WriterStops
  <2>2. held \o queue \in Seq(Frames) /\ stdout \o <<>> = stdout
    BY <1>1
  <2>3. Output' = stdout /\ (stdout \o held)' = stdout /\ Output = stdout \o (held \o queue)
    BY <1>1, <2>1, <2>2 DEF Output
  <2>4. Ordered(stdout)
    BY <1>1, OrderedPrefix DEF HandshakeInv
  <2>5. Ordered(stdout \o held)' /\ Ordered(Output)'
    BY <2>3, <2>4 DEF Ordered, FramesFor
  <2>6. FramesFor("initialize", Output)' \subseteq FramesFor("initialize", Output)
    <3>1. FramesFor("initialize", stdout) \subseteq FramesFor("initialize", Output)
      BY <1>1, <2>2, <2>3, FramesForPrefix
    <3> QED BY <2>3, <3>1 DEF FramesFor
  <2> QED BY <1>2, <2>1, <2>5, <2>6 DEF HandshakeInv
<1> QED BY <1>3, <1>4, <1>5, <1>6 DEF WriterStep

\* Every step keeps the handshake first.
LEMMA HandshakeNext == HandshakeInv /\ [Next]_vars => HandshakeInv'
<1> SUFFICES ASSUME HandshakeInv, [Next]_vars PROVE HandshakeInv'
  OBVIOUS
<1>1. TypeOK'
  BY NextType DEF HandshakeInv
<1>2. CASE ShutdownStep \/ UNCHANGED vars
  <2>1. /\ UNCHANGED <<initialized, stdout, held, queue, writer, task>>
        /\ sinkOpen' => sinkOpen
        /\ loop' = loop \/ loop' # "opening"
    BY <1>2 DEF ShutdownStep, CancelAll, CloseSink, AbortWriter, Exit, vars, loopVars,
                taskVars, sinkVars
  <2> QED BY <1>1, <2>1, HandshakeFrame DEF HandshakeInv
<1> QED BY <1>1, <1>2, HandshakeLoop, HandshakeTask, HandshakeWriter DEF Next, Exited

\* The host sees the handshake's result once, and before any other result and
\* any answer of a session method, even when the process ends meanwhile.
THEOREM HandshakeLeads == Spec => []HandshakeFirst
<1>1. Init => HandshakeInv
  <2> SUFFICES ASSUME Init PROVE HandshakeInv
    OBVIOUS
  <2>1. Output = <<>> /\ stdout \o held = <<>> /\ ~initialized /\ loop # "opening"
        /\ \A r \in Requests : task[r] = "unused"
    BY DEF Init, Output
  <2>2. DOMAIN Output = {} /\ DOMAIN (stdout \o held) = {}
    <3>1. <<>> \in Seq(Frames) /\ DOMAIN <<>> = 1..0
      OBVIOUS
    <3> QED BY <2>1, <3>1
  <2> QED BY <2>1, <2>2, InitType DEF HandshakeInv, Ordered, FramesFor
<1>2. HandshakeInv => HandshakeFirst
  <2> SUFFICES ASSUME HandshakeInv PROVE HandshakeFirst
    OBVIOUS
  <2>1. Ordered(stdout)
    BY OrderedPrefix DEF HandshakeInv, TypeOK
  <2> QED BY <2>1 DEF Ordered, HandshakeFirst
<1> QED BY <1>1, <1>2, HandshakeNext, PTL DEF Spec
=============================================================================
