---------------------------- MODULE SessionProofs ----------------------------
(***************************************************************************)
(* Proofs about Session: whatever the subscribers, the client and the      *)
(* examples do, the Sniffer takes only the steps of module Sniffer, so     *)
(* that the theorems of SnifferProofs hold in every program; and, from     *)
(* these, why a Subscribe returns.                                         *)
(***************************************************************************)
EXTENDS Session, SnifferProofs

-----------------------------------------------------------------------------
(* By the way Session is composed, the Sniffer of a program takes only the *)
(* steps of module Sniffer: one lemma per actor, for the theorems below.   *)

LEMMA ServeRefines ==
  ASSUME NEW q \in Readers, SubscribeStep(q)
  PROVE  ReaderStep(q) \/ UNCHANGED vars
<1>1. CASE SnifferAlone(EnterNextFrame(q) \/ SeeDoneNextFrame(q))
  BY <1>1 DEF SnifferAlone, ReaderStep
<1>2. CASE Take(q)         BY <1>2 DEF Take, ReaderStep
<1>3. CASE Callback(q)     BY <1>3 DEF Callback
<1>4. CASE Send(q)         BY <1>4 DEF Send
<1>5. CASE SendOnClosed(q) BY <1>5 DEF SendOnClosed
<1>6. CASE FailFrame(q)    BY <1>6 DEF FailFrame, ReaderStep
<1>7. CASE EndFrame(q)     BY <1>7 DEF EndFrame, ReaderStep
<1>8. QED BY <1>1, <1>2, <1>3, <1>4, <1>5, <1>6, <1>7 DEF SubscribeStep

LEMMA CloseRefines ==
  ASSUME NEW q \in Readers, CloseStep(q)
  PROVE  Stop \/ UNCHANGED vars
BY DEF CloseStep, CloseStops, CloseChannel

LEMMA SessionStep ==
  ASSUME [SessionNext]_sessionVars
  PROVE  [Next]_vars
<1>1. CASE UNCHANGED sessionVars
  BY <1>1 DEF sessionVars, allVars
<1>2. CASE Run
  BY <1>2 DEF Run, Capture, SnifferAlone, Next
<1>3. CASE ClientCalls
  BY <1>3 DEF ClientCalls, SnifferAlone, Next
<1>4. CASE Signal
  BY <1>4 DEF Signal, allVars
<1>5. ASSUME NEW q \in Readers, Serve(q) PROVE Next \/ UNCHANGED vars
  BY <1>5, ServeRefines DEF Serve, Next
<1>6. ASSUME NEW q \in Readers, ClientReceives(q) \/ ExampleReceives(q)
      PROVE  UNCHANGED vars
  BY <1>6 DEF ClientReceives, ExampleReceives, Receive
<1>7. ASSUME NEW q \in Readers, ClientCloses(q) \/ ExampleCloses(q)
      PROVE  Next \/ UNCHANGED vars
  BY <1>7, CloseRefines DEF ClientCloses, ExampleCloses, Next
<1>8. ASSUME NEW q \in Readers, ExampleSubscribes(q) PROVE Next
  BY <1>8 DEF ExampleSubscribes, SnifferAlone, Next
<1>9. ASSUME NEW q \in Readers, ExampleFails(q) \/ ExampleExits(q) PROVE UNCHANGED vars
  BY <1>9 DEF ExampleFails, ExampleExits
<1>10. CASE ExampleDefers
  BY <1>10 DEF ExampleDefers
<1>11. QED
  BY <1>1, <1>2, <1>3, <1>4, <1>5, <1>6, <1>7, <1>8, <1>9, <1>10 DEF SessionNext, Main

LEMMA SessionRefines == SessionSpec => Spec
<1>1. SessionInit => Init
  BY DEF SessionInit, SubscriberInit
<1>2. [SessionNext]_sessionVars => [Next]_vars
  BY SessionStep
<1>3. QED BY <1>1, <1>2, PTL DEF SessionSpec, Spec

(* Whatever its handlers and its Close do, no program that takes none of   *)
(* the liberties panics in NextFrame (sniffer.go:254) or in ProcessFrames. *)
THEOREM CarefulSession == ASSUME Usage = {} PROVE SessionSpec => []NoPanic
<1>1. Spec => []NoPanic
  BY CarefulClient
<1>2. QED BY <1>1, SessionRefines, PTL

-----------------------------------------------------------------------------
(***************************************************************************)
(* The type invariant of a program.  That a handler which is sending still *)
(* has its frame, and sends on a channel of its own subscriber, needs the  *)
(* types of the functions that SubscriberTypeOK only applies.              *)
(***************************************************************************)
FrameType == [direction : Directions, todo : 0..MaxMessages]

(* What handlers do, and what Close has done, apart from one another.      *)
HandlersOK ==
  /\ kind \in [Readers -> Kinds]
  /\ frame \in [Readers -> FrameType] /\ sending \in [Readers -> BOOLEAN]
  /\ \A q \in Readers :
       /\ sending[q] \/ frame[q] # NoFrame => reader[q] = "frame"
       /\ sending[q] => Target(q) \in ChannelsOf(kind[q])

ClosingOK ==
  /\ closing \in [Readers -> Nat] /\ DOMAIN shut = Readers
  /\ \A q \in Readers :
       /\ closing[q] \in 0..Len(Channels[kind[q]]) + 1
       /\ shut[q] = ClosedAfter(kind[q], closing[q])

ProgramOK ==
  /\ process \in {"running", "panicked", "exit 0", "exit 1"}
  /\ client \in Clients
  /\ reads \in [Readers -> SUBSET AllChannels] /\ closes \in [Readers -> Closes]
  /\ main \in {"select", "deferred", "closing"}

SessionTypeInv == TypeInv /\ HandlersOK /\ ClosingOK /\ ProgramOK

LEMMA ChannelLists ==
  /\ \A k \in Kinds : Len(Channels[k]) \in Nat
  /\ ChannelsOf("gameEvent") = {"ingress", "egress"}
  /\ ChannelsOf("keepalive") = {"events"}
<1>1. \A k \in Kinds : Len(Channels[k]) \in Nat
  BY DEF Channels, Kinds
<1>2. /\ Channels["gameEvent"] = <<"ingress", "egress">>
      /\ Channels["keepalive"] = <<"events">>
  BY DEF Channels
<1>3. /\ DOMAIN Channels["gameEvent"] = {1, 2} /\ DOMAIN Channels["keepalive"] = {1}
  BY <1>2
<1>4. QED BY <1>1, <1>2, <1>3 DEF ChannelsOf

LEMMA NoFrameType == NoFrame \in FrameType
BY SubscriberAssumption DEF NoFrame, FrameType, Directions

LEMMA FramesType == Frames \subseteq FrameType
<1>1. \A src, dst : Direction(src, dst) \in Directions
  BY DEF Direction, Directions
<1>2. QED BY <1>1, NoFrameType, SubscriberAssumption DEF Frames, FrameType

(* A frame of which one more message is handled. *)
LEMMA Handled ==
  ASSUME NEW f \in FrameType, f.todo > 0
  PROVE  /\ [f EXCEPT !.todo = @ - 1] \in FrameType
         /\ [f EXCEPT !.todo = @ - 1].direction = f.direction
<1>1. f.todo - 1 \in 0..MaxMessages
  BY SubscriberAssumption DEF FrameType
<1>2. QED BY <1>1 DEF FrameType

LEMMA ClosingKept ==
  ASSUME ClosingOK, UNCHANGED <<kind, closing, shut>>
  PROVE  ClosingOK'
BY DEF ClosingOK

(* A step that no handler has a part in keeps the frames.                  *)
LEMMA HandlersKept ==
  ASSUME HandlersOK, UNCHANGED <<kind, handlers>>,
         \A q \in Readers : reader[q] = "frame" => reader'[q] = "frame"
  PROVE  HandlersOK'
BY DEF HandlersOK, handlers, Target

LEMMA HandlersServe ==
  ASSUME TypeOK, HandlersOK, NEW q \in Readers, SubscribeStep(q)
  PROVE  HandlersOK'
<1>1. CASE SnifferAlone(EnterNextFrame(q) \/ SeeDoneNextFrame(q))
  <2>1. \A p \in Readers : reader[p] = "frame" => reader'[p] = "frame"
    BY <1>1 DEF SnifferAlone, EnterNextFrame, SeeDoneNextFrame, ReaderAt, TypeOK
  <2>2. QED BY <1>1, <2>1, HandlersKept DEF SnifferAlone, subscription
<1>2. CASE Take(q)
  <2>1. ~sending[q] /\ frame[q] = NoFrame
    BY <1>2 DEF Take, TakeFrame, ReaderAt, HandlersOK
  <2>2. /\ \A p \in Readers \ {q} : reader'[p] = reader[p]
        /\ UNCHANGED <<kind, sending>>
    BY <1>2 DEF Take, TakeFrame, TypeOK
  <2>3. CASE UNCHANGED frame
    BY <2>1, <2>2, <2>3 DEF HandlersOK, Target
  <2>4. ASSUME NEW f \in Frames, reader'[q] = "frame", frame' = [frame EXCEPT ![q] = f]
        PROVE  HandlersOK'
    BY <2>1, <2>2, <2>4, FramesType DEF HandlersOK, Target
  <2>5. QED BY <1>2, <2>3, <2>4 DEF Take
<1>3. CASE Callback(q) \/ Send(q)
  <2>1. /\ reader[q] = "frame" /\ reader' = reader /\ kind' = kind
        /\ frame[q].todo > 0 /\ Deliverable(q)
        /\ frame' = [frame EXCEPT ![q] = [frame[q] EXCEPT !.todo = @ - 1]]
    BY <1>3 DEF Callback, Send, Handling, vars, readers
  <2>2. /\ frame' \in [Readers -> FrameType]
        /\ \A p \in Readers : frame'[p].direction = frame[p].direction
        /\ \A p \in Readers \ {q} : frame'[p] = frame[p]
    BY <2>1, Handled DEF HandlersOK
  <2>3. CASE Callback(q)
    BY <2>1, <2>2, <2>3 DEF Callback, HandlersOK, Target
  <2>4. CASE Send(q)
    <3>1. Target(q) \in ChannelsOf(kind[q])
      <4>1. CASE kind[q] = "keepalive"
        BY <4>1, ChannelLists DEF Target
      <4>2. CASE kind[q] = "gameEvent"
        <5>1. frame[q].direction \in {"ingress", "egress"}
          BY <2>1, <4>2 DEF Deliverable, HandlersOK, FrameType, Directions
        <5>2. QED BY <4>2, <5>1, ChannelLists DEF Target
      <4>3. QED BY <2>4, <4>1, <4>2 DEF Send
    <3>2. sending' = [sending EXCEPT ![q] = TRUE]
      BY <2>4 DEF Send
    <3>3. QED BY <2>1, <2>2, <3>1, <3>2 DEF HandlersOK, Target
  <2>5. QED BY <1>3, <2>3, <2>4
<1>4. CASE SendOnClosed(q)
  BY <1>4, HandlersKept DEF SendOnClosed, vars, readers
<1>5. CASE FailFrame(q) \/ EndFrame(q)
  <2>1. /\ ~sending[q]
        /\ \A p \in Readers \ {q} : reader'[p] = reader[p]
        /\ frame' = [frame EXCEPT ![q] = NoFrame]
        /\ UNCHANGED <<kind, sending>>
    BY <1>5 DEF FailFrame, EndFrame, Handling, ProcessFrame, TypeOK
  <2>2. QED BY <2>1, NoFrameType DEF HandlersOK, Target
<1>6. QED BY <1>1, <1>2, <1>3, <1>4, <1>5 DEF SubscribeStep

LEMMA ClosingStep ==
  ASSUME HandlersOK, ClosingOK, NEW q \in Readers, CloseStep(q)
  PROVE  ClosingOK'
<1> DEFINE k == kind[q]
<1>1. /\ kind' = kind
      /\ closing[q] <= Len(Channels[k])
      /\ closing' = [closing EXCEPT ![q] = @ + 1]
  BY DEF CloseStep
<1>2. closing[q] \in Nat /\ Len(Channels[k]) \in Nat
  BY ChannelLists DEF ClosingOK, HandlersOK
<1>3. DOMAIN shut' = Readers /\ \A p \in Readers \ {q} : shut'[p] = shut[p]
  BY DEF CloseStep, CloseStops, CloseChannel, ClosingOK
<1>4. shut'[q] = ClosedAfter(k, closing[q] + 1)
  <2>1. CASE closing[q] = 0
    <3>1. shut'[q] = shut[q]
      BY <2>1 DEF CloseStep, CloseStops, CloseChannel
    <3>2. ClosedAfter(k, 0) = {} /\ ClosedAfter(k, 1) = {}
      BY DEF ClosedAfter
    <3>3. shut[q] = ClosedAfter(k, 0) /\ closing[q] + 1 = 1
      BY <2>1 DEF ClosingOK
    <3>4. ClosedAfter(k, closing[q] + 1) = ClosedAfter(k, 1)
      BY <3>3
    <3>5. QED BY <3>1, <3>2, <3>3, <3>4
  <2>2. CASE closing[q] > 0
    <3>1. shut'[q] = shut[q] \cup {Channels[k][closing[q]]}
      BY <2>2 DEF CloseStep, CloseStops, CloseChannel, ClosingOK
    <3>2. 1..(closing[q] + 1) - 1 = (1..closing[q] - 1) \cup {closing[q]}
      BY <1>2, <2>2
    <3>3. ClosedAfter(k, closing[q] + 1) = ClosedAfter(k, closing[q]) \cup {Channels[k][closing[q]]}
      BY <3>2 DEF ClosedAfter
    <3>4. QED BY <3>1, <3>3 DEF ClosingOK
  <2>3. QED BY <1>2, <2>1, <2>2
<1>5. /\ closing' \in [Readers -> Nat] /\ closing'[q] = closing[q] + 1
      /\ \A p \in Readers \ {q} : closing'[p] = closing[p]
      /\ closing'[q] \in 0..Len(Channels[k]) + 1
  BY <1>1, <1>2 DEF ClosingOK
<1>6. QED BY <1>1, <1>3, <1>4, <1>5 DEF ClosingOK

LEMMA SessionTypeNext == SessionTypeInv /\ [SessionNext]_sessionVars => SessionTypeInv'
<1> SUFFICES ASSUME SessionTypeInv, [SessionNext]_sessionVars PROVE SessionTypeInv'
  OBVIOUS
<1>1. TypeInv' /\ TypeOK
  BY SessionStep, TypeNext DEF SessionTypeInv, TypeInv
<1> USE DEF SessionTypeInv
<1>2. ASSUME UNCHANGED subscription, UNCHANGED session,
             \/ Stop \/ CloseSource
             \/ \E r \in Runs : CallStart(r) \/ CancelParent(r) \/ StartStep(r)
             \/ \E q \in Readers : Subscribe(q)
      PROVE  SessionTypeInv'
  <2>1. \A p \in Readers : reader[p] = "frame" => reader'[p] = "frame"
    <3>1. ASSUME NEW r \in Runs, StartStep(r) PROVE reader' = reader
      BY <3>1 DEF readers, StartStep, SetCtx, SetCancel, DeferCancel, SetRunning, EnterSelect,
                  SeeDone, ReceivePacket, Tick, SeeEnd, QueueFrame, EndAssemble, Return
    <3>2. ASSUME NEW q \in Readers, Subscribe(q)
          PROVE  \A p \in Readers : reader[p] = "frame" => reader'[p] = "frame"
      BY <1>1, <3>2 DEF Subscribe, ReaderAt, TypeOK
    <3>3. QED BY <1>2, <3>1, <3>2 DEF Stop, CloseSource, CallStart, CancelParent, readers
  <2>2. HandlersOK' /\ ClosingOK'
    BY <1>2, <2>1, HandlersKept, ClosingKept DEF subscription
  <2>3. QED BY <1>1, <1>2, <2>2 DEF ProgramOK, subscription, session
<1>3. CASE Run
  BY <1>2, <1>3 DEF Run, Capture, SnifferAlone
<1>4. CASE ClientCalls
  BY <1>2, <1>4 DEF ClientCalls, SnifferAlone
<1>5. ASSUME NEW q \in Readers, ExampleSubscribes(q) PROVE SessionTypeInv'
  BY <1>2, <1>5 DEF ExampleSubscribes, SnifferAlone
<1>6. ASSUME NEW q \in Readers, Serve(q) PROVE SessionTypeInv'
  <2>1. HandlersOK'
    BY <1>1, <1>6, HandlersServe DEF Serve
  <2>2. UNCHANGED <<kind, closing, shut>> /\ process' \in {process, "panicked"}
    BY <1>6 DEF Serve, SubscribeStep, SnifferAlone, subscription, Take, Callback, Send,
                SendOnClosed, FailFrame, EndFrame
  <2>3. QED BY <1>1, <1>6, <2>1, <2>2, ClosingKept DEF Serve, ProgramOK, session
<1>7. ASSUME NEW q \in Readers, ClientCloses(q) \/ ExampleCloses(q) PROVE SessionTypeInv'
  <2>1. CloseStep(q) /\ UNCHANGED session
    BY <1>7 DEF ClientCloses, ExampleCloses
  <2>2. UNCHANGED <<kind, handlers, process, reader>>
    BY <2>1 DEF CloseStep, CloseStops, CloseChannel, Stop, readers, vars
  <2>3. HandlersOK' /\ ClosingOK'
    BY <2>1, <2>2, HandlersKept, ClosingStep
  <2>4. QED BY <1>1, <2>1, <2>2, <2>3 DEF ProgramOK, session
<1>8. ASSUME NEW q \in Readers, ClientReceives(q) \/ ExampleReceives(q) PROVE SessionTypeInv'
  <2>1. /\ sending' = [sending EXCEPT ![q] = FALSE]
        /\ UNCHANGED <<reader, kind, frame, closing, shut, process, session>>
    BY <1>8 DEF ClientReceives, ExampleReceives, Receive, vars, readers
  <2>2. HandlersOK'
    BY <2>1 DEF HandlersOK, Target
  <2>3. QED BY <1>1, <2>1, <2>2, ClosingKept DEF ProgramOK, session
<1>9. ASSUME \/ Signal \/ ExampleDefers \/ UNCHANGED sessionVars
             \/ \E q \in Readers : ExampleFails(q) \/ ExampleExits(q)
      PROVE  SessionTypeInv'
  <2>1. UNCHANGED <<reader, kind, handlers, closing, shut>>
    BY <1>9 DEF Signal, ExampleDefers, ExampleFails, ExampleExits, sessionVars, allVars,
                subscription, vars, readers
  <2>2. ProgramOK'
    BY <1>9 DEF ProgramOK, Signal, ExampleDefers, ExampleFails, ExampleExits, sessionVars,
                allVars, subscription, session
  <2>3. QED BY <1>1, <2>1, <2>2, HandlersKept, ClosingKept
<1>10. QED
  BY <1>3, <1>4, <1>5, <1>6, <1>7, <1>8, <1>9 DEF SessionNext, Main

LEMMA SessionTypeInit == SessionInit => SessionTypeInv
<1> SUFFICES ASSUME SessionInit PROVE SessionTypeInv
  OBVIOUS
<1>1. TypeInv
  BY TypeInit DEF SessionInit, SubscriberInit
<1>2. ProgramOK
  <2>1. PICK setup \in (IF Example THEN {ExampleSetup} ELSE Setups) :
          /\ reads = [q \in Readers |-> setup[q].reads]
          /\ closes = [q \in Readers |-> setup[q].closes]
    BY DEF SessionInit
  <2>2. setup \in [Readers -> [kind : Kinds, reads : SUBSET AllChannels, closes : Closes]]
    BY <2>1, SessionAssumption DEF ExampleSetup, Kinds, AllChannels, Closes
  <2>3. QED BY <2>1, <2>2 DEF SessionInit, SubscriberInit, ProgramOK
<1>3. HandlersOK
  BY NoFrameType DEF SessionInit, SubscriberInit, HandlersOK
<1>4. ClosingOK
  <2>1. \A q \in Readers : 0 \in 0..Len(Channels[kind[q]]) + 1
    BY ChannelLists DEF SessionInit, SubscriberInit
  <2>2. \A q \in Readers : ClosedAfter(kind[q], 0) = {}
    BY DEF ClosedAfter
  <2>3. QED BY <2>1, <2>2 DEF SessionInit, SubscriberInit, ClosingOK
<1>5. QED BY <1>1, <1>2, <1>3, <1>4 DEF SessionTypeInv

(* In every program a handler that sends still has its frame and sends on  *)
(* a channel of its own subscriber (subscriber_gameevent.go:54), and Close *)
(* has closed the channels it has got to, in their order and no others     *)
(* (subscriber_gameevent.go:69).                                           *)
THEOREM SessionTypeCorrect == SessionSpec => []SessionTypeOK
<1>1. SessionTypeInv => SessionTypeOK
  BY DEF SessionTypeInv, SessionTypeOK, SubscriberTypeOK, TypeInv, HandlersOK, ClosingOK,
         ProgramOK, FrameType
<1>2. QED BY <1>1, SessionTypeInit, SessionTypeNext, PTL DEF SessionSpec

-----------------------------------------------------------------------------
(***************************************************************************)
(* Why a Subscribe returns.  ProcessFrames returns nil because the state   *)
(* is not running, which alone says little: the state also is not running  *)
(* before a Start has published it.  For a client that takes no liberty    *)
(* the Start that a reader has read from is past that point (PastPublish), *)
(* it is still the one whose context the field holds, and a Start leaves   *)
(* its loop only for a done context or a closed source (LeftForAReason).   *)
(***************************************************************************)
Unpublished == {"idle", "setCtx", "setCancel", "defer", "setRunning"}
Left == {"flush", "return", "returned"}

LeftForAReason == \A r \in Runs : run[r] \in Left => r \in done \/ closed

PastPublish ==
  \A q \in Readers :
    /\ Reading(q) => run[ctx] \notin Unpublished
    /\ reader[q] \in {"waiting", "frame"} => rwatch[q] = ctx

ReasonInv == CarefulInv /\ LeftForAReason /\ PastPublish /\ ReturnsForAReason

LEMMA ReasonInit == Init => ReasonInv
<1>1. Init => CarefulInv
  BY SerialInit DEF Init, CarefulInv, CtxStable, NoPanic, Reading
<1>2. Init => LeftForAReason /\ PastPublish /\ ReturnsForAReason
  BY DEF Init, LeftForAReason, Left, PastPublish, Reading, ReturnsForAReason
<1>3. QED BY <1>1, <1>2 DEF ReasonInv

LEMMA ReasonStart ==
  ASSUME ReasonInv, NEW r \in Runs, StartStep(r)
  PROVE  LeftForAReason' /\ PastPublish' /\ ReturnsForAReason'
<1> USE SnifferAssumption
        DEF ReasonInv, CarefulInv, SerialInv, TypeInv, TypeOK, FieldsOwned, CtxStable,
            LeftForAReason, Left, PastPublish, Unpublished, Reading, ReturnsForAReason,
            PastCancel, PastDefer, At, fields, starts, source, frames, readers
<1>1. CASE SetCtx(r)        BY <1>1 DEF SetCtx
<1>2. CASE SetCancel(r)     BY <1>2 DEF SetCancel
<1>3. CASE DeferCancel(r)   BY <1>3 DEF DeferCancel
<1>4. CASE SetRunning(r)    BY <1>4 DEF SetRunning
<1>5. CASE EnterSelect(r)   BY <1>5 DEF EnterSelect
<1>6. CASE SeeDone(r)       BY <1>6 DEF SeeDone
<1>7. CASE ReceivePacket(r) BY <1>7 DEF ReceivePacket
<1>8. CASE Tick(r)          BY <1>8 DEF Tick
<1>9. CASE SeeEnd(r)        BY <1>9 DEF SeeEnd
<1>10. CASE QueueFrame(r)   BY <1>10 DEF QueueFrame
<1>11. CASE EndAssemble(r)
  <2>1. CASE At(r, {"assemble"}) /\ run' = [run EXCEPT ![r] = "loop"]
    BY <1>11, <2>1 DEF EndAssemble
  <2>2. CASE At(r, {"flush"}) /\ run' = [run EXCEPT ![r] = "return"]
    BY <1>11, <2>2 DEF EndAssemble
  <2>3. QED BY <1>11, <2>1, <2>2 DEF EndAssemble
<1>12. CASE Return(r)       BY <1>12 DEF Return
<1>13. QED
  BY <1>1, <1>2, <1>3, <1>4, <1>5, <1>6, <1>7, <1>8, <1>9, <1>10, <1>11, <1>12
     DEF StartStep

LEMMA ReasonReader ==
  ASSUME ReasonInv, NEW q \in Readers, ReaderStep(q)
  PROVE  LeftForAReason' /\ PastPublish' /\ ReturnsForAReason'
<1> USE DEF ReasonInv, CarefulInv, SerialInv, TypeInv, TypeOK, CtxStable, LeftForAReason,
            PastPublish, Reading, ReturnsForAReason, ReaderAt, fields, starts, source
<1>1. CASE EnterNextFrame(q)
  <2>1. CASE ctx = None   BY <1>1, <2>1 DEF EnterNextFrame
  <2>2. CASE ctx # None   BY <1>1, <2>2 DEF EnterNextFrame
  <2>3. QED BY <2>1, <2>2
<1>2. CASE TakeFrame(q)        BY <1>2 DEF TakeFrame
<1>3. CASE SeeDoneNextFrame(q) BY <1>3 DEF SeeDoneNextFrame, NoPanic
<1>4. CASE ProcessFrame(q)
  <2>1. ctx \in Runs /\ rwatch[q] = ctx /\ run[ctx] \notin Unpublished
    BY <1>4 DEF ProcessFrame
  <2>2. ~IsActive => ctx \in done \/ closed
    <3>1. ~IsActive => ~Capturing(ctx)
      BY <2>1 DEF IsActive, ActiveIsAccurate
    <3>2. QED BY <2>1, <3>1 DEF Capturing, Unpublished, Left, RunSteps
  <2>3. QED BY <1>4, <2>1, <2>2 DEF ProcessFrame
<1>5. QED BY <1>1, <1>2, <1>3, <1>4 DEF ReaderStep

LEMMA ReasonNext ==
  ASSUME Usage = {}, ReasonInv, [Next]_vars
  PROVE  ReasonInv'
<1>1. CarefulInv'
  BY CarefulNext DEF ReasonInv
<1>2. SUFFICES LeftForAReason' /\ PastPublish' /\ ReturnsForAReason'
  BY <1>1 DEF ReasonInv
<1> USE DEF ReasonInv, CarefulInv, SerialInv, TypeInv, TypeOK, CtxStable, LeftForAReason,
            PastPublish, Reading, ReturnsForAReason
<1>3. CASE \/ Stop \/ CloseSource \/ UNCHANGED vars
           \/ \E r \in Runs : CancelParent(r)
  <2>1. /\ UNCHANGED <<ctx, run, reader, rwatch>>
        /\ done \subseteq done' /\ (closed => closed')
    BY <1>3 DEF Stop, CloseSource, CancelParent, vars, fields, starts, source, readers
  <2>2. QED BY <2>1
<1>4. ASSUME NEW r \in Runs, CallStart(r)
      PROVE  LeftForAReason' /\ PastPublish' /\ ReturnsForAReason'
  BY <1>4 DEF CallStart, MayStart, At, Left, fields, source, readers
<1>5. ASSUME NEW r \in Runs, StartStep(r)
      PROVE  LeftForAReason' /\ PastPublish' /\ ReturnsForAReason'
  BY <1>5, ReasonStart
<1>6. ASSUME NEW q \in Readers, Subscribe(q)
      PROVE  LeftForAReason' /\ PastPublish' /\ ReturnsForAReason'
  <2>1. PICK r \in Runs : Capturing(r)
    BY <1>6 DEF Subscribe, IsActive, ActiveIsAccurate
  <2>2. ctx = r /\ run[r] \notin Unpublished
    BY <2>1 DEF FieldsOwned, Active, Started, Capturing, Unpublished
  <2>3. /\ UNCHANGED <<ctx, run, rwatch, done, closed>>
        /\ reader' = [reader EXCEPT ![q] = "nextFrame"]
    BY <1>6 DEF Subscribe, fields, source
  <2>4. QED BY <2>2, <2>3
<1>7. ASSUME NEW q \in Readers, ReaderStep(q)
      PROVE  LeftForAReason' /\ PastPublish' /\ ReturnsForAReason'
  BY <1>7, ReasonReader
<1>8. QED BY <1>3, <1>4, <1>5, <1>6, <1>7 DEF Next

(* ProcessFrames "blocks until the Sniffer is stopped, or an error occurs" *)
(* (sniffer.go:263): in every program that takes none of the liberties a   *)
(* Subscribe returns nil, or the error of its context, only after the      *)
(* context of the Start it read from is done or the source has ended.      *)
THEOREM ReturnsReasonably == ASSUME Usage = {} PROVE SessionSpec => []ReturnsForAReason
<1>1. ReasonInv /\ [Next]_vars => ReasonInv'
  BY ReasonNext
<1>2. ReasonInv => ReturnsForAReason
  BY DEF ReasonInv
<1>3. QED BY <1>1, <1>2, ReasonInit, SessionRefines, PTL DEF Spec
=============================================================================
