----------------------------- MODULE Subscriber -----------------------------
(***************************************************************************)
(* Subscribers on a Sniffer: what each Subscribe of module Sniffer does    *)
(* with the messages of a frame (subscriber_gameevent.go,                  *)
(* subscriber_keepalive.go), its unbuffered channels, and Close.           *)
(*                                                                         *)
(* Every step of a Sniffer is a step of this system, and every step of     *)
(* this system is a step of the Sniffer or leaves the Sniffer alone.  What *)
(* a frame and a message look like is left to Dispatch: here a frame has a *)
(* direction and some messages of the subscriber's segment, and any        *)
(* message may fail to decode.                                             *)
(***************************************************************************)
EXTENDS Sniffer, Sequences

CONSTANT MaxMessages \* bound: messages of a frame

(* GameEventSubscriber, KeepaliveSubscriber, GameEventHandler and          *)
(* KeepaliveHandler.                                                       *)
Kinds == {"gameEvent", "keepalive", "eventHandler", "keepaliveHandler"}

(* The channels in the order in which Close closes them. *)
Channels == [gameEvent |-> <<"ingress", "egress">>, keepalive |-> <<"events">>,
             eventHandler |-> <<>>, keepaliveHandler |-> <<>>]

ASSUME SubscriberAssumption == MaxMessages \in Nat

VARIABLES
  kind,    \* which subscriber each Subscribe belongs to
  frame,   \* the frame it processes
  sending, \* its handler is sending a message
  closing, \* steps of its Close that have been taken
  shut,    \* channels of its subscriber that have been closed
  process  \* whether the process runs, or how it has ended

handlers     == <<frame, sending>>
subscription == <<kind, handlers, closing, shut, process>>
allVars      == <<vars, subscription>>

(* The channels of a subscriber of a kind, and those that the first steps  *)
(* of its Close have closed.                                               *)
ChannelsOf(k) == {Channels[k][i] : i \in DOMAIN Channels[k]}
ClosedAfter(k, steps) == {Channels[k][i] : i \in 1..steps - 1}

(* Frame.Direction, from whether the addresses are private. *)
Directions == {"ingress", "egress", "undetermined"}
Direction(src, dst) ==
  CASE dst /\ ~src -> "ingress"
    [] src /\ ~dst -> "egress"
    [] OTHER       -> "undetermined"

(* A frame: its direction, and its messages that are still to be handled. *)
(* Of a frame without such a message nobody asks for the direction.       *)
NoFrame == [direction |-> "undetermined", todo |-> 0]
Frames == {NoFrame} \cup {[direction |-> Direction(src, dst), todo |-> n] :
                            src \in BOOLEAN, dst \in BOOLEAN, n \in 1..MaxMessages}

(* Where the handler of q sends the messages of its frame. *)
Target(q) == IF kind[q] = "keepalive" THEN "events" ELSE frame[q].direction

SubscriberTypeOK ==
  /\ kind \in [Readers -> Kinds]
  /\ frame \in [Readers -> [direction : Directions, todo : 0..MaxMessages]]
  /\ sending \in [Readers -> BOOLEAN]
  /\ \A q \in Readers :
       /\ sending[q] \/ frame[q] # NoFrame => reader[q] = "frame"
       /\ sending[q] => Target(q) \in ChannelsOf(kind[q])
       /\ closing[q] \in 0..Len(Channels[kind[q]]) + 1
       /\ shut[q] = ClosedAfter(kind[q], closing[q])
  /\ process \in {"running", "panicked", "exit 0", "exit 1"}

SubscriberInit ==
  /\ Init
  /\ kind \in [Readers -> Kinds]
  /\ frame = [q \in Readers |-> NoFrame] /\ sending = [q \in Readers |-> FALSE]
  /\ closing = [q \in Readers |-> 0] /\ shut = [q \in Readers |-> {}]
  /\ process = "running"

(* The process has not ended. *)
Alive == crashed = "no" /\ process = "running"

-----------------------------------------------------------------------------
(* Start and the parts of Subscribe that no handler has a part in. *)

SnifferAlone(A) == process = "running" /\ A /\ UNCHANGED subscription

Capture == SnifferAlone(CloseSource \/ \E r \in Runs : StartStep(r))

-----------------------------------------------------------------------------
(* ProcessFrames and the handlers. *)

(* Mutated: ProcessFrames lets one subscriber at a time have a frame. *)
TakeAlone(q) ==
  /\ process = "running" /\ \A p \in Readers : reader[p] # "frame"
  /\ TakeFrame(q)
  /\ \/ reader'[q] = "failed" /\ UNCHANGED frame
     \/ reader'[q] = "frame" /\ \E f \in Frames : frame' = [frame EXCEPT ![q] = f]
  /\ UNCHANGED <<kind, sending, closing, shut, process>>

(* NextFrame returns a frame, or fails to decode it. *)
Take(q) ==
  /\ process = "running" /\ TakeFrame(q)
  /\ \/ reader'[q] = "failed" /\ UNCHANGED frame
     \/ reader'[q] = "frame" /\ \E f \in Frames : frame' = [frame EXCEPT ![q] = f]
  /\ UNCHANGED <<kind, sending, closing, shut, process>>

Handling(q) == Alive /\ reader[q] = "frame" /\ ~sending[q]

(* A GameEvent's frame must tell its direction, a Keepalive's need not. *)
Deliverable(q) ==
  kind[q] \in {"gameEvent", "eventHandler"} => frame[q].direction # "undetermined"

(* A handler has decoded a message: it calls its callback, which returns. *)
Callback(q) ==
  /\ Handling(q) /\ frame[q].todo > 0 /\ Deliverable(q)
  /\ kind[q] \in {"eventHandler", "keepaliveHandler"}
  /\ frame' = [frame EXCEPT ![q].todo = @ - 1]
  /\ UNCHANGED <<vars, kind, sending, closing, shut, process>>

(* The same with a channel to send the message on. *)
Send(q) ==
  /\ Handling(q) /\ frame[q].todo > 0 /\ Deliverable(q)
  /\ kind[q] \in {"gameEvent", "keepalive"}
  /\ frame' = [frame EXCEPT ![q].todo = @ - 1]
  /\ sending' = [sending EXCEPT ![q] = TRUE]
  /\ UNCHANGED <<vars, kind, closing, shut, process>>

(* The send meets a receive of the client. *)
Receive(q, c) ==
  /\ Alive /\ sending[q] /\ Target(q) = c /\ c \notin shut[q]
  /\ sending' = [sending EXCEPT ![q] = FALSE]
  /\ UNCHANGED <<vars, kind, frame, closing, shut, process>>

(* A send on a closed channel, begun before or after the close, panics. *)
SendOnClosed(q) ==
  /\ Alive /\ sending[q] /\ Target(q) \in shut[q]
  /\ process' = "panicked"
  /\ UNCHANGED <<vars, kind, handlers, closing, shut>>

(* ProcessFrames returns an error: the frame's reader cannot be set up, or *)
(* a message cannot be decoded or delivered.                               *)
FailFrame(q) ==
  /\ Handling(q) /\ ProcessFrame(q) /\ reader'[q] = "failed"
  /\ frame' = [frame EXCEPT ![q] = NoFrame]
  /\ UNCHANGED <<kind, sending, closing, shut, process>>

(* After a frame ProcessFrames returns nil if the Sniffer is not active. *)
EndFrame(q) ==
  /\ Handling(q) /\ frame[q].todo = 0
  /\ ProcessFrame(q) /\ reader'[q] # "failed"
  /\ frame' = [frame EXCEPT ![q] = NoFrame]
  /\ UNCHANGED <<kind, sending, closing, shut, process>>

(* Mutated SubscribeStep: NextFrame only waits for a frame. *)
SubscribeDeaf(q) ==
  \/ SnifferAlone(EnterNextFrame(q))
  \/ Take(q) \/ Callback(q) \/ Send(q) \/ SendOnClosed(q) \/ FailFrame(q) \/ EndFrame(q)

SubscribeStep(q) ==
  \/ SnifferAlone(EnterNextFrame(q) \/ SeeDoneNextFrame(q))
  \/ Take(q) \/ Callback(q) \/ Send(q) \/ SendOnClosed(q) \/ FailFrame(q) \/ EndFrame(q)

-----------------------------------------------------------------------------
(* Close: Stop, then one channel after the other. *)

CloseStops(q) ==
  /\ closing[q] = 0
  /\ Stop \/ (cancel = None /\ UNCHANGED vars)
  /\ UNCHANGED shut

(* Mutated CloseChannel: it closes the first channel each time. *)
CloseFirst(q) ==
  /\ closing[q] > 0
  /\ shut' = [shut EXCEPT ![q] = @ \cup {Channels[kind[q]][1]}]
  /\ UNCHANGED vars

CloseChannel(q) ==
  /\ closing[q] > 0
  /\ shut' = [shut EXCEPT ![q] = @ \cup {Channels[kind[q]][closing[q]]}]
  /\ UNCHANGED vars

(* Mutated CloseStep: the channels are closed only after Subscribe has returned. *)
CloseStepWaits(q) ==
  /\ Alive /\ closing[q] <= Len(Channels[kind[q]])
  /\ CloseStops(q) \/ (~Reading(q) /\ CloseChannel(q))
  /\ closing' = [closing EXCEPT ![q] = @ + 1]
  /\ UNCHANGED <<kind, handlers, process>>

CloseStep(q) ==
  /\ Alive /\ closing[q] <= Len(Channels[kind[q]])
  /\ CloseStops(q) \/ CloseChannel(q)
  /\ closing' = [closing EXCEPT ![q] = @ + 1]
  /\ UNCHANGED <<kind, handlers, process>>

ClosedBy(q) == closing[q] > Len(Channels[kind[q]])
=============================================================================
