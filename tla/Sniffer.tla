------------------------------- MODULE Sniffer -------------------------------
(***************************************************************************)
(* The life cycle of a Sniffer (sniffer.go): the goroutines that run       *)
(* Start, the goroutines that run Subscribe and with it ProcessFrames and  *)
(* NextFrame, and the fields of the Sniffer struct that they share.        *)
(*                                                                         *)
(* Each call of Start is a member of Runs and derives a context of its     *)
(* own, named like the run.  s.ctx and s.cancel are plain fields: Start    *)
(* writes them without the mutex and NextFrame, Stop and Start itself read *)
(* them without it, so every such access is a step of its own.  state is   *)
(* only accessed under s.mu, so a critical section is one step.            *)
(*                                                                         *)
(* TCP reassembly is reduced to the frames it yields: what matters here is *)
(* that AssembleWithTimestamp and FlushAll return only when every frame    *)
(* they complete has found room in dataCh.  FrameStream models the rest.   *)
(***************************************************************************)
EXTENDS Naturals, FiniteSets

CONSTANTS
  Runs,        \* calls of Start
  Readers,     \* calls of Subscribe
  DataBufSize, \* capacity of dataCh
  MaxPackets,  \* bound: packets the device delivers in a behaviour
  Usage,       \* liberties the client takes, a subset of Liberties
  None         \* the nil context, the nil cancel function

(***************************************************************************)
(* "overlap": Start may be called while an earlier Start has not returned. *)
(* "eager"  : Subscribe may be called while the Sniffer is not running, so *)
(*            that Subscribe starts it.                                    *)
(* "linger" : Start may be called while a Subscribe has not returned.      *)
(***************************************************************************)
Liberties == {"overlap", "eager", "linger"}

ASSUME SnifferAssumption ==
  /\ Runs # {} /\ Readers # {}
  /\ None \notin Runs
  /\ DataBufSize \in Nat \ {0}
  /\ MaxPackets \in Nat
  /\ Usage \subseteq Liberties

VARIABLES
  state,    \* s.state
  ctx,      \* s.ctx: the run whose context it is
  cancel,   \* s.cancel: the run whose context it cancels
  done,     \* contexts whose Done channel is closed
  run,      \* where each Start is
  watch,    \* the context whose Done channel Start's select waits for
  deferred, \* the cancel function Start has deferred
  out,      \* frames the running assembler call has still to queue
  left,     \* packets the device still delivers
  closed,   \* the packet channel is closed
  held,     \* frames the assembler keeps because an earlier segment is missing
  queued,   \* length of dataCh
  reader,   \* where each Subscribe is
  rwatch,   \* the context whose Done channel NextFrame's select waits for
  own,      \* the run that a Subscribe has started itself
  crashed   \* why the process has panicked

fields   == <<state, ctx, cancel, done>>
starts   == <<run, watch, deferred, out>>
source   == <<left, closed>>
frames   == <<held, queued>>
readers  == <<reader, rwatch, own>>
vars     == <<fields, starts, source, frames, readers, crashed>>

RunSteps == {"idle", "setCtx", "setCancel", "defer", "setRunning", "loop",
             "select", "assemble", "flush", "return", "returned"}
ReaderSteps == {"idle", "nextFrame", "waiting", "frame",
                "nil", "cancelled", "failed"}

(* Start has been called and has not returned. *)
Active(r)  == run[r] \notin {"idle", "returned"}

(* Start captures: it has published the running state and not yet left its loop. *)
Capturing(r) == run[r] \in {"loop", "select", "assemble"}

(* Subscribe has been called and has not returned. *)
Reading(q) == reader[q] \in {"nextFrame", "waiting", "frame"}

TypeOK ==
  /\ state \in {"stopped", "running", "finished"}
  /\ ctx \in Runs \cup {None} /\ cancel \in Runs \cup {None}
  /\ done \subseteq Runs
  /\ run \in [Runs -> RunSteps]
  /\ watch \in [Runs -> Runs \cup {None}]
  /\ deferred \in [Runs -> Runs \cup {None}]
  /\ out \in [Runs -> Nat]
  /\ left \in 0..MaxPackets /\ closed \in BOOLEAN
  /\ held \in Nat /\ queued \in 0..DataBufSize
  /\ reader \in [Readers -> ReaderSteps]
  /\ rwatch \in [Readers -> Runs \cup {None}]
  /\ own \in [Readers -> Runs \cup {None}]
  /\ crashed \in {"no", "nil context", "nil frame"}

Init ==
  /\ state = "stopped"
  /\ ctx = None /\ cancel = None /\ done = {}
  /\ run = [r \in Runs |-> "idle"]
  /\ watch = [r \in Runs |-> None]
  /\ deferred = [r \in Runs |-> None]
  /\ out = [r \in Runs |-> 0]
  /\ left = MaxPackets /\ closed = FALSE
  /\ held = 0 /\ queued = 0
  /\ reader = [q \in Readers |-> "idle"]
  /\ rwatch = [q \in Readers |-> None]
  /\ own = [q \in Readers |-> None]
  /\ crashed = "no"

-----------------------------------------------------------------------------
(* A panic in any goroutine ends the process: no step follows it. *)
At(r, steps) == crashed = "no" /\ run[r] \in steps
ReaderAt(q, steps) == crashed = "no" /\ reader[q] \in steps

IsActive == state = "running"

-----------------------------------------------------------------------------
(* The client. *)

MayStart ==
  /\ "overlap" \in Usage \/ \A r \in Runs : ~Active(r)
  /\ "linger" \in Usage \/ \A q \in Readers : ~Reading(q)

(* The client calls Start in a goroutine. *)
CallStart(r) ==
  /\ At(r, {"idle"}) /\ MayStart
  /\ run' = [run EXCEPT ![r] = "setCtx"]
  /\ UNCHANGED <<fields, watch, deferred, out, source, frames, readers, crashed>>

(* Stop: a nil cancel function makes it a no-op. *)
Stop ==
  /\ crashed = "no" /\ cancel # None
  /\ done' = done \cup {cancel}
  /\ UNCHANGED <<state, ctx, cancel, starts, source, frames, readers, crashed>>

(* The client cancels the context it has passed to Start or to Subscribe. *)
CancelParent(r) ==
  /\ At(r, RunSteps \ {"idle"})
  /\ done' = done \cup {r}
  /\ UNCHANGED <<state, ctx, cancel, starts, source, frames, readers, crashed>>

(* Mutated Subscribe: it leaves starting the Sniffer to the client. *)
SubscribeOnly(q) ==
  /\ ReaderAt(q, {"idle"})
  /\ reader' = [reader EXCEPT ![q] = "nextFrame"]
  /\ UNCHANGED <<fields, starts, source, frames, rwatch, own, crashed>>

(* Subscribe: start the Sniffer unless IsActive, then enter ProcessFrames. *)
Subscribe(q) ==
  /\ ReaderAt(q, {"idle"})
  /\ reader' = [reader EXCEPT ![q] = "nextFrame"]
  /\ \/ /\ IsActive
        /\ UNCHANGED <<run, own>>
     \/ /\ ~IsActive
        /\ "eager" \in Usage /\ MayStart
        /\ \E r \in Runs :
             /\ run[r] = "idle"
             /\ run' = [run EXCEPT ![r] = "setCtx"]
             /\ own' = [own EXCEPT ![q] = r]
  /\ UNCHANGED <<fields, watch, deferred, out, source, frames, rwatch, crashed>>

(* The pcap file is exhausted, or the device has gone: no packet follows. *)
CloseSource ==
  /\ crashed = "no" /\ left = 0 /\ ~closed
  /\ closed' = TRUE
  /\ UNCHANGED <<fields, starts, left, frames, readers, crashed>>

-----------------------------------------------------------------------------
(* Start. *)

(* s.ctx, s.cancel = context.WithCancel(ctx): two stores, s.ctx first. *)
SetCtx(r) ==
  /\ At(r, {"setCtx"})
  /\ ctx' = r
  /\ run' = [run EXCEPT ![r] = "setCancel"]
  /\ UNCHANGED <<state, cancel, done, watch, deferred, out, source, frames, readers, crashed>>

(* Mutated SetCancel: a cancel function is kept once there is one. *)
SetCancelOnce(r) ==
  /\ At(r, {"setCancel"})
  /\ cancel' = IF cancel = None THEN r ELSE cancel
  /\ run' = [run EXCEPT ![r] = "defer"]
  /\ UNCHANGED <<state, ctx, done, watch, deferred, out, source, frames, readers, crashed>>

SetCancel(r) ==
  /\ At(r, {"setCancel"})
  /\ cancel' = r
  /\ run' = [run EXCEPT ![r] = "defer"]
  /\ UNCHANGED <<state, ctx, done, watch, deferred, out, source, frames, readers, crashed>>

(* defer s.cancel(): the field is read here, the function is called on return. *)
DeferCancel(r) ==
  /\ At(r, {"defer"})
  /\ deferred' = [deferred EXCEPT ![r] = cancel]
  /\ run' = [run EXCEPT ![r] = "setRunning"]
  /\ UNCHANGED <<fields, watch, out, source, frames, readers, crashed>>

SetRunning(r) ==
  /\ At(r, {"setRunning"})
  /\ state' = "running"
  /\ run' = [run EXCEPT ![r] = "loop"]
  /\ UNCHANGED <<ctx, cancel, done, watch, deferred, out, source, frames, readers, crashed>>

(* Entering the select evaluates s.ctx.Done(): the field is read anew. *)
EnterSelect(r) ==
  /\ At(r, {"loop"})
  /\ watch' = [watch EXCEPT ![r] = ctx]
  /\ run' = [run EXCEPT ![r] = "select"]
  /\ UNCHANGED <<fields, deferred, out, source, frames, readers, crashed>>

(* case <-s.ctx.Done(): publish the stopped state, then FlushAll, which    *)
(* releases every frame the assembler holds.                               *)
SeeDone(r) ==
  /\ At(r, {"select"}) /\ watch[r] \in done
  /\ state' = "stopped"
  /\ out' = [out EXCEPT ![r] = held]
  /\ held' = 0
  /\ run' = [run EXCEPT ![r] = "flush"]
  /\ UNCHANGED <<ctx, cancel, done, watch, deferred, source, queued, readers, crashed>>

(* case packet := <-packets with a packet: it is not TCP or completes no   *)
(* frame, or it completes one that has to wait for a missing segment, or   *)
(* it completes frames, with those that waited for it.                     *)
ReceivePacket(r) ==
  /\ At(r, {"select"}) /\ left > 0
  /\ left' = left - 1
  /\ \/ /\ run' = [run EXCEPT ![r] = "loop"]
        /\ held' \in {held, held + 1}
        /\ UNCHANGED out
     \/ /\ run' = [run EXCEPT ![r] = "assemble"]
        /\ \E n \in {0, held} :
             /\ out' = [out EXCEPT ![r] = n + 1]
             /\ held' = held - n
  /\ UNCHANGED <<fields, watch, deferred, closed, queued, readers, crashed>>

(* case t := <-ticker.C: FlushWithOptions gives up on gaps older than three *)
(* seconds and so releases some of the frames the assembler holds.         *)
Tick(r) ==
  /\ At(r, {"select"})
  /\ \E n \in 1..held :
       /\ out' = [out EXCEPT ![r] = n]
       /\ held' = held - n
  /\ run' = [run EXCEPT ![r] = "assemble"]
  /\ UNCHANGED <<fields, watch, deferred, source, queued, readers, crashed>>

(* Mutated SeeEnd: the state is not published. *)
SeeEndSilently(r) ==
  /\ At(r, {"select"}) /\ left = 0 /\ closed
  /\ run' = [run EXCEPT ![r] = "return"]
  /\ UNCHANGED <<fields, watch, deferred, out, source, frames, readers, crashed>>

(* case packet := <-packets with the nil packet of a closed channel: the   *)
(* state is published and Start returns io.EOF; nothing is flushed.        *)
SeeEnd(r) ==
  /\ At(r, {"select"}) /\ left = 0 /\ closed
  /\ state' = "finished"
  /\ run' = [run EXCEPT ![r] = "return"]
  /\ UNCHANGED <<ctx, cancel, done, watch, deferred, out, source, frames, readers, crashed>>

(* There is room in dataCh; mutated, room for one frame too many. *)
RoomOffByOne == queued <= DataBufSize
Room == queued < DataBufSize

(* A reassembler goroutine queues a frame; the assembler call waits for it. *)
QueueFrame(r) ==
  /\ At(r, {"assemble", "flush"}) /\ out[r] > 0
  /\ Room
  /\ queued' = queued + 1
  /\ out' = [out EXCEPT ![r] = @ - 1]
  /\ UNCHANGED <<fields, run, watch, deferred, source, held, readers, crashed>>

(* Mutated EndAssemble: after FlushAll, too, Start goes on with its loop. *)
EndAssembleLoops(r) ==
  /\ At(r, {"assemble", "flush"}) /\ out[r] = 0
  /\ run' = [run EXCEPT ![r] = "loop"]
  /\ UNCHANGED <<fields, watch, deferred, out, source, frames, readers, crashed>>

(* The assembler call returns: back to the loop, or return nil after FlushAll. *)
EndAssemble(r) ==
  /\ out[r] = 0
  /\ \/ At(r, {"assemble"}) /\ run' = [run EXCEPT ![r] = "loop"]
     \/ At(r, {"flush"}) /\ run' = [run EXCEPT ![r] = "return"]
  /\ UNCHANGED <<fields, watch, deferred, out, source, frames, readers, crashed>>

(* Mutated Return: no cancel function is deferred. *)
ReturnUncancelled(r) ==
  /\ At(r, {"return"})
  /\ run' = [run EXCEPT ![r] = "returned"]
  /\ UNCHANGED <<fields, watch, deferred, out, source, frames, readers, crashed>>

(* Mutated Return: the state is set to stopped however Start ends. *)
ReturnStopped(r) ==
  /\ At(r, {"return"})
  /\ state' = "stopped"
  /\ done' = done \cup {deferred[r]}
  /\ run' = [run EXCEPT ![r] = "returned"]
  /\ UNCHANGED <<ctx, cancel, watch, deferred, out, source, frames, readers, crashed>>

(* Start returns: its deferred cancel function runs. *)
Return(r) ==
  /\ At(r, {"return"})
  /\ done' = done \cup {deferred[r]}
  /\ run' = [run EXCEPT ![r] = "returned"]
  /\ UNCHANGED <<state, ctx, cancel, watch, deferred, out, source, frames, readers, crashed>>

StartStep(r) ==
  \/ SetCtx(r) \/ SetCancel(r) \/ DeferCancel(r) \/ SetRunning(r)
  \/ EnterSelect(r) \/ SeeDone(r) \/ ReceivePacket(r) \/ Tick(r) \/ SeeEnd(r)
  \/ QueueFrame(r) \/ EndAssemble(r) \/ Return(r)

-----------------------------------------------------------------------------
(* NextFrame and ProcessFrames. *)

(* NextFrame's select evaluates s.ctx.Done(): a method call on a nil       *)
(* interface if no Start has stored a context yet.                         *)
EnterNextFrame(q) ==
  /\ ReaderAt(q, {"nextFrame"})
  /\ IF ctx = None
       THEN /\ crashed' = "nil context"
            /\ UNCHANGED <<reader, rwatch>>
       ELSE /\ rwatch' = [rwatch EXCEPT ![q] = ctx]
            /\ reader' = [reader EXCEPT ![q] = "waiting"]
            /\ UNCHANGED crashed
  /\ UNCHANGED <<fields, starts, source, frames, own>>

(* case data := <-s.dataCh: a frame, or one that fails to decode. *)
TakeFrame(q) ==
  /\ ReaderAt(q, {"waiting"}) /\ queued > 0
  /\ queued' = queued - 1
  /\ \E step \in {"frame", "failed"} : reader' = [reader EXCEPT ![q] = step]
  /\ UNCHANGED <<fields, starts, source, held, rwatch, own, crashed>>

(* case <-s.ctx.Done(): return nil, s.ctx.Err().  The field is read again; *)
(* the error is nil if it now holds a context that is not done, and then   *)
(* ProcessFrames goes on with a nil frame.                                 *)
SeeDoneNextFrame(q) ==
  /\ ReaderAt(q, {"waiting"}) /\ rwatch[q] \in done
  /\ IF ctx \in done
       THEN /\ reader' = [reader EXCEPT ![q] = "cancelled"]
            /\ UNCHANGED crashed
       ELSE /\ crashed' = "nil frame"
            /\ UNCHANGED reader
  /\ UNCHANGED <<fields, starts, source, frames, rwatch, own>>

(* Mutated ProcessFrame: the state of the Sniffer is not looked at. *)
ProcessFrameOnce(q) ==
  /\ ReaderAt(q, {"frame"})
  /\ \E step \in {"failed", "nil"} : reader' = [reader EXCEPT ![q] = step]
  /\ UNCHANGED <<fields, starts, source, frames, rwatch, own, crashed>>

(* ProcessFrames hands the messages of the frame to the handler; an error  *)
(* ends it, otherwise IsActive decides between the next frame and return.  *)
ProcessFrame(q) ==
  /\ ReaderAt(q, {"frame"})
  /\ \/ reader' = [reader EXCEPT ![q] = "failed"]
     \/ reader' = [reader EXCEPT ![q] = IF IsActive THEN "nextFrame" ELSE "nil"]
  /\ UNCHANGED <<fields, starts, source, frames, rwatch, own, crashed>>

ReaderStep(q) ==
  EnterNextFrame(q) \/ TakeFrame(q) \/ SeeDoneNextFrame(q) \/ ProcessFrame(q)

-----------------------------------------------------------------------------
Next ==
  \/ Stop
  \/ CloseSource
  \/ \E r \in Runs : CallStart(r) \/ CancelParent(r) \/ StartStep(r)
  \/ \E q \in Readers : Subscribe(q) \/ ReaderStep(q)

(* The Go scheduler runs every goroutine that can run; the client and the  *)
(* device owe nothing.                                                     *)
Fairness ==
  /\ \A r \in Runs : WF_vars(StartStep(r))
  /\ \A q \in Readers : WF_vars(ReaderStep(q))

Spec == Init /\ [][Next]_vars
FairSpec == Spec /\ Fairness
-----------------------------------------------------------------------------
(* Safety. *)

(* What Stop cancels is what a capturing Start waits for: while the Sniffer *)
(* captures, Stop (sniffer.go:216) is neither a no-op nor does it cancel    *)
(* the context of some other Start.                                         *)
StopReachesCapture ==
  \A r \in Runs : Capturing(r) =>
    /\ cancel # None
    /\ run[r] = "select" => watch[r] = cancel

(* IsActive reports whether the Sniffer is currently capturing             *)
(* (sniffer.go:147): the state is "running" exactly while a Start is in    *)
(* its capture loop.                                                       *)
ActiveIsAccurate == state = "running" <=> \E r \in Runs : Capturing(r)

(* A Subscribe blocked in NextFrame (sniffer.go:236) either can run, since  *)
(* its context is done, or waits for the context of a Start that has not   *)
(* returned and will cancel that very context when it does.                *)
ReaderNotStranded ==
  \A q \in Readers : reader[q] = "waiting" /\ rwatch[q] \notin done =>
    /\ Active(rwatch[q])
    /\ run[rwatch[q]] \notin {"setCtx", "setCancel", "defer"} =>
         deferred[rwatch[q]] = rwatch[q]

(* No goroutine panics: NextFrame finds a context (sniffer.go:254) and     *)
(* never returns a nil frame with a nil error (sniffer.go:255).            *)
NoPanic == crashed = "no"
NoNilContext == crashed # "nil context"
NoNilFrame == crashed # "nil frame"

(* ProcessFrames "blocks until the Sniffer is stopped, or an error occurs"  *)
(* (sniffer.go:263): it returns without an error of its own only when the   *)
(* context of the Start it read from is done, or its source has ended.  So  *)
(* it is for clients that take none of the liberties, though a frame may be *)
(* left in dataCh from an earlier run; it is not for a Subscribe that has   *)
(* to start the Sniffer itself.                                             *)
ReturnsForAReason ==
  \A q \in Readers : reader[q] \in {"nil", "cancelled"} => rwatch[q] \in done \/ closed

(* "Subscribers auto-start the Sniffer if it is not already running"        *)
(* (doc.go:148): where Subscribes have made all Starts, IsActive            *)
(* (sniffer.go:147) goes on telling whether the Sniffer captures.           *)
SubscribersOnly == \A r \in Runs : run[r] # "idle" => \E q \in Readers : own[q] = r
ActiveWhenSubscribed == SubscribersOnly => ActiveIsAccurate

(* Subscribe "blocks until the context is cancelled, the Sniffer is         *)
(* stopped, or an error occurs" (subscriber_gameevent.go:30): one that has  *)
(* started the Sniffer itself ends for a done context only if the context   *)
(* it was given, or the Start it has made, is over.                         *)
SubscribeUntilCancelled ==
  \A q \in Readers : reader[q] = "cancelled" /\ own[q] # None => own[q] \in done

(* SnifferStopped, SnifferRunning, SnifferFinished in this order           *)
(* (doc.go:107), and from either end back to running by a new Start: a     *)
(* Sniffer that is not running is never stopped or finished again.         *)
StateOrder ==
  [][state # state' => (state = "running" <=> state' # "running")]_vars

-----------------------------------------------------------------------------
(* Liveness. *)

(* "The Sniffer can be stopped at any time via Stop() or context           *)
(* cancellation" (README.md:18): once its context is done, Start returns.  *)
StopReturns ==
  \A r \in Runs : Active(r) /\ r \in done ~> run[r] = "returned"

(* The same, unless the assembler call in Start (sniffer.go:189,207,210)   *)
(* has a frame to queue, dataCh is full and no Subscribe takes frames: the *)
(* frames of a stopped Start wait for nothing else, also where a second    *)
(* Start finds dataCh filled by the first.                                 *)
Blocked(r) == out[r] > 0 /\ ~Room /\ \A q \in Readers : ~Reading(q)
StopReturnsOrBlocked ==
  \A r \in Runs : Active(r) /\ r \in done ~> run[r] = "returned" \/ Blocked(r)

(* ProcessFrames blocks until the Sniffer is stopped or an error occurs    *)
(* (sniffer.go:263): when the Start it reads from has returned, whether    *)
(* stopped or at the end of a file, it returns too.                        *)
ReadersReleased ==
  \A q \in Readers, r \in Runs :
    Reading(q) /\ rwatch[q] = r /\ run[r] = "returned" ~> ~Reading(q)
=============================================================================
