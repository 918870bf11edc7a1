---------------------------- MODULE SnifferProofs ----------------------------
(***************************************************************************)
(* Proofs about Sniffer, for any number of Starts and Subscribes, any      *)
(* buffer size and any number of packets.  None assumes fairness.          *)
(***************************************************************************)
EXTENDS Sniffer, TLAPS

(***************************************************************************)
(* The type invariant.  That only contexts are ever cancelled, never a nil *)
(* cancel function called, needs that Start reads s.cancel after storing   *)
(* it, and that no step sets it back to nil.                               *)
(***************************************************************************)
PastCancel == {"defer", "setRunning", "loop", "select", "assemble", "flush", "return"}
PastDefer  == PastCancel \ {"defer"}

CancelStored ==
  \A r \in Runs :
    /\ run[r] \in PastCancel => cancel # None
    /\ run[r] \in PastDefer => deferred[r] # None

TypeInv == TypeOK /\ CancelStored

LEMMA TypeStart ==
  ASSUME TypeInv, NEW r \in Runs, StartStep(r)
  PROVE  TypeInv'
<1> USE SnifferAssumption
        DEF TypeInv, TypeOK, CancelStored, PastCancel, PastDefer, At, RunSteps,
            fields, starts, source, frames, readers
<1>1. CASE SetCtx(r)        BY <1>1 DEF SetCtx
<1>2. CASE SetCancel(r)     BY <1>2 DEF SetCancel
<1>3. CASE DeferCancel(r)   BY <1>3 DEF DeferCancel
<1>4. CASE SetRunning(r)    BY <1>4 DEF SetRunning
<1>5. CASE EnterSelect(r)   BY <1>5 DEF EnterSelect
<1>6. CASE SeeDone(r)       BY <1>6 DEF SeeDone
<1>7. CASE ReceivePacket(r) BY <1>7 DEF ReceivePacket
<1>8. CASE Tick(r)          BY <1>8 DEF Tick
<1>9. CASE SeeEnd(r)        BY <1>9 DEF SeeEnd
<1>10. CASE QueueFrame(r)   BY <1>10 DEF QueueFrame, Room
<1>11. CASE EndAssemble(r)
  <2>1. CASE At(r, {"assemble"}) /\ run' = [run EXCEPT ![r] = "loop"]
    BY <1>11, <2>1 DEF EndAssemble
  <2>2. CASE At(r, {"flush"}) /\ run' = [run EXCEPT ![r] = "return"]
    BY <1>11, <2>2 DEF EndAssemble
  <2>3. QED BY <1>11, <2>1, <2>2 DEF EndAssemble
<1>12. CASE Return(r)       BY <1>12 DEF Return
<1>13. QED
  BY <1>1, <1>2, <1>3, <1>4, <1>5, <1>6, <1>7, <1>8, <1>9, <1>10, <1>11, <1>12
     DEF StartStep

LEMMA TypeReader ==
  ASSUME TypeInv, NEW q \in Readers, ReaderStep(q)
  PROVE  TypeInv'
<1> USE SnifferAssumption
        DEF TypeInv, TypeOK, CancelStored, ReaderAt, ReaderSteps,
            fields, starts, source, frames
<1>1. CASE EnterNextFrame(q)
  <2>1. CASE ctx = None BY <1>1, <2>1 DEF EnterNextFrame
  <2>2. CASE ctx # None BY <1>1, <2>2 DEF EnterNextFrame
  <2>3. QED BY <2>1, <2>2
<1>2. CASE TakeFrame(q)        BY <1>2 DEF TakeFrame
<1>3. CASE SeeDoneNextFrame(q) BY <1>3 DEF SeeDoneNextFrame
<1>4. CASE ProcessFrame(q)     BY <1>4 DEF ProcessFrame
<1>5. QED BY <1>1, <1>2, <1>3, <1>4 DEF ReaderStep

LEMMA TypeNext == TypeInv /\ [Next]_vars => TypeInv'
<1> SUFFICES ASSUME TypeInv, [Next]_vars PROVE TypeInv'
  OBVIOUS
<1> USE SnifferAssumption
        DEF TypeInv, TypeOK, CancelStored, PastCancel, PastDefer, At, ReaderAt,
            RunSteps, ReaderSteps, fields, starts, source, frames, readers
<1>1. CASE Stop                                      BY <1>1 DEF Stop
<1>2. CASE CloseSource                               BY <1>2 DEF CloseSource
<1>3. ASSUME NEW r \in Runs, CallStart(r) PROVE TypeInv'    BY <1>3 DEF CallStart
<1>4. ASSUME NEW r \in Runs, CancelParent(r) PROVE TypeInv' BY <1>4 DEF CancelParent
<1>5. ASSUME NEW r \in Runs, StartStep(r) PROVE TypeInv'    BY <1>5, TypeStart
<1>6. ASSUME NEW q \in Readers, Subscribe(q) PROVE TypeInv'
  <2>1. /\ reader' \in [Readers -> ReaderSteps]
        /\ run' \in [Runs -> RunSteps]
        /\ own' \in [Readers -> Runs \cup {None}]
    BY <1>6 DEF Subscribe
  <2>2. CancelStored'
    BY <1>6 DEF Subscribe
  <2>3. QED BY <1>6, <2>1, <2>2 DEF Subscribe
<1>7. ASSUME NEW q \in Readers, ReaderStep(q) PROVE TypeInv' BY <1>7, TypeReader
<1>8. CASE UNCHANGED vars                            BY <1>8 DEF vars
<1>9. QED BY <1>1, <1>2, <1>3, <1>4, <1>5, <1>6, <1>7, <1>8 DEF Next

LEMMA TypeInit == Init => TypeInv
<1> SUFFICES ASSUME Init PROVE TypeInv
  OBVIOUS
<1>1. TypeOK
  <2>1. /\ state \in {"stopped", "running", "finished"}
        /\ ctx \in Runs \cup {None} /\ cancel \in Runs \cup {None}
        /\ done \subseteq Runs
        /\ closed \in BOOLEAN
        /\ crashed \in {"no", "nil context", "nil frame"}
    BY DEF Init
  <2>2. /\ run \in [Runs -> RunSteps]
        /\ reader \in [Readers -> ReaderSteps]
    BY DEF Init, RunSteps, ReaderSteps
  <2>3. /\ watch \in [Runs -> Runs \cup {None}]
        /\ deferred \in [Runs -> Runs \cup {None}]
        /\ rwatch \in [Readers -> Runs \cup {None}]
        /\ own \in [Readers -> Runs \cup {None}]
    BY DEF Init
  <2>4. /\ out \in [Runs -> Nat]
        /\ held \in Nat
        /\ left \in 0..MaxPackets
        /\ queued \in 0..DataBufSize
    BY SnifferAssumption DEF Init
  <2>5. QED BY <2>1, <2>2, <2>3, <2>4 DEF TypeOK
<1>2. CancelStored
  BY DEF Init, CancelStored, PastCancel, PastDefer
<1>3. QED BY <1>1, <1>2 DEF TypeInv

(* Every variable keeps its type: in particular done only holds contexts,  *)
(* since the function a returning Start has deferred (sniffer.go:173) is   *)
(* never nil.                                                              *)
THEOREM TypeCorrect == Spec => []TypeOK
<1>1. TypeInv => TypeOK
  BY DEF TypeInv
<1>2. QED BY <1>1, TypeInit, TypeNext, PTL DEF Spec

(***************************************************************************)
(* A client that never calls Start before the last Start has returned.     *)
(*                                                                         *)
(* ActiveIsAccurate, StopReachesCapture and ReaderNotStranded are not      *)
(* inductive: they hold because the one active Start owns the fields it    *)
(* has already written (FieldsOwned), because its deferred function is its *)
(* own, so a returned Start leaves its context done (ReturnedDone), and    *)
(* because a context only gets into s.ctx, and from there to a reader, by  *)
(* a Start that has passed its first store (CtxOfStarted).                 *)
(***************************************************************************)
Serial == "overlap" \notin Usage

Started(r) == run[r] \notin {"idle", "setCtx"}

FieldsOwned ==
  \A r \in Runs :
    /\ Active(r) /\ Started(r) => ctx = r
    /\ run[r] \in PastCancel => cancel = r
    /\ run[r] \in PastDefer => deferred[r] = r
    /\ run[r] = "select" => watch[r] = r

ReturnedDone == \A r \in Runs : run[r] = "returned" => r \in done

(* Only one Start captures, since a Start follows the end of the last one. *)
OneStart == \A r, t \in Runs : Active(r) /\ Active(t) => r = t

CtxOfStarted ==
  /\ ctx # None => Started(ctx)
  /\ \A q \in Readers : reader[q] = "waiting" =>
       rwatch[q] \in Runs /\ Started(rwatch[q])

SerialInv ==
  /\ TypeInv
  /\ OneStart
  /\ FieldsOwned
  /\ ReturnedDone
  /\ CtxOfStarted
  /\ ActiveIsAccurate

LEMMA SerialStart ==
  ASSUME SerialInv, NEW t \in Runs, StartStep(t)
  PROVE  SerialInv'
<1>1. TypeInv'
  BY TypeStart DEF SerialInv
<1>2. /\ Active(t)
      /\ \A r \in Runs : r # t => ~Active(r) /\ run'[r] = run[r]
      /\ run'[t] # "idle"
      /\ reader' = reader /\ rwatch' = rwatch
  <2>1. Active(t) /\ run'[t] # "idle" /\ \A r \in Runs : r # t => run'[r] = run[r]
    BY DEF SerialInv, TypeInv, TypeOK, At, Active, starts, StartStep,
           SetCtx, SetCancel, DeferCancel, SetRunning, EnterSelect, SeeDone,
           ReceivePacket, Tick, SeeEnd, QueueFrame, EndAssemble, Return
  <2>2. reader' = reader /\ rwatch' = rwatch
    BY DEF readers, StartStep, SetCtx, SetCancel, DeferCancel, SetRunning, EnterSelect,
           SeeDone, ReceivePacket, Tick, SeeEnd, QueueFrame, EndAssemble, Return
  <2>3. QED BY <2>1, <2>2 DEF SerialInv, OneStart
<1>3. OneStart'
  BY <1>2 DEF OneStart, Active
<1>4. ActiveIsAccurate /\ (state = "running" <=> Capturing(t))
  BY <1>2 DEF SerialInv, ActiveIsAccurate, Capturing, Active
<1>5. SUFFICES /\ FieldsOwned' /\ ReturnedDone' /\ CtxOfStarted'
               /\ (state = "running" <=> Capturing(t))'
  BY <1>1, <1>2, <1>3 DEF SerialInv, ActiveIsAccurate, Capturing, Active
<1> USE <1>2, <1>4
        DEF SerialInv, TypeInv, TypeOK, OneStart, FieldsOwned, ReturnedDone,
            CtxOfStarted, Started, Active, Capturing, PastCancel, PastDefer, At,
            fields, starts, source, frames, readers
<1>6. CASE SetCtx(t)         BY <1>6 DEF SetCtx
<1>7. CASE SetCancel(t)      BY <1>7 DEF SetCancel
<1>8. CASE DeferCancel(t)    BY <1>8 DEF DeferCancel
<1>9. CASE SetRunning(t)     BY <1>9 DEF SetRunning
<1>10. CASE EnterSelect(t)   BY <1>10 DEF EnterSelect
<1>11. CASE SeeDone(t)       BY <1>11 DEF SeeDone
<1>12. CASE ReceivePacket(t) BY <1>12 DEF ReceivePacket
<1>13. CASE Tick(t)          BY <1>13 DEF Tick
<1>14. CASE SeeEnd(t)        BY <1>14 DEF SeeEnd
<1>15. CASE QueueFrame(t)    BY <1>15 DEF QueueFrame
<1>16. CASE EndAssemble(t)
  <2>1. CASE run[t] = "assemble" BY <1>16, <2>1 DEF EndAssemble
  <2>2. CASE run[t] = "flush"    BY <1>16, <2>2 DEF EndAssemble
  <2>3. QED BY <1>16, <2>1, <2>2 DEF EndAssemble
<1>17. CASE Return(t)        BY <1>17 DEF Return
<1>18. QED
  BY <1>6, <1>7, <1>8, <1>9, <1>10, <1>11, <1>12, <1>13, <1>14, <1>15, <1>16, <1>17
     DEF StartStep

LEMMA SerialReader ==
  ASSUME SerialInv, NEW q \in Readers, ReaderStep(q)
  PROVE  SerialInv'
<1>1. TypeInv'
  BY TypeReader DEF SerialInv
<1>2. /\ UNCHANGED <<state, ctx, cancel, done>>
      /\ UNCHANGED <<run, watch, deferred>>
      /\ \A p \in Readers : reader'[p] = "waiting" =>
           \/ reader[p] = "waiting" /\ rwatch'[p] = rwatch[p]
           \/ ctx # None /\ rwatch'[p] = ctx
  <2> USE DEF SerialInv, TypeInv, TypeOK, fields, starts
  <2>1. CASE EnterNextFrame(q)
    <3>1. CASE ctx = None BY <2>1, <3>1 DEF EnterNextFrame
    <3>2. CASE ctx # None BY <2>1, <3>2 DEF EnterNextFrame
    <3>3. QED BY <3>1, <3>2
  <2>2. CASE TakeFrame(q) BY <2>2 DEF TakeFrame
  <2>3. CASE SeeDoneNextFrame(q)
    <3>1. CASE ctx \in done    BY <2>3, <3>1 DEF SeeDoneNextFrame
    <3>2. CASE ctx \notin done BY <2>3, <3>2 DEF SeeDoneNextFrame
    <3>3. QED BY <3>1, <3>2
  <2>4. CASE ProcessFrame(q) BY <2>4 DEF ProcessFrame
  <2>5. QED BY <2>1, <2>2, <2>3, <2>4 DEF ReaderStep
<1>3. OneStart' /\ FieldsOwned' /\ ReturnedDone' /\ ActiveIsAccurate'
  BY <1>2 DEF SerialInv, OneStart, FieldsOwned, ReturnedDone, ActiveIsAccurate,
              Started, Active, Capturing
<1>4. CtxOfStarted'
  BY <1>2 DEF SerialInv, CtxOfStarted, Started, TypeInv, TypeOK
<1>5. QED BY <1>1, <1>3, <1>4 DEF SerialInv

(* What a client that does not overlap its Starts does when it makes one. *)
LEMMA SerialCall ==
  ASSUME SerialInv, NEW t \in Runs, run[t] = "idle",
         \A r \in Runs : ~Active(r),
         run' = [run EXCEPT ![t] = "setCtx"],
         UNCHANGED <<fields, watch, deferred, rwatch>>,
         \A q \in Readers : reader'[q] = "waiting" => reader[q] = "waiting"
  PROVE  /\ OneStart' /\ FieldsOwned' /\ ReturnedDone'
         /\ CtxOfStarted' /\ ActiveIsAccurate'
<1> USE DEF SerialInv, TypeInv, TypeOK, Active, Started, Capturing, fields
<1>1. OneStart'         BY DEF OneStart
<1>2. FieldsOwned'      BY DEF FieldsOwned, PastCancel, PastDefer
<1>3. ReturnedDone'     BY DEF ReturnedDone
<1>4. CtxOfStarted'     BY DEF CtxOfStarted
<1>5. ActiveIsAccurate' BY DEF ActiveIsAccurate
<1>6. QED BY <1>1, <1>2, <1>3, <1>4, <1>5

LEMMA SerialNext ==
  ASSUME Serial, SerialInv, [Next]_vars
  PROVE  SerialInv'
<1>1. TypeInv'
  BY TypeNext DEF SerialInv
<1> USE DEF SerialInv
<1>2. CASE UNCHANGED <<fields, starts, readers>>
            \/ Stop \/ \E r \in Runs : CancelParent(r)
  <2>1. /\ UNCHANGED <<state, ctx, cancel, starts, readers>>
        /\ done \subseteq done'
    BY <1>2 DEF Stop, CancelParent, fields
  <2>2. OneStart' /\ FieldsOwned' /\ ReturnedDone' /\ CtxOfStarted' /\ ActiveIsAccurate'
    BY <2>1 DEF OneStart, FieldsOwned, ReturnedDone, CtxOfStarted, ActiveIsAccurate,
                Started, Active, Capturing, starts, readers
  <2>3. QED BY <1>1, <2>2
<1>3. ASSUME NEW r \in Runs, CallStart(r) PROVE SerialInv'
  BY <1>1, <1>3, SerialCall DEF CallStart, At, MayStart, Serial, readers
<1>4. ASSUME NEW r \in Runs, StartStep(r) PROVE SerialInv'
  BY <1>4, SerialStart
<1>5. ASSUME NEW q \in Readers, Subscribe(q) PROVE SerialInv'
  <2>1. \A p \in Readers : reader'[p] = "waiting" => reader[p] = "waiting"
    BY <1>5 DEF Subscribe, TypeInv, TypeOK
  <2>2. CASE UNCHANGED run
    BY <1>1, <1>5, <2>1, <2>2
       DEF Subscribe, OneStart, FieldsOwned, ReturnedDone, CtxOfStarted, ActiveIsAccurate,
           Started, Active, Capturing, fields
  <2>3. CASE ~UNCHANGED run
    <3>1. PICK r \in Runs : run[r] = "idle" /\ run' = [run EXCEPT ![r] = "setCtx"]
      BY <1>5, <2>3 DEF Subscribe
    <3>2. \A p \in Runs : ~Active(p)
      BY <1>5, <2>3 DEF Subscribe, MayStart, Serial
    <3>3. UNCHANGED <<fields, watch, deferred, rwatch>>
      BY <1>5 DEF Subscribe
    <3>4. QED BY <1>1, <2>1, <3>1, <3>2, <3>3, SerialCall
  <2>4. QED BY <2>2, <2>3
<1>6. ASSUME NEW q \in Readers, ReaderStep(q) PROVE SerialInv'
  BY <1>6, SerialReader
<1>7. QED
  BY <1>2, <1>3, <1>4, <1>5, <1>6 DEF Next, CloseSource, vars

LEMMA SerialInit == Init => SerialInv
<1>1. Init => OneStart /\ FieldsOwned /\ ReturnedDone /\ CtxOfStarted /\ ActiveIsAccurate
  BY DEF Init, OneStart, FieldsOwned, ReturnedDone, CtxOfStarted, ActiveIsAccurate,
         Active, Capturing, PastCancel, PastDefer
<1>2. QED BY <1>1, TypeInit DEF SerialInv

LEMMA SerialInductive == ASSUME Serial PROVE Spec => []SerialInv
<1>1. SerialInv /\ [Next]_vars => SerialInv'
  BY SerialNext
<1>2. QED BY <1>1, SerialInit, PTL DEF Spec

(* While a Start captures, Stop (sniffer.go:216) cancels the very context  *)
(* that this Start waits for, provided that Starts do not overlap.         *)
THEOREM StopReaches == ASSUME Serial PROVE Spec => []StopReachesCapture
<1>1. SerialInv => StopReachesCapture
  BY SnifferAssumption
     DEF SerialInv, FieldsOwned, StopReachesCapture, Capturing, PastCancel
<1>2. QED BY <1>1, SerialInductive, PTL

(* IsActive (sniffer.go:148) is true exactly while a Start captures,       *)
(* provided that Starts do not overlap.                                    *)
THEOREM ActiveAccurate == ASSUME Serial PROVE Spec => []ActiveIsAccurate
<1>1. SerialInv => ActiveIsAccurate
  BY DEF SerialInv
<1>2. QED BY <1>1, SerialInductive, PTL

(* A Subscribe blocked in NextFrame (sniffer.go:236) waits for a context   *)
(* that is done or that a Start still under way will cancel, provided that *)
(* Starts do not overlap.                                                  *)
THEOREM NotStranded == ASSUME Serial PROVE Spec => []ReaderNotStranded
<1>1. SerialInv => ReaderNotStranded
  <2> SUFFICES ASSUME SerialInv, NEW q \in Readers,
                      reader[q] = "waiting", rwatch[q] \notin done
               PROVE  /\ Active(rwatch[q])
                      /\ run[rwatch[q]] \notin {"setCtx", "setCancel", "defer"} =>
                           deferred[rwatch[q]] = rwatch[q]
    BY DEF ReaderNotStranded
  <2>1. rwatch[q] \in Runs /\ Active(rwatch[q])
    BY DEF SerialInv, CtxOfStarted, ReturnedDone, Started, Active
  <2>2. run[rwatch[q]] \in PastDefer \cup {"setCtx", "setCancel", "defer"}
    BY <2>1 DEF SerialInv, TypeInv, TypeOK, RunSteps, Active, PastDefer, PastCancel
  <2>3. QED BY <2>1, <2>2 DEF SerialInv, FieldsOwned
<1>2. QED BY <1>1, SerialInductive, PTL

(* The state goes to running from either end and from there to either end, *)
(* and no Start that ends a capture ends it twice (doc.go:107).            *)
THEOREM StateOrdered == ASSUME Serial PROVE Spec => StateOrder
<1> DEFINE Step == state # state' => (state = "running" <=> state' # "running")
<1>1. SerialInv /\ [Next]_vars => [Step]_vars
  <2> SUFFICES ASSUME SerialInv, Next PROVE Step
    BY DEF vars
  <2>1. ASSUME NEW r \in Runs, SetRunning(r) PROVE Step
    <3>1. ~ \E t \in Runs : Capturing(t)
      BY <2>1 DEF SerialInv, OneStart, Active, Capturing, SetRunning, At
    <3>2. QED BY <2>1, <3>1 DEF SerialInv, ActiveIsAccurate, SetRunning
  <2>2. ASSUME NEW r \in Runs, SeeDone(r) \/ SeeEnd(r) PROVE Step
    BY <2>2 DEF SerialInv, ActiveIsAccurate, Capturing, SeeDone, SeeEnd, At
  <2>3. ASSUME NEW r \in Runs, StartStep(r), ~SetRunning(r), ~SeeDone(r), ~SeeEnd(r)
        PROVE  state' = state
    BY <2>3 DEF StartStep, SetCtx, SetCancel, DeferCancel, EnterSelect, ReceivePacket,
                Tick, QueueFrame, EndAssemble, Return, fields
  <2>4. ASSUME NEW q \in Readers, ReaderStep(q) PROVE state' = state
    BY <2>4 DEF ReaderStep, EnterNextFrame, TakeFrame, SeeDoneNextFrame, ProcessFrame, fields
  <2>5. QED
    BY <2>1, <2>2, <2>3, <2>4
       DEF Next, Stop, CloseSource, CallStart, CancelParent, Subscribe, fields
<1>2. QED BY <1>1, SerialInductive, PTL DEF Spec, StateOrder

(***************************************************************************)
(* A client that takes no liberty: one Start at a time, Subscribe only     *)
(* while the Sniffer runs, and no new Start before every Subscribe has     *)
(* returned.  Then the field NextFrame reads is stable: no Start writes it *)
(* while a Subscribe runs, so both its reads see the same context.         *)
(***************************************************************************)
CtxStable ==
  /\ \A q \in Readers : Reading(q) => ctx # None
  /\ \A q \in Readers : reader[q] = "waiting" => rwatch[q] = ctx
  /\ \A r \in Runs, q \in Readers : run[r] = "setCtx" => ~Reading(q)

CarefulInv == SerialInv /\ CtxStable /\ NoPanic

LEMMA CarefulNext ==
  ASSUME Usage = {}, CarefulInv, [Next]_vars
  PROVE  CarefulInv'
<1>1. SerialInv'
  BY SerialNext DEF CarefulInv, Serial
<1> USE DEF CarefulInv, SerialInv, TypeInv, TypeOK, CtxStable, NoPanic, Reading
<1>2. ASSUME UNCHANGED <<ctx, run, reader, rwatch, crashed>> PROVE CarefulInv'
  BY <1>1, <1>2
<1>3. ASSUME NEW r \in Runs, CallStart(r) PROVE CarefulInv'
  BY <1>1, <1>3 DEF CallStart, MayStart, fields, readers
<1>4. ASSUME NEW r \in Runs, StartStep(r) PROVE CarefulInv'
  <2>1. CASE SetCtx(r)
    BY <1>1, <2>1, SnifferAssumption DEF SetCtx, At, readers
  <2>2. CASE ~SetCtx(r)
    <3>1. UNCHANGED <<ctx, reader, rwatch, crashed>>
      BY <1>4, <2>2
         DEF StartStep, SetCancel, DeferCancel, SetRunning, EnterSelect, SeeDone,
             ReceivePacket, Tick, SeeEnd, QueueFrame, EndAssemble, Return, fields, readers
    <3>2. \A t \in Runs : run'[t] = "setCtx" => run[t] = "setCtx"
      BY <1>4, <2>2
         DEF StartStep, SetCancel, DeferCancel, SetRunning, EnterSelect, SeeDone,
             ReceivePacket, Tick, SeeEnd, QueueFrame, EndAssemble, Return, starts
    <3>3. QED BY <1>1, <3>1, <3>2
  <2>3. QED BY <2>1, <2>2
<1>5. ASSUME NEW q \in Readers, Subscribe(q) PROVE CarefulInv'
  <2>1. PICK r \in Runs : Capturing(r)
    BY <1>5 DEF Subscribe, IsActive, ActiveIsAccurate
  <2>2. ctx = r /\ \A t \in Runs : run[t] # "setCtx"
    BY <2>1 DEF FieldsOwned, OneStart, Active, Started, Capturing
  <2>3. UNCHANGED <<ctx, run, rwatch, crashed>> /\ reader' = [reader EXCEPT ![q] = "nextFrame"]
    BY <1>5 DEF Subscribe, fields
  <2>4. QED BY <1>1, <2>2, <2>3, SnifferAssumption
<1>6. ASSUME NEW q \in Readers, ReaderStep(q) PROVE CarefulInv'
  <2> USE <1>1 DEF fields, starts, ReaderAt
  <2>1. CASE EnterNextFrame(q)
    <3>1. CASE ctx = None
      BY <2>1, <3>1 DEF EnterNextFrame
    <3>2. CASE ctx # None
      BY <2>1, <3>2 DEF EnterNextFrame
    <3>3. QED BY <3>1, <3>2
  <2>2. CASE TakeFrame(q)
    BY <2>2 DEF TakeFrame
  <2>3. CASE SeeDoneNextFrame(q)
    <3>1. CASE ctx \in done
      BY <2>3, <3>1 DEF SeeDoneNextFrame
    <3>2. CASE ctx \notin done
      BY <2>3, <3>2 DEF SeeDoneNextFrame
    <3>3. QED BY <3>1, <3>2
  <2>4. CASE ProcessFrame(q)
    BY <2>4 DEF ProcessFrame
  <2>5. QED BY <1>6, <2>1, <2>2, <2>3, <2>4 DEF ReaderStep
<1>7. QED
  BY <1>2, <1>3, <1>4, <1>5, <1>6
     DEF Next, Stop, CancelParent, CloseSource, vars, fields, starts, readers

(* No goroutine panics for such a client: NextFrame always finds a context *)
(* (sniffer.go:254) and never returns a nil frame without an error         *)
(* (sniffer.go:255).                                                       *)
THEOREM CarefulClient == ASSUME Usage = {} PROVE Spec => []NoPanic
<1>1. Init => CarefulInv
  BY SerialInit DEF Init, CarefulInv, CtxStable, NoPanic, Reading
<1>2. CarefulInv /\ [Next]_vars => CarefulInv'
  BY CarefulNext
<1>3. CarefulInv => NoPanic
  BY DEF CarefulInv
<1>4. QED BY <1>1, <1>2, <1>3, PTL DEF Spec
=============================================================================
