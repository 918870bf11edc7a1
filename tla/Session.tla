------------------------------- MODULE Session -------------------------------
(***************************************************************************)
(* A program that uses a Sniffer and its subscribers: either any client    *)
(* that keeps to the documentation, or the main of the two examples        *)
(* (examples/message_printer, examples/craft_state).                       *)
(***************************************************************************)
EXTENDS Subscriber

CONSTANTS
  Clients,   \* the programs to consider, a subset of {"any", "example"}
  Setups     \* what a client may do with the subscribers

AllChannels == {"ingress", "egress", "events"}

(* When a client calls Close: before Subscribe has returned, after it, or  *)
(* never; or it makes no use of the subscriber.                            *)
Closes == {"early", "late", "never", "unused"}

ASSUME SessionAssumption ==
  /\ Clients \subseteq {"any", "example"}
  /\ Setups \subseteq [Readers -> [kind : Kinds, reads : SUBSET AllChannels, closes : Closes]]

VARIABLES
  client, \* the program
  reads,  \* for each subscriber the channels that the client keeps reading
  closes, \* and when it calls Close
  main    \* where the main of an example is

session == <<client, reads, closes, main>>
sessionVars == <<allVars, session>>

Example == client = "example"

SessionTypeOK ==
  /\ TypeOK /\ SubscriberTypeOK
  /\ client \in Clients
  /\ reads \in [Readers -> SUBSET AllChannels] /\ closes \in [Readers -> Closes]
  /\ main \in {"select", "deferred", "closing"}

(* The examples read both channels of a GameEventSubscriber. *)
ExampleSetup ==
  [q \in Readers |-> [kind |-> "gameEvent", reads |-> {"ingress", "egress"}, closes |-> "early"]]

SessionInit ==
  /\ client \in Clients /\ main = "select"
  /\ \E setup \in IF Example THEN {ExampleSetup} ELSE Setups :
       /\ kind = [q \in Readers |-> setup[q].kind]
       /\ reads = [q \in Readers |-> setup[q].reads]
       /\ closes = [q \in Readers |-> setup[q].closes]
  /\ SubscriberInit

-----------------------------------------------------------------------------
(* Any client. *)

ClientCalls ==
  /\ ~Example
  /\ SnifferAlone(\/ Stop
                  \/ \E r \in Runs : CallStart(r) \/ CancelParent(r)
                  \/ \E q \in Readers : closes[q] # "unused" /\ Subscribe(q))
  /\ UNCHANGED session

(* The client reads the channels of q that it has chosen, in a goroutine *)
(* that does nothing else.                                               *)
ClientReceives(q) ==
  /\ ~Example /\ \E c \in reads[q] : Receive(q, c)
  /\ UNCHANGED session

ClientCloses(q) ==
  /\ ~Example
  /\ \/ closes[q] = "early" /\ reader[q] # "idle"
     \/ closes[q] = "late" /\ reader[q] \in {"nil", "cancelled", "failed"}
  /\ CloseStep(q)
  /\ UNCHANGED session

-----------------------------------------------------------------------------
(* The main of an example: it has one subscriber. *)

Only(q) == Example /\ q = CHOOSE p \in Readers : TRUE

(* go func() { err := subscriber.Subscribe(context.Background(), sniffer) *)
ExampleSubscribes(q) ==
  /\ Only(q)
  /\ SnifferAlone(Subscribe(q))
  /\ UNCHANGED session

(* if err != nil { log.Fatal(err) } *)
ExampleFails(q) ==
  /\ Only(q) /\ Alive /\ reader[q] \in {"cancelled", "failed"}
  /\ process' = "exit 1"
  /\ UNCHANGED <<vars, kind, handlers, closing, shut, session>>

(* The select of main, with a message. *)
ExampleReceives(q) ==
  /\ Only(q) /\ main = "select"
  /\ \E c \in reads[q] : Receive(q, c)
  /\ UNCHANGED session

(* The select of main, with a signal: it returns. *)
Signal ==
  /\ Example /\ Alive /\ main = "select"
  /\ main' = "deferred"
  /\ UNCHANGED <<allVars, client, reads, closes>>

(* The deferred function closes a Sniffer that is active, then os.Exit. *)
ExampleDefers ==
  /\ Example /\ Alive /\ main = "deferred"
  /\ \/ /\ IsActive
        /\ main' = "closing" /\ UNCHANGED process
     \/ /\ ~IsActive
        /\ process' = "exit 0" /\ UNCHANGED main
  /\ UNCHANGED <<vars, kind, handlers, closing, shut, client, reads, closes>>

ExampleCloses(q) ==
  /\ Only(q) /\ main = "closing"
  /\ CloseStep(q)
  /\ UNCHANGED session

ExampleExits(q) ==
  /\ Only(q) /\ Alive /\ main = "closing" /\ ClosedBy(q)
  /\ process' = "exit 0"
  /\ UNCHANGED <<vars, kind, handlers, closing, shut, session>>

Main(q) == ExampleReceives(q) \/ ExampleDefers \/ ExampleCloses(q) \/ ExampleExits(q)

-----------------------------------------------------------------------------
Run == Capture /\ UNCHANGED session
Serve(q) == SubscribeStep(q) /\ UNCHANGED session

SessionNext ==
  \/ Run \/ ClientCalls \/ Signal
  \/ \E q \in Readers :
       \/ Serve(q) \/ ClientReceives(q) \/ ClientCloses(q)
       \/ ExampleSubscribes(q) \/ ExampleFails(q) \/ Main(q)

(* The goroutines run, that of a client that reads channels and the main   *)
(* of an example included, and a Close that has begun goes on.  The client *)
(* owes no call, the device no packet and no end.                          *)
SessionFairness ==
  /\ \A r \in Runs : WF_sessionVars(SnifferAlone(StartStep(r)) /\ UNCHANGED session)
  /\ \A q \in Readers :
       /\ WF_sessionVars(Serve(q)) /\ WF_sessionVars(ClientReceives(q))
       /\ WF_sessionVars(closing[q] > 0 /\ ClientCloses(q))
  /\ WF_sessionVars(\E q \in Readers : ExampleSubscribes(q) \/ ExampleFails(q))
  /\ WF_sessionVars(\E q \in Readers : Main(q))

SessionSpec == SessionInit /\ [][SessionNext]_sessionVars
FairSessionSpec == SessionSpec /\ SessionFairness
-----------------------------------------------------------------------------
(* Safety. *)

(* "Close will stop a sniffer, drain the channels, then close the channels" *)
(* (subscriber_gameevent.go:66): no message is sent on a closed channel.    *)
NoSendOnClosed == process # "panicked"

(* At the end of a file every queued frame is processed before Subscribe    *)
(* returns.  (It is not: NextFrame may choose the done context.)            *)
FileReadOut ==
  \A q \in Readers : reader[q] = "cancelled" /\ state = "finished" => queued = 0

-----------------------------------------------------------------------------
(* Liveness. *)

(* The client reads every channel of q, so that its handler never waits long. *)
Served(q) == ChannelsOf(kind[q]) \subseteq reads[q]

(* Subscribe "blocks until the context is cancelled, the Sniffer is        *)
(* stopped, or an error occurs" (subscriber_gameevent.go:30): then it      *)
(* does not block any longer, whatever the other subscribers wait for,     *)
(* unless the process ends.                                                *)
SubscribeEnds ==
  \A q \in Readers :
    Served(q) /\ Reading(q) /\ rwatch[q] \in done ~> ~Reading(q) \/ ~Alive

(* The same of a client that reads only some channels. *)
SubscribeReturns ==
  \A q \in Readers : Reading(q) /\ rwatch[q] \in done ~> ~Reading(q) \/ ~Alive

(* Two subscribers share dataCh (sniffer.go:237), and one whose client     *)
(* does not read blocks with its frame; the frames that are queued are     *)
(* still taken as long as another one is served.                           *)
OthersGoOn ==
  \A q \in Readers :
    Served(q) /\ Reading(q) /\ queued > 0 ~> queued = 0 \/ ~Reading(q) \/ ~Alive

(* "The Sniffer can be stopped at any time via Stop() or context           *)
(* cancellation" (README.md:18): Start returns, unless what FlushAll (or   *)
(* the assembler) still has to queue finds dataCh full and no subscriber   *)
(* that could take a frame or finish the one it has.                       *)
CanGoOn(q) == Reading(q) /\ (sending[q] => Target(q) \in reads[q])
FullQueue(r) == out[r] > 0 /\ ~Room /\ \A q \in Readers : ~CanGoOn(q)
StopReturnsUnlessFull ==
  \A r \in Runs : Active(r) /\ r \in done ~> run[r] = "returned" \/ FullQueue(r) \/ ~Alive

(* A signal ends an example (examples/message_printer/main.go:75): its     *)
(* deferred Close does not wait for the Subscribe that sends to nobody.    *)
SignalEnds == main = "deferred" ~> ~Alive
=============================================================================
