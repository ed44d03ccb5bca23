----------------------------- MODULE ScanStream -----------------------------
(***************************************************************************)
(* The live stream of a scan: ScanLifecycle composed with the in-memory    *)
(* event bus and the clients of GET /api/scans/{id}/stream.                *)
(*                                                                         *)
(* Drivers publish to the channel of their scan and close it; a client     *)
(* reads the row, subscribes, and then either gets the final state from    *)
(* the row it read or waits on its queue.  The bus never suspends (its     *)
(* queues are unbounded), so publish, close, subscribe and unsubscribe are *)
(* each one step.  An event is its number in the scan's sequence of        *)
(* published events, modulo Wrap; what an event says is left out.          *)
(***************************************************************************)
EXTENDS ScanLifecycle, Sequences, SequencesExt

CONSTANTS
  Clients,     \* open connections to the stream route
  MaxQueue     \* bound on the events waiting for a client

ASSUME StreamAssumption ==
  /\ MaxQueue \in Nat \ {0}
  /\ \A S \in SUBSET Clients : S # None
  /\ None \notin 0..(MaxQueue + 2)

VARIABLES
  chan,       \* _channels: the subscribers of each scan, None without a channel
  cli,        \* the clients, with the queue each waits on
  published   \* number of the last event published for each scan

busVars    == <<chan, cli, published>>
streamVars == <<vars, busVars>>

(* A last event and the sentinel may follow a full queue. *)
Wrap   == MaxQueue + 3
Number == 0..(Wrap - 1)
Gone   == [st |-> "gone"]
Client ==
  [st : {"read"}, scan : Scans, seen : Status]
    \cup [st : {"snapshot"}, scan : Scans]
    \cup [st : {"live"}, scan : Scans, last : Number, queue : Seq(Number \cup {None})]

LiveOn(c, s) == cli[c].st = "live" /\ cli[c].scan = s
Subscribed(c) == chan[cli[c].scan] # None /\ c \in chan[cli[c].scan]

(* What is put on the queues of the subscribers of s. *)
Fanout(s, items) ==
  [c \in Clients |->
    IF chan[s] # None /\ c \in chan[s] /\ LiveOn(c, s)
    THEN [cli[c] EXCEPT !.queue = @ \o items] ELSE cli[c]]

Follows(s) == (published[s] + 1) % Wrap

(* Faulty forms of the operators below. *)
UnsubscribeAll(c, s)     == [chan EXCEPT ![s] = None]
ClosingAnyCommit(d)      == drv[d].pc = "commit"
ClosingNever(d)          == FALSE
ClosedSilently(s, items) == IF items = <<None>> THEN cli ELSE Fanout(s, items)
SentInFront(s, items)    ==
  [c \in Clients |->
    IF chan[s] # None /\ c \in chan[s] /\ LiveOn(c, s)
    THEN [cli[c] EXCEPT !.queue = items \o @] ELSE cli[c]]

Subscribe(c, s) ==
  [chan EXCEPT ![s] = IF chan[s] = None THEN {c} ELSE chan[s] \cup {c}]

(* A channel is popped by close, never by the last unsubscribe: close pops *)
(* the one that it marks closed in the same step.                          *)
Unsubscribe(c, s) ==
  IF chan[s] = None THEN chan ELSE [chan EXCEPT ![s] = @ \ {c}]

(* The sentinel, None, is put on every queue of the channel that goes away. *)
Sent(s, items) == Fanout(s, items)

Publish(s) ==
  /\ published' = [published EXCEPT ![s] = Follows(s)]
  /\ cli' = Sent(s, <<Follows(s)>>)
  /\ UNCHANGED chan

Close(s) ==
  /\ chan' = [chan EXCEPT ![s] = None]
  /\ cli' = Sent(s, <<None>>)
  /\ UNCHANGED published

PublishAndClose(s) ==
  /\ published' = [published EXCEPT ![s] = Follows(s)]
  /\ chan' = [chan EXCEPT ![s] = None]
  /\ cli' = Sent(s, <<Follows(s), None>>)

StreamInit ==
  /\ Init
  /\ chan = [s \in Scans |-> None]
  /\ cli = [c \in Clients |-> Gone]
  /\ published = [s \in Scans |-> 0]

-----------------------------------------------------------------------------
(* Drivers *)

(* The next event of run_scan is passed on. *)
PublishEvent(d) ==
  LET s == drv[d].scan
  IN /\ up /\ drv[d].pc = "run"
     /\ \A c \in Clients : LiveOn(c, s) => Len(cli[c].queue) < MaxQueue
     /\ Publish(s)
     /\ UNCHANGED vars

(* The iterator is exhausted, or raises and scan.failed is published; the  *)
(* bus is closed before the final status is written.                       *)
StreamRunEnds(d) ==
  /\ RunEnds(d)
  /\ \/ Close(drv[d].scan)
     \/ drv'[d].goal = "failed" /\ PublishAndClose(drv[d].scan)

(* scan.cancelled is published before the row is read; when there is       *)
(* nothing to mark the finally clause closes the bus at once.              *)
StreamHandlerRead(d) ==
  /\ HandlerRead(d)
  /\ IF drv'[d].pc = "ended" THEN PublishAndClose(drv[d].scan)
                             ELSE Publish(drv[d].scan)

(* The one commit inside the try statement: the finally clause follows,    *)
(* also when the commit raises.                                            *)
ClosesAfter(d) == drv[d].pc = "commit" /\ drv[d].goal = "cancelled"

StreamCommit(d) ==
  /\ Commit(d) \/ CommitFails(d)
  /\ IF ClosesAfter(d) THEN Close(drv[d].scan) ELSE UNCHANGED busVars

-----------------------------------------------------------------------------
(* Clients *)

StreamRead(c, s) ==
  /\ up /\ cli[c] = Gone
  /\ row[s] # "absent"
  /\ cli' = [cli EXCEPT ![c] = [st |-> "read", scan |-> s, seen |-> row[s]]]
  /\ UNCHANGED <<vars, chan, published>>

(* Every client subscribes, also one that will only get the snapshot. *)
StreamSubscribe(c) ==
  LET s == cli[c].scan
  IN /\ up /\ cli[c].st = "read"
     /\ chan' = Subscribe(c, s)
     /\ cli' = [cli EXCEPT ![c] =
          IF cli[c].seen \in Terminal
          THEN [st |-> "snapshot", scan |-> s]
          ELSE [st |-> "live", scan |-> s, last |-> published[s], queue |-> <<>>]]
     /\ UNCHANGED <<vars, published>>

Unsubscribes(c) ==
  /\ chan' = Unsubscribe(c, cli[c].scan)
  /\ cli' = [cli EXCEPT ![c] = Gone]
  /\ UNCHANGED <<vars, published>>

SnapshotSent(c) == up /\ cli[c].st = "snapshot" /\ Unsubscribes(c)

Deliver(c) ==
  /\ up /\ cli[c].st = "live" /\ cli[c].queue # <<>>
  /\ IF Head(cli[c].queue) = None
     THEN Unsubscribes(c)
     ELSE /\ cli' = [cli EXCEPT ![c].last = Head(cli[c].queue), ![c].queue = Tail(@)]
          /\ UNCHANGED <<vars, chan, published>>

Disconnect(c) == up /\ cli[c].st = "live" /\ Unsubscribes(c)

-----------------------------------------------------------------------------

StreamCrash ==
  /\ Crash
  /\ chan' = [s \in Scans |-> None]
  /\ cli' = [c \in Clients |-> Gone]
  /\ published' = [s \in Scans |-> 0]

BusDriverStep(d) ==
  \/ /\ BeginRead(d) \/ SchedBeginRead(d) \/ Enter(d) \/ FinalRead(d) \/ DoneCallback(d)
     /\ UNCHANGED busVars
  \/ StreamHandlerRead(d) \/ StreamCommit(d)

ClientStep(c) == StreamSubscribe(c) \/ SnapshotSent(c) \/ Deliver(c)

Server ==
  \/ \E r \in Requests : Arrival(r) \/ RequestStep(r) \/ CancelCommitFails(r)
  \/ CreateTarget
  \/ Recover

StreamNext ==
  \/ Server /\ UNCHANGED busVars
  \/ \E d \in Drivers : BusDriverStep(d) \/ StreamRunEnds(d) \/ PublishEvent(d)
  \/ \E c \in Clients : ClientStep(c) \/ Disconnect(c) \/ \E s \in Scans : StreamRead(c, s)
  \/ StreamCrash

StreamSpec == StreamInit /\ [][StreamNext]_streamVars

(* The event loop runs the tasks and generators that are ready. *)
FairStreamSpec ==
  /\ StreamSpec
  /\ \A d \in Drivers : WF_streamVars(BusDriverStep(d))
  /\ \A c \in Clients : WF_streamVars(ClientStep(c))

-----------------------------------------------------------------------------
(* Properties *)

StreamTypeOK ==
  /\ chan \in [Scans -> {None} \cup SUBSET Clients]
  /\ cli \in [Clients -> {Gone} \cup Client]
  /\ published \in [Scans -> Number]

(* What is queued ahead of the sentinel, which comes last when it is there. *)
Events(c) == IF Contains(cli[c].queue, None) THEN Front(cli[c].queue) ELSE cli[c].queue

(* A stream is a gapless, ordered run of what was published from its       *)
(* subscription to the moment the channel was closed: what is queued       *)
(* continues what was delivered, and a subscriber has missed nothing.      *)
StreamFaithful ==
  \A c \in Clients : cli[c].st = "live" =>
    /\ \A i \in DOMAIN Events(c) : Events(c)[i] = (cli[c].last + i) % Wrap
    /\ Subscribed(c) =>
         (cli[c].last + Len(Events(c))) % Wrap = published[cli[c].scan]

(* A client as the contract of the stream sees it: its queue is what it is *)
(* owed, and its place in the channel is the promise of more.              *)
Listening(c) ==
  IF cli[c].st # "live" THEN Gone
  ELSE [scan  |-> cli[c].scan,       heard |-> cli[c].last,
        due   |-> Len(Events(c)),    open  |-> Subscribed(c)]

Promise == INSTANCE StreamContract WITH
  Away  <- Gone,
  said  <- published,
  place <- [c \in Clients |-> Listening(c)]

(* Every stream keeps the contract, whoever else joins, leaves or is       *)
(* slow: no event twice, out of order or skipped, an end that comes after  *)
(* the last event and, for a client that stays, always comes (bus.py,      *)
(* scans.py stream_scan).                                                  *)
KeepsPromise == Promise!Spec

(* A client that no channel will feed any more has the sentinel as the     *)
(* last item of its queue, and nobody else has it: no stream waits on a    *)
(* queue that was forgotten, or ends while it is still subscribed.         *)
SentinelLast ==
  \A c \in Clients : cli[c].st = "live" =>
    IF Subscribed(c) THEN ~Contains(cli[c].queue, None)
    ELSE /\ cli[c].queue # <<>>
         /\ Last(cli[c].queue) = None
         /\ ~Contains(Front(cli[c].queue), None)

(* The end of a stream means the scan's run is over: no task will publish  *)
(* for it again.                                                           *)
EndMeansOver ==
  \A c \in Clients, d \in Drivers :
    cli[c].st = "live" /\ Contains(cli[c].queue, None) /\ Works(d, cli[c].scan)
      => drv[d].pc \in {"final", "commit", "ended"}

(* A cancel that reaches a scan inside its try block ends every stream     *)
(* open on it, even when the row cannot be written.                        *)
CancelEndsStreams ==
  \A c \in Clients, s \in Scans :
    (LiveOn(c, s) /\ Subscribed(c) /\ \E d \in Drivers : Works(d, s) /\ drv[d].pc = "handler")
      ~> (~LiveOn(c, s) \/ ~up)

(* A cancel that reaches a scan takes effect for everyone: the row stops   *)
(* being running and the streams on it end (scans.py _drive_scan).         *)
CancelWorks == CancelLands /\ CancelEndsStreams

=============================================================================
