------------------------------- MODULE JobHub -------------------------------
(***************************************************************************)
(* The GUI's single background job and its viewers (internal/gui/job.go,   *)
(* and handleStart, runJob and handleStream of internal/gui/sync.go).      *)
(* SyncPage composes them with the page that follows the job.              *)
(* The job publishes events: appended to the log under the mutex, then     *)
(* sent, outside of it, to the channels that were subscribed at that       *)
(* moment.  A viewer is one SSE request: it subscribes, writes the replay  *)
(* of the log, then forwards what its channel brings, until its client     *)
(* goes away.  A job publishes from one goroutine at a time: its own, or   *)
(* the crawl's callback, which progressMu serializes while its own waits.  *)
(***************************************************************************)
EXTENDS Naturals, SequencesExt

CONSTANTS
  Viewers,        \* the SSE requests there will be
  Capacity,       \* of a viewer's channel (64)
  MaxEvents,      \* bound on the events of a job
  MaxJobs         \* bound on the jobs

ASSUME HubAssumption ==
  Capacity \in Nat \ {0} /\ MaxEvents \in Nat \ {0, 1} /\ MaxJobs \in Nat

VARIABLES
  running,    \* job.running
  gen,        \* which job it is, or was last
  log,        \* job.events
  pc,         \* the job's goroutine: "none", "working", "sending", "panicked"
  pending,    \* the channels publish has yet to send the last event to
  view,       \* each viewer: "out", "replaying", "live" or "gone"
  chan,       \* its channel
  written,    \* what it has written to its client
  \* history, for the properties only:
  published,  \* every event ever published
  since,      \* where in it the replay of each viewer began
  dropped     \* the events each viewer lost because its channel was full

hub == <<running, gen, log>>
hubVars == <<hub, pc, pending, view, chan, written, published, since, dropped>>

(* The terminal events ("done", "cancelled", "failed") end a job's log.    *)
Event == [job : 1 .. MaxJobs, seq : 1 .. MaxEvents, end : BOOLEAN]

(* job.subs: the channels registered and not closed.                       *)
Registered == {v \in Viewers : view[v] \in {"replaying", "live"}}

HubTypeOK ==
  /\ running \in BOOLEAN
  /\ gen \in 0 .. MaxJobs
  /\ log \in Seq(Event) /\ Len(log) <= MaxEvents
  /\ pc \in {"none", "working", "sending", "panicked"}
  /\ pending \subseteq Viewers
  /\ view \in [Viewers -> {"out", "replaying", "live", "gone"}]
  /\ chan \in [Viewers -> Seq(Event)] /\ \A v \in Viewers : Len(chan[v]) <= Capacity
  /\ written \in [Viewers -> Seq(Event)]
  /\ published \in Seq(Event)
  /\ since \in [Viewers -> Nat]
  /\ dropped \in [Viewers -> SUBSET Event]

HubInit ==
  /\ running = FALSE
  /\ gen = 0
  /\ log = <<>>
  /\ pc = "none"
  /\ pending = {}
  /\ view = [v \in Viewers |-> "out"]
  /\ chan = [v \in Viewers |-> <<>>]
  /\ written = [v \in Viewers |-> <<>>]
  /\ published = <<>>
  /\ since = [v \in Viewers |-> 0]
  /\ dropped = [v \in Viewers |-> {}]

-----------------------------------------------------------------------------
(* handleStart and job.start: refused while a job runs, else the log is    *)
(* cleared and the job's goroutine launched.                               *)
StartJob ==
  /\ pc # "panicked"
  /\ ~running
  /\ gen < MaxJobs
  /\ running' = TRUE
  /\ gen' = gen + 1
  /\ log' = <<>>
  /\ pc' = "working"
  /\ UNCHANGED <<pending, view, chan, written, published, since, dropped>>

(* publish up to the unlock.  runJob opens with a "log" event; nothing      *)
(* follows a terminal one.                                                 *)
MayEnd(end) ==
  /\ log = <<>> => ~end
  /\ log # <<>> => ~Last(log).end
  /\ Len(log) = MaxEvents - 1 => end

PublishEvent ==
  \E end \in BOOLEAN :
  LET event == [job |-> gen, seq |-> Len(log) + 1, end |-> end] IN
  /\ pc = "working"
  /\ MayEnd(end)
  /\ log' = Append(log, event)
  /\ published' = Append(published, event)
  /\ pending' = Registered
  /\ pc' = IF Registered = {} THEN "working" ELSE "sending"
  /\ UNCHANGED <<running, gen, view, chan, written, since, dropped>>

(* One turn of publish's loop, in the map's random order: the event goes   *)
(* into the channel, or is dropped when that is full; a closed channel     *)
(* makes the send panic, which ends the process.                           *)
Fits(v) == Len(chan[v]) < Capacity

Send(v) ==
  /\ pc = "sending"
  /\ v \in pending
  /\ pending' = pending \ {v}
  /\ pc' = IF view[v] = "gone" THEN "panicked"
           ELSE IF pending = {v} THEN "working" ELSE "sending"
  /\ chan' = IF view[v] # "gone" /\ Fits(v)
             THEN [chan EXCEPT ![v] = Append(@, Last(log))] ELSE chan
  /\ dropped' = IF view[v] # "gone" /\ ~Fits(v)
                THEN [dropped EXCEPT ![v] = @ \cup {Last(log)}] ELSE dropped
  /\ UNCHANGED <<hub, view, written, published, since>>

(* runJob's deferred finish, after its terminal event.  The log stays.     *)
Finish ==
  /\ pc = "working"
  /\ log # <<>> /\ Last(log).end
  /\ running' = FALSE
  /\ pc' = "none"
  /\ UNCHANGED <<gen, log, pending, view, chan, written, published, since, dropped>>

-----------------------------------------------------------------------------
(* subscribe: registers the channel and copies the log, in one critical    *)
(* section.  The mutant copies all but the event being sent.               *)
ReplayWithoutLast == IF pc = "sending" THEN Front(log) ELSE log
Replay == log

Subscribe(v) ==
  /\ pc # "panicked"
  /\ view[v] = "out"
  /\ view' = [view EXCEPT ![v] = "replaying"]
  /\ written' = [written EXCEPT ![v] = Replay]
  /\ since' = [since EXCEPT ![v] = Len(published) - Len(log)]
  /\ UNCHANGED <<hub, pc, pending, chan, published, dropped>>

(* The replay is on the wire; from now on the channel is drained.          *)
Replayed(v) ==
  /\ pc # "panicked"
  /\ view[v] = "replaying"
  /\ view' = [view EXCEPT ![v] = "live"]
  /\ UNCHANGED <<hub, pc, pending, chan, written, published, since, dropped>>

Forward(v) ==
  /\ pc # "panicked"
  /\ view[v] = "live"
  /\ chan[v] # <<>>
  /\ written' = [written EXCEPT ![v] = Append(@, Head(chan[v]))]
  /\ chan' = [chan EXCEPT ![v] = Tail(@)]
  /\ UNCHANGED <<hub, pc, pending, view, published, since, dropped>>

(* The client goes away; the deferred unsubscribe closes the channel, even *)
(* one that publish is about to send to.                                   *)
Unsubscribe(v) ==
  /\ pc # "panicked"
  /\ view[v] = "live"
  /\ view' = [view EXCEPT ![v] = "gone"]
  /\ UNCHANGED <<hub, pc, pending, chan, written, published, since, dropped>>

JobStep == PublishEvent \/ Finish \/ \E v \in Viewers : Send(v)

-----------------------------------------------------------------------------
(* Properties.                                                             *)

Attached == {v \in Viewers : view[v] \in {"replaying", "live"}}

(* What v has written or will write, in order.                             *)
Stream(v) == written[v] \o chan[v]

(* What v should show: all of the log at its subscription and all events   *)
(* published since, those of later jobs included.                          *)
Owed(v) == SubSeq(published, since[v] + 1, Len(published))

OnItsWay(v) == IF v \in pending THEN <<Last(log)>> ELSE <<>>

(* Events are numbered as they are published.                              *)
Earlier(e, f) == e.job < f.job \/ (e.job = f.job /\ e.seq < f.seq)
AsPublished(s) == \A i, j \in DOMAIN s : i < j => Earlier(s[i], s[j])

(* A viewer that joins in the middle of a publish neither misses an event  *)
(* nor gets one twice, and sees them in the order they were published;     *)
(* what is missing was dropped at a full channel.                          *)
StreamIsOwed ==
  \A v \in Attached :
    LET events == Stream(v) \o OnItsWay(v)
    IN  /\ ToSet(events) = ToSet(Owed(v)) \ dropped[v]
        /\ AsPublished(events)

=============================================================================
