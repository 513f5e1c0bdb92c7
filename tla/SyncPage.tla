------------------------------ MODULE SyncPage ------------------------------
(***************************************************************************)
(* The /sync page (the script and handlers of internal/gui/sync.go) over   *)
(* the job and its streams of JobHub.  One browser tab loads the page,     *)
(* which follows the job over an EventSource: each connection is a viewer, *)
(* a lost one is replaced by another.  A frame is read some time after it  *)
(* is written, and the answer to a start request travels apart from the    *)
(* stream.  Jobs are also started from elsewhere: another tab, or the      *)
(* landing page's link.                                                    *)
(*                                                                         *)
(* Of the page's state there is what decides what the user may do and is   *)
(* told: the three buttons, the spinner, the rows that end a job.  What    *)
(* the status line, the counts and the tab's title say is left out.        *)
(***************************************************************************)
EXTENDS JobHub

CONSTANTS
  MaxPresses,   \* bound on the start requests of the page
  Nothing       \* no connection, or no frame

ASSUME PageAssumption ==
  MaxPresses \in Nat /\ Nothing \notin Viewers /\ Nothing \notin BOOLEAN

VARIABLES
  ready,      \* config.yaml loads, so a sync can start
  frame,      \* the state frame of each stream, Nothing before it is written
  tab,        \* the page in the tab
  conn,       \* its EventSource: a viewer, or Nothing
  read,       \* how many frames it has read from that connection
  requests,   \* its start requests under way: "sent", "accepted" or "refused"
  presses,    \* how many there have been
  \* history, for the properties only:
  ended       \* the jobs whose end the page has shown

stream == <<frame, conn, read>>
pageVars == <<ready, stream, tab, requests, presses, ended>>
allVars == <<hubVars, pageVars>>

Blank == [loaded |-> FALSE, blocked |-> FALSE, running |-> FALSE,
          mayStart |-> FALSE, mayCancel |-> FALSE, spinning |-> FALSE]

PageTypeOK ==
  /\ HubTypeOK
  /\ ready \in BOOLEAN
  /\ frame \in [Viewers -> BOOLEAN \cup {Nothing}]
  /\ tab \in [DOMAIN Blank -> BOOLEAN]
  /\ conn \in Viewers \cup {Nothing}
  /\ read \in Nat
  /\ requests \in [{"sent", "accepted", "refused"} -> 0 .. MaxPresses]
  /\ presses \in 0 .. MaxPresses
  /\ ended \subseteq 1 .. MaxJobs

PageInit ==
  /\ HubInit
  /\ ready \in BOOLEAN
  /\ frame = [v \in Viewers |-> Nothing]
  /\ tab = Blank
  /\ conn = Nothing
  /\ read = 0
  /\ requests = [s \in {"sent", "accepted", "refused"} |-> 0]
  /\ presses = 0
  /\ ended = {}

-----------------------------------------------------------------------------
(* The server.                                                             *)

(* handleStream tells, once it has subscribed, whether a job runs.         *)
Announce(v) ==
  /\ pc # "panicked"
  /\ view[v] = "replaying"
  /\ frame[v] = Nothing
  /\ frame' = [frame EXCEPT ![v] = running]
  /\ UNCHANGED <<hubVars, ready, tab, conn, read, requests, presses, ended>>

(* The replay follows the state frame.                                     *)
Replays(v) ==
  /\ frame[v] # Nothing
  /\ Replayed(v)
  /\ UNCHANGED pageVars

(* handleStart for a request of this page: refused when config.yaml does   *)
(* not load or a job runs.                                                 *)
Reply(answer) ==
  requests' = [requests EXCEPT !["sent"] = @ - 1, ![answer] = @ + 1]

Accept ==
  /\ requests["sent"] > 0
  /\ ready
  /\ StartJob
  /\ Reply("accepted")
  /\ UNCHANGED <<ready, stream, tab, presses, ended>>

Refuse ==
  /\ pc # "panicked"
  /\ requests["sent"] > 0
  /\ ~ready \/ running
  /\ Reply("refused")
  /\ UNCHANGED <<hubVars, ready, stream, tab, presses, ended>>

(* handleStart for a request of another tab.                               *)
StartElsewhere == ready /\ StartJob /\ UNCHANGED pageVars

(* Another tab opens the page, and stays.                                  *)
OtherTab(v) == Subscribe(v) /\ UNCHANGED pageVars

(* The settings page saves a first config.yaml.                            *)
SetUp ==
  /\ ~ready
  /\ ready' = TRUE
  /\ UNCHANGED <<hubVars, stream, tab, requests, presses, ended>>

-----------------------------------------------------------------------------
(* The page.                                                               *)

(* setRunning, with setQuipsRunning and setChromeRunning; a page that was  *)
(* served without a config.yaml offers no sync.                            *)
StartEnabled(p, on) == ~on /\ ~p.blocked

Spin(p, on) == [p EXCEPT !.spinning = on]

SetRunning(p, on) ==
  Spin([p EXCEPT !.mayStart = StartEnabled(p, on), !.mayCancel = on], on)

(* handlePage renders the gate.                                            *)
Load ==
  /\ ~tab.loaded
  /\ tab' = [Blank EXCEPT !.loaded = TRUE, !.blocked = ~ready, !.mayStart = ready]
  /\ UNCHANGED <<hubVars, ready, stream, requests, presses, ended>>

(* connect, and EventSource's own reconnection.                            *)
Connect(v) ==
  /\ tab.loaded
  /\ conn = Nothing
  /\ Subscribe(v)
  /\ conn' = v
  /\ read' = 0
  /\ UNCHANGED <<ready, frame, tab, requests, presses, ended>>

(* The connection breaks, with the frames on it.  Viewers bounds how often *)
(* that happens.                                                           *)
Disconnect ==
  /\ conn # Nothing
  /\ \E v \in Viewers : view[v] = "out"
  /\ Unsubscribe(conn)
  /\ conn' = Nothing
  /\ read' = 0
  /\ UNCHANGED <<ready, frame, tab, requests, presses, ended>>

(* The "state" listener.                                                   *)
ReadState ==
  /\ conn # Nothing
  /\ read = 0
  /\ frame[conn] # Nothing
  /\ tab' = [SetRunning(tab, frame[conn]) EXCEPT !.running = frame[conn]]
  /\ read' = 1
  /\ UNCHANGED <<hubVars, ready, frame, conn, requests, presses, ended>>

(* handleEvent: an event that ends no job is itself proof of a run.  The   *)
(* first mutant trusts the state frame alone, the second leaves the page   *)
(* running when the job has ended.                                         *)
TrustsStateFrame(p) == p
KeepsSpinning(p) == SetRunning(p, FALSE)
ShowsRun(p) == Spin([p EXCEPT !.running = TRUE], TRUE)
ShowsEnd(p) == [SetRunning(p, FALSE) EXCEPT !.running = FALSE]

HandleEvent ==
  LET event == written[conn][read] IN
  /\ conn # Nothing
  /\ read \in 1 .. Len(written[conn])
  /\ frame[conn] # Nothing
  /\ tab' = IF event.end THEN ShowsEnd(tab) ELSE ShowsRun(tab)
  /\ ended' = IF event.end THEN ended \cup {event.job} ELSE ended
  /\ read' = read + 1
  /\ UNCHANGED <<hubVars, ready, frame, conn, requests, presses>>

(* The Sync and Preview buttons, and autostart, which clicks Sync: start   *)
(* sends its request and changes no button before the answer.              *)
ClickStart ==
  /\ tab.mayStart
  /\ presses < MaxPresses
  /\ presses' = presses + 1
  /\ requests' = [requests EXCEPT !["sent"] = @ + 1]
  /\ UNCHANGED <<hubVars, ready, stream, tab, ended>>

(* The answer to a start request.                                          *)
StartAnswered ==
  \/ /\ requests["accepted"] > 0
     /\ requests' = [requests EXCEPT !["accepted"] = @ - 1]
     /\ tab' = SetRunning(tab, TRUE)
     /\ UNCHANGED <<hubVars, ready, stream, presses, ended>>
  \/ /\ requests["refused"] > 0
     /\ requests' = [requests EXCEPT !["refused"] = @ - 1]
     /\ UNCHANGED <<hubVars, ready, stream, tab, presses, ended>>

(* The Cancel button.  handleCancel closes the job's browser, which ends   *)
(* it sooner; a job may end at any event already.                          *)
ClickCancel ==
  /\ tab.mayCancel
  /\ tab' = [tab EXCEPT !.mayCancel = FALSE]
  /\ UNCHANGED <<hubVars, ready, stream, requests, presses, ended>>

-----------------------------------------------------------------------------
JobSteps == JobStep /\ UNCHANGED pageVars
Forwards(v) == Forward(v) /\ UNCHANGED pageVars
StreamSteps(v) == Announce(v) \/ Replays(v) \/ Forwards(v)
Connects == \E v \in Viewers : Connect(v)
Reads == ReadState \/ HandleEvent

PageNext ==
  \/ Accept \/ Refuse \/ StartElsewhere \/ SetUp
  \/ Load \/ Connects \/ Disconnect \/ Reads
  \/ ClickStart \/ StartAnswered \/ ClickCancel
  \/ JobSteps
  \/ \E v \in Viewers : StreamSteps(v) \/ OtherTab(v)

PageSpec == PageInit /\ [][PageNext]_allVars

(* runJob's steps that wait for nothing: its opening event, each turn of a *)
(* publish, and finish.  Between them it crawls and downloads, and may     *)
(* hang there.                                                             *)
Prompt == pc = "working" => log = <<>> \/ Last(log).end

(* The server's goroutines and the browser's event loop are scheduled, and *)
(* an EventSource reconnects.                                              *)
FairPageSpec ==
  /\ PageSpec
  /\ WF_allVars(Prompt /\ JobSteps)
  /\ \A v \in Viewers : WF_allVars(StreamSteps(v))
  /\ WF_allVars(Connects \/ Reads)

-----------------------------------------------------------------------------
(* Properties.                                                             *)

(* It is told nothing more: a full channel dropped events, no connection   *)
(* is left within the bound, or the server died.                           *)
CutOff ==
  \/ conn # Nothing /\ dropped[conn] # {}
  \/ conn = Nothing /\ \A v \in Viewers : view[v] # "out"
  \/ pc = "panicked"

(* A page that stays open shows how a job ended that it could see, and     *)
(* stops claiming that a run is under way, although its connection broke   *)
(* in between; unless it is cut off or another job begins.                 *)
EndReachesPage ==
  (tab.loaded /\ gen # 0 /\ ~running)
    ~> CutOff \/ running \/ (gen \in ended /\ ~tab.running)

(* A page left open notices a run that was started elsewhere after it had  *)
(* connected: the state frame is sent once, so the events must tell it.    *)
RunIsNoticed ==
  (tab.loaded /\ running) ~> CutOff \/ ~running \/ tab.running

=============================================================================
