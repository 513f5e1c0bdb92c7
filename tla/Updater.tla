------------------------------ MODULE Updater -------------------------------
(***************************************************************************)
(* The self-update (internal/updater; checkForUpdateOnce, handleUpdatePage *)
(* and handleUpdateStart of internal/gui/gui.go).  Each GUI process asks   *)
(* once for the latest release; "Download & install" writes the installer  *)
(* to one fixed path in the temp folder, checks it against its .sha256,    *)
(* starts it and ends the process.  Processes share that path, as do two   *)
(* clicks in one.  Windows refuses to create or remove a file that runs    *)
(* and to run one that is open for writing.                                *)
(***************************************************************************)
EXTENDS Integers, Sequences, FiniteSets

CONSTANTS
  Processes,     \* GUI processes of the installed copy
  Clicks,        \* update requests in flight at a time
  Versions,      \* sequences of numbers, Text for what is no number
  First,         \* the version installed first
  Text, Nil,
  MaxClicks, MaxReleases, MaxStarts, MaxFaults   \* bounds

ASSUME UpdaterAssumption ==
  /\ First \in Versions
  /\ {MaxClicks, MaxReleases, MaxStarts, MaxFaults} \subseteq Nat

VARIABLES
  latest,        \* GitHub's latest release
  installed,     \* the installed version
  proc,          \* the processes: version, result of the check, job object
  request,       \* the requests
  file,          \* the installer in the temp folder
  sums,          \* the release whose .sha256 is beside it, or Nil
  installers,    \* installers that run
  overlapped,    \* a request wrote the file while another relied on it
  clicks, releases, starts, faults   \* how many of each so far

updaterBounds == <<clicks, releases, starts, faults>>
updaterVars == <<latest, installed, proc, request, file, sums, installers, overlapped, updaterBounds>>

(* Releases without the asset or without its checksum exist.               *)
Releases == [version : Versions, asset : BOOLEAN, sidecar : BOOLEAN]

Off == [up |-> FALSE, version |-> Nil, found |-> Nil, guarded |-> FALSE]
NoRequest == [pc |-> "idle", by |-> Nil, release |-> Nil, sum |-> Nil]
Relies == {"writing", "summing", "reading", "verifying", "launching"}

Content == {"part", "whole", "bad"}

UpdaterTypeOK ==
  /\ latest \in Releases /\ installed \in Versions
  /\ proc \in [Processes ->
       [up : BOOLEAN, version : Versions \cup {Nil},
        found : Releases \cup {Nil}, guarded : BOOLEAN]]
  /\ request \in [Clicks ->
       [pc : {"idle", "starting", "closing"} \cup Relies, by : Processes \cup {Nil},
        release : Releases \cup {Nil}, sum : Releases \cup {Nil}]]
  /\ file \in [of : Releases, content : Content] \cup {Nil}
  /\ sums \in Releases \cup {Nil}
  /\ installers \subseteq
       [by : Processes, of : Releases, content : Content, sidecar : BOOLEAN, guarded : BOOLEAN]
  /\ overlapped \in BOOLEAN
  /\ clicks \in 0 .. MaxClicks /\ releases \in 0 .. MaxReleases
  /\ starts \in 0 .. MaxStarts /\ faults \in 0 .. MaxFaults

UpdaterInit ==
  /\ latest \in Releases
  /\ installed = First
  /\ proc = [p \in Processes |-> Off]
  /\ request = [c \in Clicks |-> NoRequest]
  /\ file = Nil
  /\ sums = Nil
  /\ installers = {}
  /\ overlapped = FALSE
  /\ clicks = 0 /\ releases = 0 /\ starts = 0 /\ faults = 0

-----------------------------------------------------------------------------
(* Versions.                                                               *)

(* parseVersion: what is no number counts as 0, as does what is missing.   *)
Component(v, i) == IF i \in DOMAIN v /\ v[i] # Text THEN v[i] ELSE 0

IsNumeric(v) == \A i \in DOMAIN v : v[i] # Text

(* IsNewerVersion: the first component that differs decides.               *)
IsNewer(new, old) ==
  \E i \in DOMAIN new \cup DOMAIN old :
    /\ Component(new, i) > Component(old, i)
    /\ \A j \in 1 .. i - 1 : Component(new, j) = Component(old, j)

(* CheckLatest, and isDevBuildVersion before it: there is something to     *)
(* install only if the versions can be compared and the release is newer.  *)
Offer(version) ==
  IF IsNumeric(version) /\ IsNewer(latest.version, version) THEN latest ELSE Nil

-----------------------------------------------------------------------------
(* A GUI is started.  Its one check fails, or finds what is latest then;   *)
(* EnsureChildProcessesDieWithParent is best effort.                       *)
Start(p) ==
  /\ ~proc[p].up
  /\ starts < MaxStarts
  /\ starts' = starts + 1
  /\ \E guarded \in BOOLEAN, found \in {Nil, Offer(installed)} :
       proc' = [proc EXCEPT ![p] =
         [up |-> TRUE, version |-> installed, found |-> found, guarded |-> guarded]]
  /\ UNCHANGED <<latest, installed, request, file, sums, installers, overlapped>>
  /\ UNCHANGED <<clicks, releases, faults>>

(* A release is published, or withdrawn for an older one.                  *)
Publish ==
  /\ releases < MaxReleases
  /\ releases' = releases + 1
  /\ latest' \in Releases
  /\ UNCHANGED <<installed, proc, request, file, sums, installers, overlapped>>
  /\ UNCHANGED <<clicks, starts, faults>>

(* handleUpdateStart up to the download: without an update, or without its *)
(* asset, there is an error page and nothing happens.                      *)
Click(c) ==
  /\ request[c].pc = "idle"
  /\ clicks < MaxClicks
  /\ clicks' = clicks + 1
  /\ \E p \in Processes :
       /\ proc[p].up
       /\ proc[p].found # Nil
       /\ proc[p].found.asset
       /\ request' = [request EXCEPT ![c] =
            [NoRequest EXCEPT !.pc = "starting", !.by = p, !.release = proc[p].found]]
  /\ UNCHANGED <<latest, installed, proc, file, sums, installers, overlapped>>
  /\ UNCHANGED <<releases, starts, faults>>

Go(c, pc) == request' = [request EXCEPT ![c].pc = pc]
End(c) == request' = [request EXCEPT ![c] = NoRequest]

Others(c) == {d \in Clicks \ {c} : request[d].pc \in Relies}
IsWriting(c) == request[c].pc = "writing"
Runs == installers # {}

(* Download creates or truncates the file.                                 *)
Create(c) ==
  /\ request[c].pc = "starting"
  /\ \/ /\ ~Runs
        /\ file' = [of |-> request[c].release, content |-> "part"]
        /\ overlapped' = (overlapped \/ Others(c) # {})
        /\ Go(c, "writing")
        /\ UNCHANGED faults
     \/ /\ Runs \/ faults < MaxFaults
        /\ faults' = IF Runs THEN faults ELSE faults + 1
        /\ End(c)
        /\ UNCHANGED <<file, overlapped>>
  /\ UNCHANGED <<latest, installed, proc, sums, installers, clicks, releases, starts>>

(* A file that another request writes, or that runs, is not removed.       *)
Removed(c) ==
  IF Runs \/ \E d \in Others(c) : IsWriting(d) THEN file ELSE Nil

(* The copy ends, with what the server sent (a body that differs from the  *)
(* one the checksum is of is bad), mixed with what another wrote; or it    *)
(* breaks off - the visitor who clicks twice ends the first request - and  *)
(* the file is removed.                                                    *)
Write(c) ==
  /\ IsWriting(c)
  /\ \/ \E content \in {"whole", "bad"} :
          /\ content = "bad" => faults < MaxFaults \/ overlapped
          /\ faults' = IF content = "bad" /\ ~overlapped THEN faults + 1 ELSE faults
          /\ file' = [of |-> request[c].release, content |-> content]
          /\ Go(c, IF request[c].release.sidecar THEN "summing" ELSE "launching")
     \/ /\ faults < MaxFaults
        /\ faults' = faults + 1
        /\ file' = Removed(c)
        /\ End(c)
  /\ UNCHANGED <<latest, installed, proc, sums, installers, overlapped>>
  /\ UNCHANGED <<clicks, releases, starts>>

(* The checksum has one path too.  It is read and removed.                 *)
FetchSum(c) ==
  /\ request[c].pc = "summing"
  /\ \/ /\ sums' = request[c].release
        /\ Go(c, "reading")
        /\ UNCHANGED faults
     \/ /\ faults < MaxFaults
        /\ faults' = faults + 1
        /\ sums' \in {sums, Nil}
        /\ End(c)
  /\ UNCHANGED <<latest, installed, proc, file, installers, overlapped>>
  /\ UNCHANGED <<clicks, releases, starts>>

ReadSum(c) ==
  /\ request[c].pc = "reading"
  /\ sums' = Nil
  /\ request' = [request EXCEPT ![c] =
       IF sums = Nil THEN NoRequest ELSE [@ EXCEPT !.pc = "verifying", !.sum = sums]]
  /\ UNCHANGED <<latest, installed, proc, file, installers, overlapped, updaterBounds>>

(* VerifyChecksumSidecar.  The mutant accepts any file that is there.      *)
IsThere(c) == file # Nil
Matches(c) == file # Nil /\ file.content = "whole" /\ file.of = request[c].sum

Verify(c) ==
  /\ request[c].pc = "verifying"
  /\ \/ /\ Matches(c)
        /\ Go(c, "launching")
        /\ UNCHANGED file
     \/ /\ ~Matches(c)
        /\ file' = Removed(c)
        /\ End(c)
  /\ UNCHANGED <<latest, installed, proc, sums, installers, overlapped, updaterBounds>>

(* launchInstaller: the request is answered, the process ends soon after.  *)
CanRun(c) == file # Nil /\ \A d \in Others(c) : ~IsWriting(d)

Launch(c) ==
  /\ request[c].pc = "launching"
  /\ \/ /\ CanRun(c)
        /\ installers' = installers \cup
             {[by |-> request[c].by, of |-> file.of, content |-> file.content,
               sidecar |-> request[c].release.sidecar, guarded |-> proc[request[c].by].guarded]}
        /\ Go(c, "closing")
        /\ UNCHANGED faults
     \/ /\ ~CanRun(c) \/ faults < MaxFaults
        /\ faults' = IF CanRun(c) THEN faults + 1 ELSE faults
        /\ End(c)
        /\ UNCHANGED installers
  /\ UNCHANGED <<latest, installed, proc, file, sums, overlapped, clicks, releases, starts>>

(* Processes end: on exitProcess, when their window is closed, by the hand *)
(* of an installer.  Requests end with them, and in a job their installers.*)
EndOf(ended, left) ==
  /\ proc' = [p \in Processes |-> IF p \in ended THEN Off ELSE proc[p]]
  /\ request' = [c \in Clicks |-> IF request[c].by \in ended THEN NoRequest ELSE request[c]]
  /\ installers' = {i \in left : ~(i.guarded /\ i.by \in ended)}

Exit(p) ==
  /\ proc[p].up
  /\ EndOf({p}, installers)
  /\ UNCHANGED <<latest, installed, file, sums, overlapped, updaterBounds>>

(* The installer closes the copies that run (CloseApplications=force),     *)
(* replaces the program and ends; in the job of one it closes it dies at   *)
(* that.  Cut off or corrupt, it notices and gives up.                     *)
Install(i) ==
  /\ i \in installers
  /\ \/ /\ i.content = "whole"
        /\ ~(i.guarded /\ proc[i.by].up)
        /\ installed' = i.of.version
        /\ EndOf(Processes, installers \ {i})
     \/ /\ i.content = "whole"
        /\ i.guarded /\ proc[i.by].up
        /\ EndOf(Processes, installers \ {i})
        /\ UNCHANGED installed
     \/ /\ installers' = installers \ {i}
        /\ UNCHANGED <<installed, proc, request>>
  /\ UNCHANGED <<latest, file, sums, overlapped, updaterBounds>>

UpdaterNext ==
  \/ \E p \in Processes : Start(p) \/ Exit(p)
  \/ \E c \in Clicks :
       \/ Click(c) \/ Create(c) \/ Write(c) \/ FetchSum(c) \/ ReadSum(c)
       \/ Verify(c) \/ Launch(c)
  \/ \E i \in installers : Install(i)
  \/ Publish

UpdaterSpec == UpdaterInit /\ [][UpdaterNext]_updaterVars

-----------------------------------------------------------------------------
(* Properties.                                                             *)

(* Whatever fails or is abandoned, and whatever an earlier update left in  *)
(* the temp folder: an installer that is started is the whole file its     *)
(* release's checksum is of, if it has one - unless another request wrote  *)
(* the one path they share meanwhile (handleUpdateStart).                  *)
LaunchedIsVerified ==
  ~overlapped => \A i \in installers : i.sidecar => i.content = "whole"

=============================================================================
