---------------------------- MODULE SessionProofs ----------------------------
(***************************************************************************)
(* Proofs about Session for any runs, processes, threads and cancellations: *)
(* establishing the session is exclusive between processes, nobody logs in *)
(* needlessly, and, with at most one cancellation under way, no driver and *)
(* no window outlives its run.                                             *)
(***************************************************************************)
EXTENDS Session, FiniteSetTheorems, TLAPS

-----------------------------------------------------------------------------
(* The inductive invariants *)

Working == {"check", "driver", "use", "page", "verify", "await", "saving", "release"}

\* Whoever is inside closeBrowser or Close works on a run's scraper; a run's own
\* goroutine only on its own, and for good exactly when it is about to exit.
ClosersKnown ==
  \A c \in Closers :
    /\ closing[c].at = "none" => closing[c] = NotClosing
    /\ closing[c].at # "none" => closing[c].of \in Runs
    /\ closing[c].at \in {"driver", "stop"} => closing[c].all
    /\ closing[c].at # "none" /\ c \in Runs =>
         closing[c].of = c /\ at[c] = "closing" /\ closing[c].all = (after[c] = "exit")

\* Where a run may go on after closing, or after the release.
GoesOnWell ==
  \A r \in Runs :
    /\ at[r] = "closing" => after[r] \in {"check", "driver", "exit"}
    /\ at[r] = "release" => after[r] \in {"leave", "crawl"}

Moments == {"none", "page", "drop", "driver", "stop"}
Closing == [at : Moments, of : Runs \cup {Nobody}, got : Nat, all : BOOLEAN]

ControlOK ==
  /\ kind \in [Runs -> {"sync", "list", "login", "lookup"}]
  /\ at \in [Runs -> Stages] /\ after \in [Runs -> Stages]
  /\ goal \in [Runs -> {"reuse", "login", "relaunch"}]
  /\ closing \in [Closers -> Closing]
  /\ ClosersKnown /\ GoesOnWell

\* What is open is finite, so that there is always an address to spare.
BrowserOK ==
  /\ pw \in [Runs -> Nat] /\ win \in [Runs -> Nat] /\ page \in [Runs -> Nat] /\ opened \in [Runs -> Nat]
  /\ drivers \in [Runs -> SUBSET Addresses]
  /\ windows \in [Runs -> SUBSET [id : Addresses, driver : Addresses, visible : BOOLEAN]]
  /\ \A r \in Runs : IsFiniteSet(drivers[r]) /\ IsFiniteSet(windows[r])

Owners == Processes \cup {Nobody}
AllThreads == (UNION {Threads[p] : p \in Processes}) \cup {Nobody}

SharedOK ==
  /\ mutex \in [process : Owners, thread : AllThreads, depth : Nat]
  /\ saved \in {"none", "valid", "expired", "torn"}
  /\ syncLock \in Runs \cup {Nobody} /\ running \in Runs \cup {Nobody}
  /\ cancelled \subseteq Runs /\ disturbed \subseteq Runs /\ panicked \in BOOLEAN
  /\ faults \in 0..MaxFaults

\* The runs in the phase hold the mutex for their process, each once at least.
Phase == {r \in Runs : Establishing(r)}
Begun == {r \in Runs : at[r] \notin {"idle", "queue"}}

MutexInv ==
  /\ mutex = Free <=> mutex.depth = 0
  /\ \A r \in Runs : Establishing(r) => mutex.process = Process[r]
  /\ Cardinality(Phase) <= mutex.depth
  /\ mutex.depth <= Cardinality(Begun)

\* A run that is about to open a login window saw no valid session, or an error.
Alone(r) == \A q \in Runs \ {r} : Process[q] = Process[r] => at[q] = "idle"
AboutToLogin(r) ==
  goal[r] = "login" /\ (at[r] \in {"driver", "use"} \/ (at[r] = "closing" /\ after[r] = "driver"))

LoginInv ==
  \A r \in Runs :
    AboutToLogin(r) /\ ~Forced(r) /\ Alone(r) /\ saved = "valid" => r \in disturbed

\* The scraper knows its driver, every window hangs on it, and a driver that
\* somebody is about to stop is that one, unless the run is on its way out.
Leaving(r) == at[r] \in {"exit", "over"} \/ (at[r] = "closing" /\ after[r] = "exit")

DriverKnown(r) ==
  /\ pw[r] = 0 => drivers[r] = {}
  /\ pw[r] # 0 => drivers[r] = {pw[r]}
  /\ \A v \in windows[r] : pw[r] # 0 /\ v.driver = pw[r]
  /\ at[r] \in {"exit", "over"} => pw[r] = 0

StopsKnown(c) ==
  closing[c].at = "stop" =>
    /\ closing[c].got # 0
    /\ \/ pw[closing[c].of] = closing[c].got
       \/ pw[closing[c].of] = 0 /\ Leaving(closing[c].of)

DriverInv ==
  Cardinality(Cancels) <= 1 =>
    /\ \A r \in Runs : DriverKnown(r)
    /\ \A c \in Closers : StopsKnown(c)

-----------------------------------------------------------------------------
(* Addresses *)

LEMMA ImageIsFinite ==
  ASSUME NEW S, IsFiniteSet(S), NEW f, f = [x \in S |-> f[x]]
  PROVE  IsFiniteSet({f[x] : x \in S})
<1> DEFINE T == {f[x] : x \in S}
<1>1. f \in Surjection(S, T)
  BY DEF Surjection
<1> QED BY <1>1, FS_Surjection

\* There is an address that nothing of a run points to (New).
LEMMA NewIsFree ==
  ASSUME ControlOK, BrowserOK, NEW r \in Runs
  PROVE  New(r) \in Addresses
<1> DEFINE U == Used(r)
           W == {v.id : v \in windows[r]}
           D == {d \in Closers : closing[d].of = r}
           G == {closing[c].got : c \in D}
           k == Cardinality(U)
<1>1. IsFiniteSet(W)
  <2> DEFINE f == [v \in windows[r] |-> v.id]
  <2>1. IsFiniteSet(windows[r])
    BY DEF BrowserOK
  <2>2. IsFiniteSet({f[v] : v \in windows[r]})
    BY <2>1, ImageIsFinite
  <2> QED BY <2>2, Zenon
<1>2. IsFiniteSet(G)
  <2>1. IsFiniteSet(Closers)
    BY SessionAssumption, FS_Union DEF Closers
  <2>2. D \subseteq Closers
    OBVIOUS
  <2>3. IsFiniteSet(D)
    BY <2>1, <2>2, FS_Subset
  <2> HIDE DEF D
  <2> DEFINE f == [c \in D |-> closing[c].got]
  <2>4. IsFiniteSet({f[c] : c \in D})
    BY <2>3, ImageIsFinite
  <2> QED BY <2>4, Zenon
<1>3. IsFiniteSet({pw[r], win[r], page[r], opened[r]})
  <2>1. IsFiniteSet({pw[r]})
    BY FS_Singleton
  <2>2. IsFiniteSet({pw[r]} \cup {win[r]})
    BY <2>1, FS_AddElement
  <2>3. IsFiniteSet({pw[r]} \cup {win[r]} \cup {page[r]})
    BY <2>2, FS_AddElement
  <2>4. IsFiniteSet({pw[r]} \cup {win[r]} \cup {page[r]} \cup {opened[r]})
    BY <2>3, FS_AddElement
  <2>5. {pw[r], win[r], page[r], opened[r]} = {pw[r]} \cup {win[r]} \cup {page[r]} \cup {opened[r]}
    OBVIOUS
  <2> QED BY <2>4, <2>5
<1>4. IsFiniteSet(drivers[r])
  BY DEF BrowserOK
<1>5. U = drivers[r] \cup W \cup {pw[r], win[r], page[r], opened[r]} \cup G
  BY Zenon DEF Used
<1>6. IsFiniteSet(U)
  <2> HIDE DEF W, G, U
  <2> QED BY <1>1, <1>2, <1>3, <1>4, <1>5, FS_Union
<1>7. k \in Nat
  BY <1>6, FS_CardinalityType
<1>8. PICK n \in 1..(k + 1) : n \notin U
  <2> SUFFICES ASSUME 1..(k + 1) \subseteq U PROVE FALSE
    BY Zenon
  <2> HIDE DEF U, k
  <2>1. Cardinality(1..(k + 1)) = k + 1
    BY <1>7, FS_Interval
  <2>2. Cardinality(1..(k + 1)) <= Cardinality(U)
    BY <1>6, FS_Subset
  <2> QED BY <1>7, <2>1, <2>2 DEF k
<1>9. New(r) \in 1..(k + 1)
  BY <1>8, Zenon DEF New
<1> QED BY <1>7, <1>9 DEF Addresses

-----------------------------------------------------------------------------
(* Where everybody is *)

\* A run's goroutine goes on to another stage.
LEMMA GoingOn ==
  ASSUME ControlOK, NEW r \in Runs, NEW stage \in Stages \ {"closing"}, at[r] # "closing",
         Go(r, stage), UNCHANGED <<kind, closing>>,
         goal' \in [Runs -> {"reuse", "login", "relaunch"}],
         \/ after' = after /\ stage # "release"
         \/ \E n \in {"leave", "crawl", "over"} :
              after' = [after EXCEPT ![r] = n] /\ (stage = "release" => n # "over")
  PROVE  ControlOK'
<1>1. at' \in [Runs -> Stages] /\ after' \in [Runs -> Stages]
  BY DEF ControlOK, Go, Stages
<1>2. ClosersKnown'
  BY DEF ControlOK, ClosersKnown, Go, Closers, Closing
<1>3. GoesOnWell'
  BY DEF ControlOK, GoesOnWell, Go, Stages
<1> QED BY <1>1, <1>2, <1>3 DEF ControlOK

\* A run's goroutine enters closeBrowser or Close.
LEMMA GoingToClose ==
  ASSUME ControlOK, NEW r \in Runs, NEW next \in {"check", "driver", "exit"}, NEW all \in BOOLEAN,
         all = (next = "exit"), at[r] # "closing", CloseThen(r, all, next), UNCHANGED kind,
         goal' \in [Runs -> {"reuse", "login", "relaunch"}]
  PROVE  ControlOK'
<1>1. at' \in [Runs -> Stages] /\ after' \in [Runs -> Stages]
  BY DEF ControlOK, CloseThen, Go, Stages
<1>2. closing' \in [Closers -> Closing]
  <2>1. [at |-> "page", of |-> r, got |-> 0, all |-> all] \in Closing
    BY DEF Closing, Moments
  <2> QED BY <2>1 DEF ControlOK, CloseThen, StartClosing
<1>3. ClosersKnown'
  <2> SUFFICES ASSUME NEW c \in Closers
               PROVE  /\ closing'[c].at = "none" => closing'[c] = NotClosing
                      /\ closing'[c].at # "none" => closing'[c].of \in Runs
                      /\ closing'[c].at \in {"driver", "stop"} => closing'[c].all
                      /\ closing'[c].at # "none" /\ c \in Runs =>
                           /\ closing'[c].of = c /\ at'[c] = "closing"
                           /\ closing'[c].all = (after'[c] = "exit")
    BY DEF ClosersKnown
  <2>1. CASE c = r
    BY <2>1 DEF ControlOK, ClosersKnown, CloseThen, StartClosing, Go, Closers, Closing
  <2>2. CASE c # r
    BY <2>2 DEF ControlOK, ClosersKnown, CloseThen, StartClosing, Go, Closers, Closing
  <2> QED BY <2>1, <2>2
<1>4. GoesOnWell'
  BY DEF ControlOK, GoesOnWell, CloseThen, Go, Stages
<1> QED BY <1>1, <1>2, <1>3, <1>4 DEF ControlOK

\* What a closer does with its place in the work.
LEMMA ClosingEnds ==
  ASSUME ControlOK, NEW c \in Closers, closing[c].at # "none", CloseEnds(c), UNCHANGED <<kind, goal>>
  PROVE  ControlOK'
<1>1. at' \in [Runs -> Stages] /\ after' \in [Runs -> Stages]
  BY DEF ControlOK, CloseEnds, Go, Stages
<1>2. closing' \in [Closers -> Closing]
  <2>1. NotClosing \in Closing
    BY DEF Closing, Moments, NotClosing
  <2> QED BY <2>1 DEF ControlOK, CloseEnds
<1>3. ASSUME NEW d \in Closers PROVE ClosersKnown!(d)'
  <2>1. CASE d = c
    BY <2>1 DEF ControlOK, CloseEnds, NotClosing
  <2>2. CASE d # c
    BY <2>2 DEF ControlOK, ClosersKnown, CloseEnds, Go, Closers
  <2> QED BY <2>1, <2>2
<1>4. GoesOnWell'
  BY DEF ControlOK, GoesOnWell, ClosersKnown, CloseEnds, Go, Stages
<1> QED BY <1>1, <1>2, <1>3, <1>4 DEF ControlOK, ClosersKnown

LEMMA ClosingGoesOn ==
  ASSUME ControlOK, NEW c \in Closers, closing[c].at # "none",
         NEW next \in Moments \ {"none"}, NEW got \in Nat, CloseGoesOn(c, next, got),
         next \in {"driver", "stop"} => closing[c].all,
         UNCHANGED <<kind, goal>>
  PROVE  ControlOK'
<1>1. closing[c] \in Closing
  BY DEF ControlOK
<1>2. /\ closing'[c] = [at |-> next, of |-> closing[c].of, got |-> got, all |-> closing[c].all]
      /\ DOMAIN closing' = Closers /\ \A d \in Closers : d # c => closing'[d] = closing[d]
      /\ closing' \in [Closers -> Closing]
  BY <1>1 DEF ControlOK, CloseGoesOn, Closing
<1>5. UNCHANGED <<at, after>>
  BY DEF CloseGoesOn
<1>6. ClosersKnown'
  BY <1>1, <1>2, <1>5 DEF ControlOK, ClosersKnown, Closing
<1> QED BY <1>2, <1>5, <1>6 DEF ControlOK, GoesOnWell

LEMMA ClosingStep ==
  ASSUME ControlOK, BrowserOK, NEW c \in Closers, CloseStep(c)
  PROVE  ControlOK'
<1> DEFINE r == closing[c].of
<1>1. closing[c].at # "none" /\ r \in Runs
  BY DEF CloseStep, ReadWindow, DropWindow, ReadDriver, StopDriver, ControlOK, ClosersKnown
<1>2. UNCHANGED <<kind, goal>>
  BY DEF CloseStep, ReadWindow, DropWindow, ReadDriver, StopDriver, history
<1>3. \/ CloseEnds(c)
      \/ \E next \in Moments \ {"none"}, got \in Nat :
           CloseGoesOn(c, next, got) /\ (next \in {"driver", "stop"} => closing[c].all)
  BY <1>1 DEF CloseStep, ReadWindow, DropWindow, ReadDriver, StopDriver, Moments, BrowserOK,
              ControlOK, ClosersKnown
<1> QED BY <1>1, <1>2, <1>3, ClosingEnds, ClosingGoesOn

LEMMA CancelControl ==
  ASSUME ControlOK, NEW c \in Cancels, NEW r \in Runs, Cancel(c, r)
  PROVE  ControlOK'
<1>1. c \in Closers /\ c \notin Runs
  BY SessionAssumption DEF Closers
<1>2. closing' \in [Closers -> Closing]
  <2>1. [at |-> "page", of |-> r, got |-> 0, all |-> TRUE] \in Closing
    BY DEF Closing, Moments
  <2> QED BY <2>1 DEF ControlOK, Cancel, StartClosing
<1>3. UNCHANGED <<at, after, kind, goal>>
  BY DEF Cancel
<1>4. ASSUME NEW d \in Closers PROVE ClosersKnown!(d)'
  <2>1. CASE d = c
    BY <1>1, <2>1 DEF ControlOK, Cancel, StartClosing
  <2>2. CASE d # c
    BY <1>3, <2>2 DEF ControlOK, ClosersKnown, Cancel, StartClosing
  <2> QED BY <2>1, <2>2
<1> QED BY <1>2, <1>3, <1>4 DEF ControlOK, GoesOnWell, ClosersKnown

LEMMA EndsControl ==
  ASSUME ControlOK, NEW p \in Processes, Ends(p), UNCHANGED <<kind, goal, after>>
  PROVE  ControlOK'
<1>1. at' \in [Runs -> Stages]
  BY DEF ControlOK, Ends, Stages
<1>2. closing' \in [Closers -> Closing]
  <2>1. NotClosing \in Closing
    BY DEF Closing, Moments, NotClosing
  <2> QED BY <2>1 DEF ControlOK, Ends
<1>3. ASSUME NEW d \in Closers PROVE ClosersKnown!(d)'
  <2>1. CASE closing[d] # NotClosing /\ Process[closing[d].of] = p
    BY <2>1 DEF ControlOK, Ends, NotClosing
  <2>2. CASE closing[d] = NotClosing
    BY <2>2 DEF ControlOK, Ends, NotClosing
  <2>3. CASE closing[d] # NotClosing /\ Process[closing[d].of] # p
    BY <2>3 DEF ControlOK, ClosersKnown, Ends
  <2> QED BY <2>1, <2>2, <2>3
<1>4. GoesOnWell'
  BY DEF ControlOK, GoesOnWell, Ends
<1> QED BY <1>1, <1>2, <1>3, <1>4 DEF ControlOK, ClosersKnown

\* An error while the session is being established.
LEMMA FailsControl ==
  ASSUME ControlOK, NEW r \in Runs, at[r] # "closing", Fails(r), UNCHANGED kind,
         goal[r] # "reuse" => UNCHANGED closing
  PROVE  ControlOK'
<1>1. CASE goal[r] = "reuse"
  <2>1. goal' \in [Runs -> {"reuse", "login", "relaunch"}]
    BY <1>1 DEF Fails, LaunchFor, ControlOK
  <2> QED BY <1>1, <2>1, GoingToClose DEF Fails, LaunchFor
<1>2. CASE goal[r] # "reuse"
  <2>1. goal' \in [Runs -> {"reuse", "login", "relaunch"}]
    BY <1>2 DEF Fails, ReleaseThen, ControlOK
  <2> QED BY <1>2, <2>1, GoingOn DEF Fails, ReleaseThen, Stages
<1> QED BY <1>1, <1>2

LEMMA RunControl ==
  ASSUME ControlOK, SharedOK, NEW r \in Runs, Start(r) \/ RunStep(r)
  PROVE  ControlOK'
<1> USE DEF history
<1>1. CASE Start(r)
  BY <1>1, GoingOn DEF Start, Stages, ControlOK
<1>2. CASE Leave(r)
  BY <1>2, GoingToClose DEF Leave, ControlOK
<1>3. CASE Exit(r)
  <2>1. CASE Process[r] = Gui /\ Go(r, "over") /\ UNCHANGED closing
    BY <1>3, <2>1, GoingOn DEF Exit, Stages, ControlOK
  <2>2. CASE Ends(Process[r])
    BY <1>3, <2>2, EndsControl, SessionAssumption DEF Exit
  <2> QED BY <1>3, <2>1, <2>2 DEF Exit
<1>4. CASE GivesUp(r)
  BY <1>4, GoingOn DEF GivesUp, Stages, ControlOK
<1>5. CASE Check(r)
  <2>1. goal' \in [Runs -> {"reuse", "login", "relaunch"}]
    BY <1>5 DEF Check, ControlOK
  <2> QED BY <1>5, <2>1, GoingOn DEF Check, Stages
<1>6. CASE Driver(r)
  BY <1>6, GoingOn DEF Driver, Stages, ControlOK
<1>7. CASE Use(r)
  <2>1. CASE Fails(r)
    <3>1. (at[r] # "closing" /\ goal[r] # "reuse" /\ UNCHANGED closing) \/ goal[r] = "reuse"
      BY <1>7, <2>1 DEF Use, Fails
    <3> QED BY <1>7, <2>1, <3>1, FailsControl DEF Use
  <2>2. CASE Go(r, "page") /\ UNCHANGED <<goal, closing, after>>
    BY <1>7, <2>2, GoingOn DEF Use, Stages, ControlOK
  <2> QED BY <1>7, <2>1, <2>2 DEF Use
<1>8. CASE Panic(r)
  BY <1>8, EndsControl, SessionAssumption DEF Panic
<1>9. CASE Page(r)
  <2>1. CASE Fails(r)
    <3>1. goal[r] # "reuse" => UNCHANGED closing
      BY <2>1 DEF Fails
    <3> QED BY <1>9, <2>1, <3>1, FailsControl DEF Page
  <2>2. CASE ~Fails(r)
    BY <1>9, <2>2, GoingOn DEF Page, Stages, ControlOK
  <2> QED BY <2>1, <2>2
<1>10. CASE Verify(r)
  <2>1. CASE Fails(r)
    <3>1. goal[r] # "reuse" => UNCHANGED closing
      BY <2>1 DEF Fails
    <3> QED BY <1>10, <2>1, <3>1, FailsControl DEF Verify
  <2>2. CASE LaunchFor(r, "login")
    <3>1. goal' \in [Runs -> {"reuse", "login", "relaunch"}]
      BY <2>2 DEF LaunchFor, ControlOK
    <3> QED BY <1>10, <2>2, <3>1, GoingToClose DEF Verify, LaunchFor
  <2>3. CASE ReleaseThen(r, "crawl") /\ UNCHANGED closing
    <3>1. goal' \in [Runs -> {"reuse", "login", "relaunch"}]
      BY <2>3 DEF ReleaseThen, ControlOK
    <3> QED BY <1>10, <2>3, <3>1, GoingOn DEF Verify, ReleaseThen, Stages
  <2> QED BY <1>10, <2>1, <2>2, <2>3 DEF Verify
<1>11. CASE LoggedIn(r)
  <2>1. CASE Go(r, "saving") /\ UNCHANGED <<goal, after>>
    BY <1>11, <2>1, GoingOn DEF LoggedIn, Stages, ControlOK
  <2>2. CASE ReleaseThen(r, "leave")
    <3>1. goal' \in [Runs -> {"reuse", "login", "relaunch"}]
      BY <2>2 DEF ReleaseThen, ControlOK
    <3> QED BY <1>11, <2>2, <3>1, GoingOn DEF LoggedIn, ReleaseThen, Stages
  <2> QED BY <1>11, <2>1, <2>2 DEF LoggedIn
<1>12. CASE LoginFails(r)
  <2>1. goal' \in [Runs -> {"reuse", "login", "relaunch"}]
    BY <1>12 DEF LoginFails, ReleaseThen, ControlOK
  <2> QED BY <1>12, <2>1, GoingOn DEF LoginFails, ReleaseThen, Stages
<1>13. CASE Saved(r)
  <2>1. goal' \in [Runs -> {"reuse", "login", "relaunch"}]
    BY <1>13 DEF Saved, LaunchFor, ReleaseThen, ControlOK
  <2>2. CASE Relaunches(r)
    BY <1>13, <2>1, <2>2, GoingToClose DEF Saved, LaunchFor
  <2>3. CASE ~Relaunches(r)
    BY <1>13, <2>1, <2>3, GoingOn DEF Saved, ReleaseThen, Stages
  <2> QED BY <2>2, <2>3
<1>14. CASE Crawl(r)
  BY <1>14, GoingOn DEF Crawl, Stages, ControlOK
<1>15. ASSUME NEW th \in Threads[Process[r]], Acquire(r, th) PROVE ControlOK'
  BY <1>15, GoingToClose DEF Acquire, ControlOK
<1>16. ASSUME NEW th \in Threads[Process[r]], Release(r, th) PROVE ControlOK'
  <2>1. after[r] \in {"leave", "crawl"}
    BY <1>16 DEF Release, ControlOK, GoesOnWell
  <2> QED BY <1>16, <2>1, GoingOn DEF Release, Stages, ControlOK
<1> QED
  BY <1>1, <1>2, <1>3, <1>4, <1>5, <1>6, <1>7, <1>8, <1>9, <1>10, <1>11, <1>12, <1>13, <1>14, <1>15, <1>16
  DEF RunStep

LEMMA ControlStep ==
  ASSUME ControlOK, BrowserOK, SharedOK, [Next]_vars
  PROVE  ControlOK'
<1>1. ASSUME NEW r \in Runs, Start(r) \/ RunStep(r) PROVE ControlOK'
  BY <1>1, RunControl
<1>2. ASSUME NEW r \in Runs, WindowDies(r) PROVE ControlOK'
  BY <1>2 DEF WindowDies, ControlOK, ClosersKnown, GoesOnWell
<1>3. ASSUME NEW c \in Closers, CloseStep(c) PROVE ControlOK'
  BY <1>3, ClosingStep
<1>4. ASSUME NEW c \in Cancels, NEW r \in Runs, Cancel(c, r) PROVE ControlOK'
  BY <1>4, CancelControl
<1>5. ASSUME NEW p \in Processes, Kill(p) PROVE ControlOK'
  BY <1>5, EndsControl DEF Kill
<1>6. CASE Expire
  BY <1>6 DEF Expire, ControlOK, ClosersKnown, GoesOnWell
<1>7. CASE UNCHANGED vars
  BY <1>7 DEF vars, ControlOK, ClosersKnown, GoesOnWell
<1> QED BY <1>1, <1>2, <1>3, <1>4, <1>5, <1>6, <1>7 DEF Next

-----------------------------------------------------------------------------
(* What is open, and what the processes share *)

LEMMA EndsBrowser ==
  ASSUME BrowserOK, NEW p \in Processes, Ends(p)
  PROVE  BrowserOK'
<1>1. IsFiniteSet({})
  BY FS_EmptySet
<1> QED BY <1>1 DEF BrowserOK, Ends

LEMMA ClosingBrowser ==
  ASSUME ControlOK, BrowserOK, NEW c \in Closers, CloseStep(c)
  PROVE  BrowserOK'
<1> DEFINE r == closing[c].of
<1>1. r \in Runs
  BY DEF CloseStep, ReadWindow, DropWindow, ReadDriver, StopDriver, ControlOK, ClosersKnown
<1>2. CASE ReadWindow(c)
  BY <1>1, <1>2 DEF ReadWindow, BrowserOK, open
<1>3. CASE DropWindow(c)
  <2>1. windows'[r] \subseteq windows[r]
    BY <1>1, <1>3 DEF DropWindow, BrowserOK
  <2>2. IsFiniteSet(windows'[r])
    BY <1>1, <2>1, FS_Subset DEF BrowserOK
  <2>3. \A q \in Runs \ {r} : windows'[q] = windows[q]
    BY <1>1, <1>3 DEF DropWindow, BrowserOK
  <2>4. windows' \in [Runs -> SUBSET [id : Addresses, driver : Addresses, visible : BOOLEAN]]
    BY <1>1, <1>3 DEF DropWindow, BrowserOK
  <2> QED BY <1>1, <1>3, <2>2, <2>3, <2>4 DEF DropWindow, BrowserOK
<1>4. CASE ReadDriver(c)
  BY <1>4 DEF ReadDriver, BrowserOK, open, fields
<1>5. CASE StopDriver(c)
  <2>1. windows'[r] \subseteq windows[r] /\ drivers'[r] \subseteq drivers[r]
    BY <1>1, <1>5 DEF StopDriver, BrowserOK
  <2>2. IsFiniteSet(windows'[r]) /\ IsFiniteSet(drivers'[r])
    BY <1>1, <2>1, FS_Subset DEF BrowserOK
  <2>3. \A q \in Runs \ {r} : windows'[q] = windows[q] /\ drivers'[q] = drivers[q]
    BY <1>1, <1>5 DEF StopDriver, BrowserOK
  <2>4. windows' \in [Runs -> SUBSET [id : Addresses, driver : Addresses, visible : BOOLEAN]]
    BY <1>1, <1>5 DEF StopDriver, BrowserOK
  <2>5. drivers' \in [Runs -> SUBSET Addresses]
    BY <1>1, <1>5 DEF StopDriver, BrowserOK
  <2> QED BY <1>1, <1>5, <2>2, <2>3, <2>4, <2>5 DEF StopDriver, BrowserOK
<1> QED BY <1>2, <1>3, <1>4, <1>5 DEF CloseStep

LEMMA DriverBrowser ==
  ASSUME ControlOK, BrowserOK, NEW r \in Runs, Driver(r)
  PROVE  BrowserOK'
<1>1. New(r) \in Addresses
  BY NewIsFree
<1>2. IsFiniteSet(drivers[r] \cup {New(r)})
  BY FS_AddElement DEF BrowserOK
<1>3. CASE UNCHANGED <<drivers, pw>>
  BY <1>3 DEF Driver, BrowserOK
<1>4. CASE /\ drivers' = [drivers EXCEPT ![r] = @ \cup {New(r)}]
           /\ pw' = [pw EXCEPT ![r] = New(r)]
  <2>1. drivers' \in [Runs -> SUBSET Addresses] /\ pw' \in [Runs -> Nat]
    BY <1>1, <1>4 DEF BrowserOK, Addresses
  <2>2. \A q \in Runs : IsFiniteSet(drivers'[q])
    BY <1>2, <1>4 DEF BrowserOK
  <2>3. UNCHANGED <<win, page, windows, opened>>
    BY DEF Driver
  <2> QED BY <2>1, <2>2, <2>3 DEF BrowserOK
<1> QED BY <1>3, <1>4 DEF Driver

LEMMA UseBrowser ==
  ASSUME ControlOK, BrowserOK, NEW r \in Runs, Use(r)
  PROVE  BrowserOK'
<1> DEFINE w == [id |-> New(r), driver |-> pw[r], visible |-> goal[r] = "login"]
<1>1. New(r) \in Addresses
  BY NewIsFree
<1>2. w \in [id : Addresses, driver : Addresses, visible : BOOLEAN]
  <2>1. pw[r] \in Addresses
    BY DEF Use, BrowserOK, Addresses
  <2> QED BY <1>1, <2>1, Zenon
<1>3. IsFiniteSet(windows[r] \cup {w})
  BY FS_AddElement DEF BrowserOK
<1>4. CASE UNCHANGED <<windows, win, opened>>
  BY <1>4 DEF Use, BrowserOK
<1>5. CASE /\ windows' = [windows EXCEPT ![r] = @ \cup {w}]
           /\ win' = [win EXCEPT ![r] = New(r)] /\ opened' = [opened EXCEPT ![r] = New(r)]
  <2> HIDE DEF w, New
  <2>1. windows' \in [Runs -> SUBSET [id : Addresses, driver : Addresses, visible : BOOLEAN]]
    BY <1>2, <1>5 DEF BrowserOK
  <2>2. \A q \in Runs : IsFiniteSet(windows'[q])
    BY <1>3, <1>5 DEF BrowserOK
  <2>3. UNCHANGED <<pw, page, drivers>>
    BY DEF Use
  <2>4. win' \in [Runs -> Nat] /\ opened' \in [Runs -> Nat]
    BY <1>1, <1>5 DEF BrowserOK, Addresses
  <2> QED BY <2>1, <2>2, <2>3, <2>4 DEF BrowserOK
<1> QED BY <1>4, <1>5 DEF Use

LEMMA BrowserStep ==
  ASSUME ControlOK, BrowserOK, [Next]_vars
  PROVE  BrowserOK'
<1> USE DEF open, fields
<1>1. ASSUME UNCHANGED <<fields, open>> PROVE BrowserOK'
  BY <1>1 DEF BrowserOK
<1>2. ASSUME NEW r \in Runs, RunStep(r) PROVE BrowserOK'
  <2>1. CASE Exit(r)
    BY <1>1, <2>1, EndsBrowser, SessionAssumption DEF Exit
  <2>2. CASE Driver(r)
    BY <2>2, DriverBrowser
  <2>3. CASE Use(r)
    BY <2>3, UseBrowser
  <2>4. CASE Panic(r)
    BY <2>4, EndsBrowser, SessionAssumption DEF Panic
  <2>5. CASE Page(r)
    <3>1. UNCHANGED <<pw, win, drivers, windows>> /\ opened' = [opened EXCEPT ![r] = 0]
      BY <2>5 DEF Page
    <3>2. page' = page \/ page' = [page EXCEPT ![r] = opened[r]]
      BY <2>5 DEF Page
    <3> QED BY <3>1, <3>2 DEF BrowserOK
  <2> QED BY <1>1, <1>2, <2>1, <2>2, <2>3, <2>4, <2>5
          DEF RunStep, Leave, GivesUp, Check, Verify, LoggedIn, LoginFails, Saved, Crawl, Acquire, Release
<1>3. ASSUME NEW r \in Runs, WindowDies(r) PROVE BrowserOK'
  <2>1. IsFiniteSet({})
    BY FS_EmptySet
  <2> QED BY <1>3, <2>1 DEF WindowDies, BrowserOK
<1>4. ASSUME NEW p \in Processes, Kill(p) PROVE BrowserOK'
  BY <1>4, EndsBrowser DEF Kill
<1> QED BY <1>1, <1>2, <1>3, <1>4, ClosingBrowser DEF Next, vars, Start, Cancel, Expire

LEMMA FreeIsTyped == Free \in [process : Owners, thread : AllThreads, depth : Nat]
<1>1. Nobody \in Owners
  BY DEF Owners
<1>2. Nobody \in AllThreads
  BY Zenon DEF AllThreads
<1>3. 0 \in Nat
  OBVIOUS
<1> QED BY <1>1, <1>2, <1>3, Zenon DEF Free

\* The mutex between threads: another holder, or one more or one fewer hold.
LEMMA SharedStep ==
  ASSUME SharedOK, MutexInv, [Next]_vars
  PROVE  SharedOK'
<1> USE DEF shared, history, SharedOK
<1>1. ASSUME NEW p \in Processes, Ends(p), UNCHANGED <<saved, cancelled, disturbed>>,
             panicked' \in BOOLEAN, faults' \in 0..MaxFaults
      PROVE  SharedOK'
  <2>1. Free \in [process : Owners, thread : AllThreads, depth : Nat]
    BY FreeIsTyped
  <2>2. mutex' \in [process : Owners, thread : AllThreads, depth : Nat]
    BY <1>1, <2>1 DEF Ends
  <2>3. syncLock' \in Runs \cup {Nobody} /\ running' \in Runs \cup {Nobody}
    BY <1>1 DEF Ends
  <2> QED BY <1>1, <2>2, <2>3
<1>2. ASSUME NEW r \in Runs, Start(r) \/ RunStep(r) PROVE SharedOK'
  <2>1. CASE Start(r)
    BY <2>1 DEF Start
  <2>2. CASE Leave(r)
    BY <2>2 DEF Leave
  <2>3. CASE Exit(r)
    <3>1. CASE UNCHANGED <<mutex, syncLock, running>>
      BY <2>3, <3>1 DEF Exit
    <3>2. CASE Ends(Process[r])
      BY <1>1, <2>3, <3>2, SessionAssumption DEF Exit
    <3> QED BY <2>3, <3>1, <3>2 DEF Exit
  <2>4. CASE GivesUp(r) \/ Check(r) \/ Driver(r) \/ Crawl(r) \/ LoginFails(r)
    BY <2>4 DEF GivesUp, Check, Driver, Crawl, LoginFails
  <2>5. CASE Use(r) \/ Page(r) \/ Verify(r)
    <3>1. disturbed' = disturbed \/ disturbed' = disturbed \cup {r}
      BY <2>5 DEF Use, Page, Verify, Fails
    <3>2. UNCHANGED <<mutex, saved, syncLock, cancelled, running, panicked, faults>>
      BY <2>5 DEF Use, Page, Verify
    <3> QED BY <3>1, <3>2
  <2>6. CASE Panic(r)
    BY <1>1, <2>6, SessionAssumption DEF Panic
  <2>7. CASE LoggedIn(r)
    BY <2>7 DEF LoggedIn
  <2>8. CASE Saved(r)
    BY <2>8 DEF Saved
  <2>9. ASSUME NEW th \in Threads[Process[r]], Acquire(r, th) PROVE SharedOK'
    <3>1. mutex' \in [process : Owners, thread : AllThreads, depth : Nat]
      BY <2>9, SessionAssumption DEF Acquire, Owners, AllThreads
    <3> QED BY <2>9, <3>1 DEF Acquire
  <2>10. ASSUME NEW th \in Threads[Process[r]], Release(r, th) PROVE SharedOK'
    <3>1. mutex' \in [process : Owners, thread : AllThreads, depth : Nat]
      <4>1. CASE mutex' = mutex
        BY <4>1
      <4>2. CASE mutex' = Free
        BY <4>2, FreeIsTyped
      <4>3. CASE /\ mutex.process = Process[r] /\ mutex.depth # 1
                 /\ mutex' = [mutex EXCEPT !.depth = @ - 1]
        <5>1. mutex # Free
          BY <4>3, SessionAssumption DEF Free
        <5>2. mutex.depth \in Nat /\ mutex.depth # 0
          BY <5>1 DEF MutexInv
        <5>3. mutex.depth - 1 \in Nat
          BY <5>2
        <5> HIDE DEF SharedOK
        <5>4. mutex \in [process : Owners, thread : AllThreads, depth : Nat]
          BY DEF SharedOK
        <5> QED BY <4>3, <5>3, <5>4
      <4> QED BY <2>10, <4>1, <4>2, <4>3 DEF Release, Released
    <3> QED BY <2>10, <3>1 DEF Release
  <2> QED BY <1>2, <2>1, <2>2, <2>3, <2>4, <2>5, <2>6, <2>7, <2>8, <2>9, <2>10 DEF RunStep
<1>3. ASSUME NEW c \in Closers, CloseStep(c) PROVE SharedOK'
  BY <1>3 DEF CloseStep, ReadWindow, DropWindow, ReadDriver, StopDriver
<1>4. ASSUME NEW c \in Cancels, NEW r \in Runs, Cancel(c, r) PROVE SharedOK'
  BY <1>4 DEF Cancel
<1>5. ASSUME NEW p \in Processes, Kill(p) PROVE SharedOK'
  BY <1>1, <1>5, SessionAssumption DEF Kill, Fault
<1>6. ASSUME NEW r \in Runs, WindowDies(r) PROVE SharedOK'
  BY <1>6, SessionAssumption DEF WindowDies, Fault
<1>7. CASE Expire
  BY <1>7, SessionAssumption DEF Expire, Fault
<1>8. CASE UNCHANGED vars
  BY <1>8 DEF vars
<1> QED BY <1>2, <1>3, <1>4, <1>5, <1>6, <1>7, <1>8 DEF Next

-----------------------------------------------------------------------------
(* The mutex *)

LEMMA PhaseIsFinite ==
  /\ IsFiniteSet(Phase) /\ Cardinality(Phase) \in Nat
  /\ IsFiniteSet(Begun) /\ Cardinality(Begun) \in Nat
<1>1. Phase \subseteq Runs /\ Begun \subseteq Runs
  BY DEF Phase, Begun
<1> QED BY <1>1, SessionAssumption, FS_Subset, FS_CardinalityType

\* A step that gives nobody the mutex and lets nobody into the phase.
LEMMA NobodyEnters ==
  ASSUME SharedOK, MutexInv, UNCHANGED mutex,
         \A q \in Runs : Establishing(q)' => Establishing(q),
         \A q \in Runs : at[q] \notin {"idle", "queue"} => at'[q] \notin {"idle", "queue"}
  PROVE  MutexInv'
<1>1. Phase' \subseteq Phase /\ Begun \subseteq Begun'
  BY DEF Phase, Begun
<1>2. Begun' \subseteq Runs
  BY DEF Begun
<1>3. IsFiniteSet(Begun') /\ Cardinality(Begun') \in Nat
  BY <1>2, SessionAssumption, FS_Subset, FS_CardinalityType
<1>4. Cardinality(Phase') <= Cardinality(Phase) /\ Cardinality(Phase') \in Nat
  BY <1>1, PhaseIsFinite, FS_Subset, FS_CardinalityType
<1>5. Cardinality(Begun) <= Cardinality(Begun')
  BY <1>1, <1>3, FS_Subset
<1> QED BY <1>3, <1>4, <1>5, PhaseIsFinite DEF MutexInv, SharedOK

LEMMA AcquireMutex ==
  ASSUME ControlOK, SharedOK, MutexInv, NEW r \in Runs, NEW th \in Threads[Process[r]], Acquire(r, th)
  PROVE  MutexInv'
<1>1. Phase' = Phase \cup {r} /\ r \notin Phase /\ Begun' = Begun \cup {r} /\ r \notin Begun
  BY DEF Acquire, CloseThen, Go, Phase, Begun, Establishing, ControlOK
<1>2. /\ Cardinality(Phase') = Cardinality(Phase) + 1
      /\ Cardinality(Begun') = Cardinality(Begun) + 1
  BY <1>1, PhaseIsFinite, FS_AddElement
<1>3. mutex.depth \in Nat /\ mutex' = [process |-> Process[r], thread |-> th, depth |-> mutex.depth + 1]
  BY DEF Acquire, SharedOK
<1>4. ASSUME NEW q \in Runs, Establishing(q)' PROVE mutex'.process = Process[q]
  <2>1. CASE q = r
    BY <1>3, <2>1
  <2>2. CASE q # r
    <3>1. Establishing(q)
      BY <1>1, <1>4, <2>2 DEF Phase
    <3>2. mutex.process = Process[q] /\ Process[q] # Nobody
      BY <3>1, SessionAssumption DEF MutexInv
    <3>3. mutex.process = Process[r]
      BY <3>2 DEF Acquire, Granted, Free
    <3> QED BY <1>3, <3>2, <3>3
  <2> QED BY <2>1, <2>2
<1>5. mutex' # Free /\ mutex'.depth # 0
  BY <1>3, SessionAssumption DEF Free
<1> QED BY <1>2, <1>3, <1>4, <1>5, PhaseIsFinite DEF MutexInv

LEMMA ReleaseMutex ==
  ASSUME ControlOK, SharedOK, MutexInv, NEW r \in Runs, NEW th \in Threads[Process[r]], Release(r, th)
  PROVE  MutexInv'
<1>1. after[r] \in {"leave", "crawl"} /\ at[r] = "release"
  BY DEF ControlOK, GoesOnWell, Release
<1>2. Phase' = Phase \ {r} /\ r \in Phase /\ Begun' = Begun
  BY <1>1 DEF Release, Go, Phase, Begun, Establishing, ControlOK
<1>3. Cardinality(Phase') = Cardinality(Phase) - 1
  BY <1>2, PhaseIsFinite, FS_RemoveElement
<1>4. CASE mutex' = mutex
  BY <1>2, <1>3, <1>4, PhaseIsFinite DEF MutexInv, Phase, SharedOK
<1>5. CASE mutex.depth = 1 /\ mutex' = Free
  <2>1. Cardinality(Phase') = 0
    BY <1>3, <1>5, <1>2, PhaseIsFinite, FS_EmptySet DEF MutexInv
  <2>2. Phase' = {}
    BY <1>2, <2>1, PhaseIsFinite, FS_RemoveElement, FS_EmptySet
  <2>3. mutex'.depth = 0
    BY <1>5 DEF Free
  <2> QED BY <1>2, <1>5, <2>1, <2>2, <2>3, PhaseIsFinite DEF MutexInv, Phase
<1>6. CASE mutex.depth # 1 /\ mutex' = [mutex EXCEPT !.depth = @ - 1] /\ mutex.process = Process[r]
  <2>1. mutex # Free
    BY <1>6, SessionAssumption DEF Free
  <2>2. mutex.depth \in Nat /\ mutex.depth # 0
    BY <2>1 DEF MutexInv, SharedOK
  <2>3. mutex'.depth = mutex.depth - 1 /\ mutex'.process = mutex.process
    BY <1>6 DEF SharedOK
  <2>4. mutex' # Free
    BY <1>6, <2>3, SessionAssumption DEF Free
  <2>5. mutex'.depth # 0
    BY <1>6, <2>2, <2>3
  <2>6. \A q \in Runs : Establishing(q)' => mutex'.process = Process[q]
    BY <1>2, <2>3 DEF MutexInv, Phase
  <2> QED BY <1>2, <1>3, <2>2, <2>3, <2>4, <2>5, <2>6, PhaseIsFinite DEF MutexInv
<1> QED BY <1>4, <1>5, <1>6 DEF Release, Released

LEMMA EndsMutex ==
  ASSUME ControlOK, SharedOK, MutexInv, NEW p \in Processes, Ends(p), UNCHANGED after
  PROVE  MutexInv'
<1>1. \A q \in Runs : Establishing(q)' => Establishing(q) /\ Process[q] # p
  BY DEF Ends, Establishing, ControlOK
<1>2. \A q \in Runs : at[q] \notin {"idle", "queue"} => at'[q] \notin {"idle", "queue"}
  BY DEF Ends
<1>3. CASE mutex.process # p
  BY <1>1, <1>2, <1>3, NobodyEnters DEF Ends
<1>4. CASE mutex.process = p
  <2>1. mutex' = Free
    BY <1>4 DEF Ends
  <2>2. Phase' = {}
    BY <1>1, <1>4 DEF MutexInv, Phase
  <2>3. Begun' \subseteq Runs
    BY DEF Begun
  <2>4. Cardinality(Begun') \in Nat
    BY <2>3, SessionAssumption, FS_Subset, FS_CardinalityType
  <2>5. mutex'.depth = 0
    BY <2>1 DEF Free
  <2>6. \A q \in Runs : ~Establishing(q)'
    BY <2>2 DEF Phase
  <2> QED BY <2>1, <2>2, <2>4, <2>5, <2>6, FS_EmptySet DEF MutexInv
<1> QED BY <1>3, <1>4

LEMMA ClosingMutex ==
  ASSUME ControlOK, SharedOK, MutexInv, NEW c \in Closers, CloseStep(c)
  PROVE  MutexInv'
<1>1. UNCHANGED mutex
  BY DEF CloseStep, ReadWindow, DropWindow, ReadDriver, StopDriver, shared
<1>2. CASE UNCHANGED <<at, after>>
  BY <1>1, <1>2, NobodyEnters DEF Establishing
<1>3. CASE c \in Runs /\ CloseEnds(c) /\ closing[c].at # "none"
  <2>1. at[c] = "closing" /\ after[c] \in {"check", "driver", "exit"}
    BY <1>3 DEF ControlOK, ClosersKnown, GoesOnWell
  <2>2. /\ at' = [at EXCEPT ![c] = after[c]] /\ after' = [after EXCEPT ![c] = "over"]
    BY <1>3 DEF CloseEnds, Go
  <2> QED BY <1>1, <2>1, <2>2, NobodyEnters DEF Establishing, ControlOK
<1> QED BY <1>2, <1>3 DEF CloseStep, ReadWindow, DropWindow, ReadDriver, StopDriver, CloseEnds, CloseGoesOn

LEMMA RunMutex ==
  ASSUME ControlOK, SharedOK, MutexInv, NEW r \in Runs, Start(r) \/ RunStep(r)
  PROVE  MutexInv'
<1> USE DEF shared
<1>1. CASE Exit(r) \/ Panic(r)
  <2>1. CASE Ends(Process[r])
    BY <1>1, <2>1, EndsMutex, SessionAssumption DEF Exit, Panic
  <2>2. CASE Exit(r) /\ Go(r, "over") /\ UNCHANGED <<mutex, after>>
    BY <2>2, NobodyEnters DEF Exit, Go, Establishing, ControlOK
  <2> QED BY <1>1, <2>1, <2>2 DEF Exit, Panic
<1>2. ASSUME NEW th \in Threads[Process[r]], Acquire(r, th) \/ Release(r, th) PROVE MutexInv'
  BY <1>2, AcquireMutex, ReleaseMutex
<1>3. CASE Start(r) \/ Leave(r) \/ GivesUp(r) \/ Check(r) \/ Driver(r) \/ Crawl(r)
  BY <1>3, NobodyEnters
  DEF Start, Leave, GivesUp, Check, Driver, Crawl, CloseThen, Go, Establishing, ControlOK
<1>4. CASE Use(r) \/ Page(r) \/ Verify(r)
  BY <1>4, NobodyEnters
  DEF Use, Page, Verify, Fails, LaunchFor, ReleaseThen, CloseThen, Go, Establishing, ControlOK
<1>5. CASE LoggedIn(r) \/ LoginFails(r) \/ Saved(r)
  BY <1>5, NobodyEnters
  DEF LoggedIn, LoginFails, Saved, LaunchFor, ReleaseThen, CloseThen, Go, Establishing, ControlOK
<1> QED BY <1>1, <1>2, <1>3, <1>4, <1>5 DEF RunStep

LEMMA MutexStep ==
  ASSUME ControlOK, SharedOK, MutexInv, [Next]_vars
  PROVE  MutexInv'
<1>1. ASSUME UNCHANGED <<at, after, mutex>> PROVE MutexInv'
  BY <1>1, NobodyEnters DEF Establishing
<1>2. ASSUME NEW p \in Processes, Kill(p) PROVE MutexInv'
  BY <1>2, EndsMutex DEF Kill
<1> QED BY <1>1, <1>2, RunMutex, ClosingMutex DEF Next, vars, WindowDies, Cancel, Expire, shared

-----------------------------------------------------------------------------
(* Who logs in *)

\* Steps that do not write the saved session and bring nobody to a login.
LEMMA NobodyToLogin ==
  ASSUME LoginInv, UNCHANGED <<kind, goal>>, saved' = "valid" => saved = "valid",
         disturbed \subseteq disturbed',
         \A q \in Runs : at'[q] = "idle" => at[q] = "idle",
         \A q \in Runs : AboutToLogin(q)' => AboutToLogin(q)
  PROVE  LoginInv'
BY DEF LoginInv, Alone, Forced

\* The same for the step of one run that sets its own goal.
LEMMA OneToLogin ==
  ASSUME LoginInv, ControlOK, NEW r \in Runs, UNCHANGED <<kind, saved>>,
         disturbed \subseteq disturbed',
         at'[r] # "idle", \A q \in Runs \ {r} : at'[q] = at[q] /\ after'[q] = after[q] /\ goal'[q] = goal[q],
         AboutToLogin(r)' /\ ~Forced(r) /\ saved = "valid" => r \in disturbed'
  PROVE  LoginInv'
BY DEF LoginInv, Alone, Forced, AboutToLogin

LEMMA RunLogin ==
  ASSUME ControlOK, SharedOK, MutexInv, LoginInv, NEW r \in Runs, Start(r) \/ RunStep(r)
  PROVE  LoginInv'
<1> USE DEF history, shared
<1>1. CASE Exit(r) \/ Panic(r)
  <2>1. CASE Ends(Process[r])
    <3>1. \A q \in Runs : AboutToLogin(q)' => AboutToLogin(q)
      BY <1>1, <2>1 DEF Exit, Panic, Ends, AboutToLogin
    <3>2. \A q \in Runs : at'[q] = "idle" => at[q] = "idle"
      BY <2>1 DEF Ends
    <3> QED BY <1>1, <3>1, <3>2, NobodyToLogin DEF Exit, Panic
  <2>2. CASE Exit(r) /\ Go(r, "over")
    BY <2>2, NobodyToLogin DEF Exit, Go, AboutToLogin, ControlOK
  <2> QED BY <1>1, <2>1, <2>2 DEF Exit, Panic
<1>2. CASE \E th \in Threads[Process[r]] : Acquire(r, th) \/ Release(r, th)
  <2>1. at[r] = "release" => after[r] \in {"leave", "crawl"}
    BY DEF ControlOK, GoesOnWell
  <2> QED BY <1>2, <2>1, NobodyToLogin DEF Acquire, Release, CloseThen, Go, AboutToLogin, ControlOK
<1>3. CASE Start(r) \/ Leave(r) \/ GivesUp(r) \/ Crawl(r)
  BY <1>3, NobodyToLogin DEF Start, Leave, GivesUp, Crawl, CloseThen, Go, AboutToLogin, ControlOK
<1>4. CASE Check(r)
  BY <1>4, OneToLogin DEF Check, TriesSaved, Go, AboutToLogin, ControlOK
<1>5. CASE Driver(r)
  BY <1>5, NobodyToLogin DEF Driver, Go, AboutToLogin, ControlOK
<1>6. CASE Use(r) \/ Page(r)
  BY <1>6, OneToLogin
  DEF Use, Page, Fails, LaunchFor, ReleaseThen, CloseThen, Go, AboutToLogin, ControlOK
<1>7. CASE Verify(r)
  <2>1. CASE Fails(r)
    BY <1>7, <2>1, OneToLogin
    DEF Verify, Fails, LaunchFor, ReleaseThen, CloseThen, Go, AboutToLogin, ControlOK
  <2>2. CASE ReleaseThen(r, "crawl") /\ UNCHANGED disturbed
    BY <1>7, <2>2, OneToLogin DEF Verify, ReleaseThen, Go, AboutToLogin, ControlOK
  <2>3. CASE LaunchFor(r, "login") /\ saved # "valid" /\ UNCHANGED disturbed
    BY <1>7, <2>3, OneToLogin DEF Verify, LaunchFor, CloseThen, Go, AboutToLogin, ControlOK
  <2> QED BY <1>7, <2>1, <2>2, <2>3 DEF Verify
<1>8. CASE LoginFails(r)
  BY <1>8, OneToLogin DEF LoginFails, ReleaseThen, Go, AboutToLogin, ControlOK
<1>9. CASE LoggedIn(r)
  <2>1. CASE saved' = saved
    BY <1>9, <2>1, OneToLogin DEF LoggedIn, ReleaseThen, Go, AboutToLogin, ControlOK
  <2>2. CASE saved' = "torn"
    BY <1>9, <2>2 DEF LoginInv
  <2> QED BY <1>9, <2>1, <2>2 DEF LoggedIn
\* The session becomes valid by a run that is in the phase itself: no run of
\* another process is on its way to a login then.
<1>10. CASE Saved(r)
  <2> SUFFICES ASSUME NEW q \in Runs, AboutToLogin(q)', Alone(q)', ~Forced(q)' PROVE FALSE
    BY DEF LoginInv
  <2>1. q # r
    <3>1. goal' = [goal EXCEPT ![r] = "relaunch"] \/ goal' = [goal EXCEPT ![r] = "reuse"]
      BY <1>10 DEF Saved, LaunchFor, ReleaseThen
    <3> QED BY <3>1 DEF AboutToLogin, ControlOK
  <2>2. AboutToLogin(q) /\ at'[r] # "idle"
    BY <1>10, <2>1 DEF Saved, LaunchFor, ReleaseThen, CloseThen, Go, AboutToLogin, ControlOK
  <2>3. Establishing(q) /\ Establishing(r)
    BY <1>10, <2>2 DEF Saved, AboutToLogin, Establishing
  <2>4. Process[q] = Process[r]
    BY <2>3 DEF MutexInv
  <2> QED BY <2>1, <2>2, <2>4 DEF Alone
<1> QED BY <1>1, <1>2, <1>3, <1>4, <1>5, <1>6, <1>7, <1>8, <1>9, <1>10 DEF RunStep

LEMMA LoginStep ==
  ASSUME ControlOK, SharedOK, MutexInv, LoginInv, [Next]_vars
  PROVE  LoginInv'
<1>1. ASSUME UNCHANGED <<kind, at, after, goal, disturbed>>, saved' = "valid" => saved = "valid"
      PROVE  LoginInv'
  BY <1>1, NobodyToLogin DEF AboutToLogin
<1>2. ASSUME NEW p \in Processes, Kill(p) PROVE LoginInv'
  <2>1. \A q \in Runs : AboutToLogin(q)' => AboutToLogin(q)
    BY <1>2 DEF Kill, Ends, AboutToLogin
  <2>2. \A q \in Runs : at'[q] = "idle" => at[q] = "idle"
    BY <1>2 DEF Kill, Ends
  <2> QED BY <1>2, <2>1, <2>2, NobodyToLogin DEF Kill
<1>3. ASSUME NEW c \in Closers, CloseStep(c) PROVE LoginInv'
  <2>1. UNCHANGED <<kind, goal, saved, disturbed>>
    BY <1>3 DEF CloseStep, ReadWindow, DropWindow, ReadDriver, StopDriver, shared, history
  <2>2. CASE UNCHANGED <<at, after>>
    BY <1>1, <2>1, <2>2
  <2>3. CASE c \in Runs /\ CloseEnds(c) /\ closing[c].at # "none"
    <3>1. at[c] = "closing"
      BY <2>3 DEF ControlOK, ClosersKnown
    <3>2. at' = [at EXCEPT ![c] = after[c]] /\ after' = [after EXCEPT ![c] = "over"]
      BY <2>3 DEF CloseEnds, Go
    <3>3. after[c] \in {"check", "driver", "exit"}
      BY <2>3, <3>1 DEF ControlOK, GoesOnWell
    <3> QED BY <2>1, <3>1, <3>2, <3>3, NobodyToLogin DEF AboutToLogin, ControlOK
  <2> QED BY <1>3, <2>2, <2>3
          DEF CloseStep, ReadWindow, DropWindow, ReadDriver, StopDriver, CloseEnds, CloseGoesOn
<1>4. CASE Expire
  BY <1>1, <1>4 DEF Expire
<1> QED BY <1>1, <1>2, <1>3, <1>4, RunLogin DEF Next, vars, WindowDies, Cancel, shared

-----------------------------------------------------------------------------
(* What is left open *)

\* A step after which everything about drivers is as it was, seen from the runs
\* that can still use one and from the closers that are about to stop one.
LEMMA DriversAsTheyWere ==
  ASSUME DriverInv, UNCHANGED <<pw, drivers>>,
         \A r \in Runs : windows'[r] \subseteq windows[r],
         \A r \in Runs : Leaving(r) => Leaving(r)',
         \A r \in Runs : at'[r] \in {"exit", "over"} => at[r] \in {"exit", "over"},
         \A c \in Closers : closing'[c].at = "stop" =>
           closing[c].at = "stop" /\ closing'[c].of = closing[c].of /\ closing'[c].got = closing[c].got,
         \A c \in Closers : closing[c].at = "stop" => closing[c].of \in Runs
  PROVE  DriverInv'
<1> SUFFICES ASSUME Cardinality(Cancels) <= 1
             PROVE  (\A r \in Runs : DriverKnown(r)') /\ (\A c \in Closers : StopsKnown(c)')
  BY DEF DriverInv
<1>1. ASSUME NEW r \in Runs PROVE DriverKnown(r)'
  BY DEF DriverInv, DriverKnown
<1>2. ASSUME NEW c \in Closers PROVE StopsKnown(c)'
  BY DEF DriverInv, StopsKnown
<1> QED BY <1>1, <1>2

LEMMA OneCanceller ==
  ASSUME Cardinality(Cancels) <= 1, NEW c \in Cancels, NEW d \in Cancels
  PROVE  c = d
<1> SUFFICES ASSUME c # d PROVE FALSE
  OBVIOUS
<1>1. {c, d} \subseteq Cancels
  OBVIOUS
<1>2. Cardinality({c} \cup {d}) = 2
  <2>1. IsFiniteSet({c}) /\ Cardinality({c}) = 1 /\ d \notin {c}
    BY FS_Singleton
  <2>2. Cardinality({c} \cup {d}) = IF d \in {c} THEN Cardinality({c}) ELSE Cardinality({c}) + 1
    BY <2>1, FS_AddElement
  <2> QED BY <2>1, <2>2
<1>3. {c} \cup {d} = {c, d}
  OBVIOUS
<1>4. Cardinality({c, d}) <= Cardinality(Cancels) /\ Cardinality(Cancels) \in Nat
  BY <1>1, SessionAssumption, FS_Subset, FS_CardinalityType
<1> QED BY <1>2, <1>3, <1>4

LEMMA EndsDrivers ==
  ASSUME ControlOK, BrowserOK, DriverInv, NEW p \in Processes, Ends(p), UNCHANGED after
  PROVE  DriverInv'
<1> SUFFICES ASSUME Cardinality(Cancels) <= 1
             PROVE  (\A r \in Runs : DriverKnown(r)') /\ (\A c \in Closers : StopsKnown(c)')
  BY DEF DriverInv
<1>1. ASSUME NEW r \in Runs PROVE DriverKnown(r)'
  BY DEF DriverInv, DriverKnown, Ends
<1>2. ASSUME NEW c \in Closers PROVE StopsKnown(c)'
  <2>1. CASE closing'[c] = NotClosing
    BY <2>1 DEF StopsKnown, NotClosing
  <2>2. CASE closing'[c] # NotClosing
    <3>1. closing'[c] = closing[c] /\ Process[closing[c].of] # p
      BY <2>2 DEF Ends
    <3>2. CASE closing[c].at = "stop"
      <4>1. closing[c].of \in Runs
        BY <3>2 DEF ControlOK, ClosersKnown
      <4> QED BY <3>1, <4>1 DEF DriverInv, StopsKnown, Leaving, Ends
    <3>3. CASE closing[c].at # "stop"
      BY <3>1, <3>3 DEF StopsKnown
    <3> QED BY <3>2, <3>3
  <2> QED BY <2>1, <2>2
<1> QED BY <1>1, <1>2

\* A run's own step outside of closeBrowser and Close.
LEMMA OwnStep ==
  ASSUME ControlOK, DriverInv, NEW r \in Runs, at[r] # "closing", ~Leaving(r),
         at'[r] \notin {"exit", "over"}, UNCHANGED <<pw, drivers, windows>>,
         \A q \in Runs \ {r} : at'[q] = at[q] /\ after'[q] = after[q],
         \A c \in Closers : closing'[c].at = "stop" => closing'[c] = closing[c]
  PROVE  DriverInv'
<1>1. \A c \in Closers : closing[c].at = "stop" => closing[c].of \in Runs
  BY DEF ControlOK, ClosersKnown
<1> QED BY <1>1, DriversAsTheyWere DEF Leaving

\* launchBrowser has a driver only when it had none, and then nothing is left of
\* an earlier one.
LEMMA DriverDrivers ==
  ASSUME ControlOK, BrowserOK, DriverInv, NEW r \in Runs, Driver(r)
  PROVE  DriverInv'
<1>1. CASE ~NeedsDriver(r)
  BY <1>1, OwnStep DEF Driver, Go, Leaving, ControlOK, BrowserOK
<1>2. CASE NeedsDriver(r)
  <2> SUFFICES ASSUME Cardinality(Cancels) <= 1
               PROVE  (\A q \in Runs : DriverKnown(q)') /\ (\A c \in Closers : StopsKnown(c)')
    BY DEF DriverInv
  <2>1. New(r) \in Addresses
    BY NewIsFree
  <2>2. pw[r] = 0 /\ drivers[r] = {} /\ windows[r] = {}
    BY <1>2 DEF NeedsDriver, DriverInv, DriverKnown
  <2>3. /\ drivers' = [drivers EXCEPT ![r] = @ \cup {New(r)}]
        /\ pw' = [pw EXCEPT ![r] = New(r)] /\ UNCHANGED <<windows, closing, after>>
        /\ at' = [at EXCEPT ![r] = "use"] /\ at[r] = "driver"
    BY <1>2 DEF Driver, Go
  <2>4. ASSUME NEW q \in Runs PROVE DriverKnown(q)'
    <3>1. CASE q = r
      BY <2>1, <2>2, <2>3, <3>1 DEF DriverKnown, ControlOK, BrowserOK, Addresses
    <3>2. CASE q # r
      BY <2>3, <3>2 DEF DriverInv, DriverKnown, ControlOK, BrowserOK
    <3> QED BY <3>1, <3>2
  <2>5. ASSUME NEW c \in Closers PROVE StopsKnown(c)'
    <3>1. CASE closing[c].at = "stop"
      <4>1. closing[c].of \in Runs
        BY <3>1 DEF ControlOK, ClosersKnown
      <4>2. closing[c].of # r
        BY <2>2, <2>3, <3>1 DEF DriverInv, StopsKnown, Leaving
      <4> QED BY <2>3, <4>1, <4>2 DEF DriverInv, StopsKnown, Leaving, ControlOK, BrowserOK
    <3>2. CASE closing[c].at # "stop"
      BY <2>3, <3>2 DEF StopsKnown
    <3> QED BY <3>1, <3>2
  <2> QED BY <2>4, <2>5
<1> QED BY <1>1, <1>2

LEMMA UseDrivers ==
  ASSUME ControlOK, BrowserOK, DriverInv, NEW r \in Runs, Use(r)
  PROVE  DriverInv'
<1>1. CASE Fails(r) /\ UNCHANGED windows
  BY <1>1, OwnStep
  DEF Use, Fails, LaunchFor, ReleaseThen, CloseThen, StartClosing, Go, Leaving, ControlOK, Closers
<1>2. CASE /\ windows' = [windows EXCEPT ![r] = @ \cup
                {[id |-> New(r), driver |-> pw[r], visible |-> goal[r] = "login"]}]
           /\ Go(r, "page") /\ UNCHANGED <<closing, after>>
  <2> SUFFICES ASSUME Cardinality(Cancels) <= 1
               PROVE  (\A q \in Runs : DriverKnown(q)') /\ (\A c \in Closers : StopsKnown(c)')
    BY DEF DriverInv
  <2>1. UNCHANGED <<pw, drivers>> /\ pw[r] # 0 /\ at[r] = "use"
    BY DEF Use
  <2>2. ASSUME NEW q \in Runs PROVE DriverKnown(q)'
    <3>1. CASE q = r
      BY <1>2, <2>1, <3>1 DEF DriverInv, DriverKnown, Go, ControlOK, BrowserOK
    <3>2. CASE q # r
      BY <1>2, <2>1, <3>2 DEF DriverInv, DriverKnown, Go, ControlOK, BrowserOK
    <3> QED BY <3>1, <3>2
  <2>3. ASSUME NEW c \in Closers PROVE StopsKnown(c)'
    <3>1. closing[c].at = "stop" => closing[c].of \in Runs
      BY DEF ControlOK, ClosersKnown
    <3> QED BY <1>2, <2>1, <3>1 DEF DriverInv, StopsKnown, Leaving, Go, ControlOK
  <2> QED BY <2>2, <2>3
<1> QED BY <1>1, <1>2 DEF Use

LEMMA RunDrivers ==
  ASSUME ControlOK, BrowserOK, DriverInv, NEW r \in Runs, Start(r) \/ RunStep(r)
  PROVE  DriverInv'
<1> USE DEF fields, open
<1>1. CASE Exit(r) \/ Panic(r)
  <2>1. CASE Ends(Process[r])
    BY <1>1, <2>1, EndsDrivers, SessionAssumption DEF Exit, Panic
  <2>2. CASE Exit(r) /\ Go(r, "over") /\ UNCHANGED <<fields, drivers, windows, closing, after>>
    <3>1. \A c \in Closers : closing[c].at = "stop" => closing[c].of \in Runs
      BY DEF ControlOK, ClosersKnown
    <3> QED BY <2>2, <3>1, DriversAsTheyWere DEF Exit, Go, Leaving, ControlOK
  <2> QED BY <1>1, <2>1, <2>2 DEF Exit, Panic
<1>2. CASE Driver(r)
  BY <1>2, DriverDrivers
<1>3. CASE Use(r)
  BY <1>3, UseDrivers
<1>4. CASE Start(r) \/ GivesUp(r) \/ Check(r) \/ Crawl(r)
  BY <1>4, OwnStep DEF Start, GivesUp, Check, Crawl, Go, Leaving, ControlOK
<1>5. CASE Leave(r) \/ (\E th \in Threads[Process[r]] : Acquire(r, th))
  BY <1>5, OwnStep DEF Leave, Acquire, CloseThen, StartClosing, Go, Leaving, ControlOK, Closers
<1>6. CASE \E th \in Threads[Process[r]] : Release(r, th)
  <2>1. after[r] \in {"leave", "crawl"}
    BY <1>6 DEF Release, ControlOK, GoesOnWell
  <2> QED BY <1>6, <2>1, OwnStep DEF Release, Go, Leaving, ControlOK
<1>7. CASE Page(r)
  BY <1>7, OwnStep
  DEF Page, Fails, LaunchFor, ReleaseThen, CloseThen, StartClosing, Go, Leaving, ControlOK, Closers
<1>8. CASE Verify(r)
  BY <1>8, OwnStep
  DEF Verify, Fails, LaunchFor, ReleaseThen, CloseThen, StartClosing, Go, Leaving, ControlOK, Closers
<1>9. CASE LoggedIn(r) \/ LoginFails(r) \/ Saved(r)
  BY <1>9, OwnStep
  DEF LoggedIn, LoginFails, Saved, LaunchFor, ReleaseThen, CloseThen, StartClosing, Go, Leaving,
      ControlOK, Closers
<1> QED BY <1>1, <1>2, <1>3, <1>4, <1>5, <1>6, <1>7, <1>8, <1>9 DEF RunStep

LEMMA StopDriverDrivers ==
  ASSUME ControlOK, BrowserOK, DriverInv, NEW c \in Closers, StopDriver(c)
  PROVE  DriverInv'
<1> DEFINE r == closing[c].of
<1> SUFFICES ASSUME Cardinality(Cancels) <= 1
             PROVE  (\A q \in Runs : DriverKnown(q)') /\ (\A d \in Closers : StopsKnown(d)')
  BY DEF DriverInv
<1>1. /\ closing[c].at = "stop" /\ r \in Runs /\ closing[c].all /\ CloseEnds(c)
      /\ c \in Runs => r = c /\ at[c] = "closing" /\ after[c] = "exit"
  BY DEF StopDriver, ControlOK, ClosersKnown
<1>2. /\ pw' = [pw EXCEPT ![r] = 0]
      /\ drivers' = [drivers EXCEPT ![r] = @ \ {closing[c].got}]
      /\ windows' = [windows EXCEPT ![r] = {v \in @ : v.driver # closing[c].got}]
  BY DEF StopDriver
<1>3. /\ closing' = [closing EXCEPT ![c] = NotClosing]
      /\ c \in Runs => at' = [at EXCEPT ![c] = "exit"] /\ \A q \in Runs \ {c} : after'[q] = after[q]
      /\ c \notin Runs => UNCHANGED <<at, after>>
  BY <1>1 DEF CloseEnds, Go, ControlOK
<1>4. pw[r] = closing[c].got \/ pw[r] = 0
  BY <1>1 DEF DriverInv, StopsKnown
<1>5. ASSUME NEW q \in Runs PROVE DriverKnown(q)'
  <2>1. CASE q = r
    <3>1. pw'[r] = 0
      BY <1>1, <1>2 DEF BrowserOK
    <3>2. drivers'[r] = {}
      BY <1>1, <1>2, <1>4 DEF DriverInv, DriverKnown, BrowserOK
    <3>3. windows'[r] = {}
      BY <1>1, <1>2, <1>4 DEF DriverInv, DriverKnown, BrowserOK
    <3> QED BY <2>1, <3>1, <3>2, <3>3 DEF DriverKnown
  <2>2. CASE q # r
    <3>1. pw'[q] = pw[q] /\ drivers'[q] = drivers[q] /\ windows'[q] = windows[q]
      BY <1>1, <1>2, <2>2 DEF BrowserOK
    <3>2. at'[q] = at[q]
      BY <1>1, <1>3, <2>2 DEF ControlOK
    <3> QED BY <3>1, <3>2 DEF DriverInv, DriverKnown
  <2> QED BY <2>1, <2>2
<1>6. ASSUME NEW d \in Closers PROVE StopsKnown(d)'
  <2>1. CASE d = c
    BY <1>3, <2>1 DEF StopsKnown, NotClosing, ControlOK
  <2>2. CASE d # c /\ closing[d].at = "stop"
    <3> DEFINE q == closing[d].of
    <3>1. closing'[d] = closing[d] /\ q \in Runs
      BY <1>3, <2>2 DEF ControlOK, ClosersKnown
    <3>2. d \in Runs => q = d /\ at[d] = "closing" /\ after[d] = "exit"
      BY <2>2 DEF ControlOK, ClosersKnown
    <3>3. CASE q # r
      <4>1. pw'[q] = pw[q]
        BY <1>1, <1>2, <3>1, <3>3 DEF BrowserOK
      <4>2. Leaving(q) => Leaving(q)'
        BY <1>1, <1>3, <3>1, <3>3 DEF Leaving, ControlOK
      <4> QED BY <2>2, <3>1, <4>1, <4>2 DEF DriverInv, StopsKnown
    <3>4. CASE q = r
      <4>1. pw'[q] = 0
        BY <1>1, <1>2, <3>4 DEF BrowserOK
      <4>2. Leaving(q)'
        <5>1. CASE c \in Runs
          BY <1>1, <1>3, <3>1, <3>4, <5>1 DEF Leaving, ControlOK
        <5>2. CASE c \notin Runs /\ d \in Runs
          <6>1. closing'[d].of = d /\ at'[d] = "closing" /\ after'[d] = "exit"
            BY <1>3, <3>1, <3>2, <5>2
          <6> QED BY <6>1 DEF Leaving
        <5>3. CASE c \notin Runs /\ d \notin Runs
          BY <2>2, <5>3, OneCanceller DEF Closers
        <5> QED BY <5>1, <5>2, <5>3
      <4>3. closing'[d].got # 0
        BY <2>2, <3>1 DEF DriverInv, StopsKnown
      <4> QED BY <3>1, <4>1, <4>2, <4>3 DEF StopsKnown
    <3> QED BY <3>3, <3>4
  <2>3. CASE d # c /\ closing[d].at # "stop"
    BY <1>3, <2>3 DEF StopsKnown, ControlOK
  <2> QED BY <2>1, <2>2, <2>3
<1> QED BY <1>5, <1>6

LEMMA ReadDriverDrivers ==
  ASSUME ControlOK, BrowserOK, DriverInv, NEW c \in Closers, ReadDriver(c)
  PROVE  DriverInv'
<1> DEFINE r == closing[c].of
<1>1. /\ closing[c].at = "driver" /\ r \in Runs /\ closing[c].all /\ UNCHANGED <<pw, drivers, windows>>
      /\ c \in Runs => r = c /\ at[c] = "closing" /\ after[c] = "exit"
  BY DEF ReadDriver, ControlOK, ClosersKnown, fields, open
<1> SUFFICES ASSUME Cardinality(Cancels) <= 1
             PROVE  (\A q \in Runs : DriverKnown(q)') /\ (\A d \in Closers : StopsKnown(d)')
  BY DEF DriverInv
<1>2. CASE pw[r] # 0
  <2>1. CloseGoesOn(c, "stop", pw[r])
    BY <1>2 DEF ReadDriver
  <2>2. /\ closing'[c].at = "stop" /\ closing'[c].of = r /\ closing'[c].got = pw[r]
        /\ \A d \in Closers : d # c => closing'[d] = closing[d]
        /\ UNCHANGED <<at, after>>
    BY <2>1 DEF CloseGoesOn, ControlOK, Closing
  <2>3. ASSUME NEW q \in Runs PROVE DriverKnown(q)'
    BY <1>1, <2>2 DEF DriverInv, DriverKnown
  <2>4. ASSUME NEW d \in Closers PROVE StopsKnown(d)'
    <3>1. CASE d = c
      BY <1>1, <1>2, <2>2, <3>1 DEF StopsKnown
    <3>2. CASE d # c
      BY <1>1, <2>2, <3>2 DEF DriverInv, StopsKnown, Leaving
    <3> QED BY <3>1, <3>2
  <2> QED BY <2>3, <2>4
<1>3. CASE pw[r] = 0
  <2>1. CloseEnds(c)
    BY <1>3 DEF ReadDriver
  <2>2. /\ closing' = [closing EXCEPT ![c] = NotClosing]
        /\ c \in Runs => at' = [at EXCEPT ![c] = "exit"] /\ \A q \in Runs \ {c} : after'[q] = after[q]
        /\ c \notin Runs => UNCHANGED <<at, after>>
    BY <1>1, <2>1 DEF CloseEnds, Go, ControlOK
  <2>3. ASSUME NEW q \in Runs PROVE DriverKnown(q)'
    BY <1>1, <1>3, <2>2 DEF DriverInv, DriverKnown, ControlOK
  <2>4. ASSUME NEW d \in Closers PROVE StopsKnown(d)'
    <3>1. CASE d = c
      BY <2>2, <3>1 DEF StopsKnown, NotClosing, ControlOK
    <3>2. CASE d # c /\ closing[d].at = "stop"
      <4> DEFINE q == closing[d].of
      <4>1. closing'[d] = closing[d] /\ q \in Runs
        BY <2>2, <3>2 DEF ControlOK, ClosersKnown
      <4>2. Leaving(q) => Leaving(q)'
        BY <1>1, <2>2, <4>1 DEF Leaving, ControlOK
      <4> QED BY <1>1, <3>2, <4>1, <4>2 DEF DriverInv, StopsKnown
    <3>3. CASE d # c /\ closing[d].at # "stop"
      BY <2>2, <3>3 DEF StopsKnown, ControlOK
    <3> QED BY <3>1, <3>2, <3>3
  <2> QED BY <2>3, <2>4
<1> QED BY <1>2, <1>3

LEMMA ClosingDrivers ==
  ASSUME ControlOK, BrowserOK, DriverInv, NEW c \in Closers, CloseStep(c)
  PROVE  DriverInv'
<1>1. \A d \in Closers : closing[d].at = "stop" => closing[d].of \in Runs
  BY DEF ControlOK, ClosersKnown
<1>2. ASSUME ReadWindow(c) \/ DropWindow(c) PROVE DriverInv'
  <2> DEFINE r == closing[c].of
  <2>1. /\ closing[c].at \in {"page", "drop"} /\ r \in Runs /\ UNCHANGED <<pw, drivers>>
        /\ \A q \in Runs : windows'[q] \subseteq windows[q]
    BY <1>2 DEF ReadWindow, DropWindow, ControlOK, ClosersKnown, BrowserOK, open
  <2>2. CASE \E next \in {"drop", "driver"} : \E got : CloseGoesOn(c, next, got)
    <3>1. \A d \in Closers : closing'[d].at = "stop" => closing'[d] = closing[d]
      BY <2>2 DEF CloseGoesOn, ControlOK, Closing
    <3>2. UNCHANGED <<at, after>>
      BY <2>2 DEF CloseGoesOn
    <3> QED BY <1>1, <2>1, <3>1, <3>2, DriversAsTheyWere DEF Leaving
  <2>3. CASE CloseEnds(c) /\ ~closing[c].all
    <3>1. \A d \in Closers : closing'[d].at = "stop" => closing'[d] = closing[d]
      BY <2>3 DEF CloseEnds, ControlOK, NotClosing
    <3>2. c \in Runs => at[c] = "closing" /\ after[c] \in {"check", "driver"}
      BY <2>1, <2>3 DEF ControlOK, ClosersKnown, GoesOnWell
    <3>3. \A q \in Runs : /\ Leaving(q) => Leaving(q)'
                          /\ at'[q] \in {"exit", "over"} => at[q] \in {"exit", "over"}
      BY <2>3, <3>2 DEF CloseEnds, Go, Leaving, ControlOK
    <3> QED BY <1>1, <2>1, <3>1, <3>3, DriversAsTheyWere
  <2> QED BY <1>2, <2>2, <2>3 DEF ReadWindow, DropWindow
<1> QED BY <1>2, ReadDriverDrivers, StopDriverDrivers DEF CloseStep

LEMMA DriverStep ==
  ASSUME ControlOK, BrowserOK, DriverInv, [Next]_vars
  PROVE  DriverInv'
<1>1. \A d \in Closers : closing[d].at = "stop" => closing[d].of \in Runs
  BY DEF ControlOK, ClosersKnown
<1>2. ASSUME UNCHANGED <<pw, drivers, windows, at, after, closing>> PROVE DriverInv'
  BY <1>1, <1>2, DriversAsTheyWere DEF Leaving
<1>3. ASSUME NEW r \in Runs, WindowDies(r) PROVE DriverInv'
  BY <1>1, <1>3, DriversAsTheyWere DEF WindowDies, Leaving, BrowserOK, fields
<1>4. ASSUME NEW c \in Cancels, NEW r \in Runs, Cancel(c, r) PROVE DriverInv'
  <2>1. \A d \in Closers : closing'[d].at = "stop" => closing'[d] = closing[d]
    BY <1>4 DEF Cancel, StartClosing, ControlOK
  <2> QED BY <1>1, <1>4, <2>1, DriversAsTheyWere DEF Cancel, Leaving, fields, open
<1>5. ASSUME NEW p \in Processes, Kill(p) PROVE DriverInv'
  BY <1>5, EndsDrivers DEF Kill
<1>6. CASE Expire
  BY <1>2, <1>6 DEF Expire, fields, open
<1> QED BY <1>2, <1>3, <1>4, <1>5, <1>6, RunDrivers, ClosingDrivers DEF Next, vars

-----------------------------------------------------------------------------
(* The theorems *)

IInv == ControlOK /\ BrowserOK /\ SharedOK /\ MutexInv /\ LoginInv /\ DriverInv

LEMMA InitIInv == Init => IInv
<1> SUFFICES ASSUME Init PROVE IInv
  OBVIOUS
<1>1. ControlOK
  <2>1. NotClosing \in Closing
    BY DEF NotClosing, Closing, Moments
  <2>2. kind \in [Runs -> {"sync", "list", "login", "lookup"}]
    BY SessionAssumption DEF Init
  <2>3. at \in [Runs -> Stages] /\ after \in [Runs -> Stages]
    BY DEF Init, Stages
  <2>4. goal \in [Runs -> {"reuse", "login", "relaunch"}] /\ closing \in [Closers -> Closing]
    BY <2>1 DEF Init
  <2>5. ClosersKnown /\ GoesOnWell
    BY DEF Init, ClosersKnown, GoesOnWell, NotClosing
  <2> QED BY <2>2, <2>3, <2>4, <2>5 DEF ControlOK
<1>2. BrowserOK
  BY FS_EmptySet DEF Init, BrowserOK
<1>3. SharedOK
  <2>1. mutex \in [process : Owners, thread : AllThreads, depth : Nat]
    BY FreeIsTyped DEF Init
  <2>2. panicked \in BOOLEAN
    BY Zenon DEF Init
  <2> QED BY <2>1, <2>2, SessionAssumption DEF Init, SharedOK
<1>4. MutexInv
  <2>1. Phase = {} /\ Begun = {}
    BY DEF Init, Phase, Begun, Establishing
  <2>2. mutex = Free /\ mutex.depth = 0
    BY DEF Init, Free
  <2>3. \A r \in Runs : ~Establishing(r)
    BY DEF Init, Establishing
  <2> QED BY <2>1, <2>2, <2>3, FS_EmptySet DEF MutexInv
<1>5. LoginInv
  BY DEF Init, LoginInv, AboutToLogin
<1>6. DriverInv
  BY DEF Init, DriverInv, DriverKnown, StopsKnown, NotClosing
<1> QED BY <1>1, <1>2, <1>3, <1>4, <1>5, <1>6 DEF IInv

LEMMA NextIInv == IInv /\ [Next]_vars => IInv'
BY ControlStep, BrowserStep, SharedStep, MutexStep, LoginStep, DriverStep DEF IInv

LEMMA Invariance == Spec => []IInv
BY InitIInv, NextIInv, PTL DEF Spec

\* The state is always one the code can be in; in particular the mutex is held
\* no more often than runs have begun, whichever threads release it.
THEOREM TypeCorrect == Spec => []TypeOK
<1>1. IInv => TypeOK
  <2> SUFFICES ASSUME IInv PROVE TypeOK
    OBVIOUS
  <2> USE DEF IInv
  <2>1. mutex.depth \in 0..Cardinality(Runs)
    <3>1. Begun \subseteq Runs
      BY DEF Begun
    <3>2. Cardinality(Begun) <= Cardinality(Runs) /\ Cardinality(Runs) \in Nat
      BY <3>1, SessionAssumption, FS_Subset, FS_CardinalityType
    <3> QED BY <3>2, PhaseIsFinite DEF MutexInv, SharedOK
  <2>2. mutex \in [process : Processes \cup {Nobody},
                   thread : (UNION {Threads[p] : p \in Processes}) \cup {Nobody},
                   depth : 0..Cardinality(Runs)]
    BY <2>1, Zenon DEF SharedOK, Owners, AllThreads
  <2>3. closing \in [Closers -> [at : {"none", "page", "drop", "driver", "stop"}, of : Runs \cup {Nobody},
                                 got : Addresses \cup {0}, all : BOOLEAN]]
    <3>1. Nat = Addresses \cup {0}
      BY DEF Addresses
    <3> QED BY <3>1, Zenon DEF ControlOK, Closing, Moments
  <2>4. {pw, win, page, opened} \subseteq [Runs -> Addresses \cup {0}]
    BY DEF BrowserOK, Addresses
  <2>5. mutex = Free <=> mutex.depth = 0
    BY DEF MutexInv
  <2> QED BY <2>2, <2>3, <2>4, <2>5 DEF TypeOK, ControlOK, BrowserOK, SharedOK
<1> QED BY <1>1, Invariance, PTL

\* Whatever dies, times out or releases on the wrong thread, two runs that check,
\* renew or write the saved session at once are of one process
\* (acquireSessionLock, ensureSession).
THEOREM EstablishingExcludes == Spec => []PhaseExclusive
<1>1. IInv => PhaseExclusive
  BY DEF IInv, MutexInv, PhaseExclusive
<1> QED BY <1>1, Invariance, PTL

\* A run whose process has begun no other opens a login window, while the saved
\* session is valid, only after an error (shouldReuseSavedSession).
THEOREM LoginsAreNeeded == Spec => NoNeedlessLogin
<1>1. IInv /\ [Next]_vars =>
        \A r \in Runs :
          /\ OpensLogin(r) /\ saved = "valid" /\ ~Forced(r)
          /\ \A q \in Runs \ {r} : Process[q] = Process[r] => at[q] = "idle"
          => r \in disturbed
  BY DEF IInv, LoginInv, AboutToLogin, Alone, OpensLogin
<1> QED BY <1>1, Invariance, PTL DEF Spec, NoNeedlessLogin

\* With at most one cancellation under way no driver and no window outlives its
\* run, wherever the cancellation met it (Close, closeBrowser).
THEOREM BrowsersAreClosed == Spec => []NothingLeftOpen
<1>1. IInv => NothingLeftOpen
  BY DEF IInv, DriverInv, DriverKnown, NothingLeftOpen
<1> QED BY <1>1, Invariance, PTL

=============================================================================
