------------------------------- MODULE Server -------------------------------
(***************************************************************************)
(* The process around the Manager with the memory backend (main.go) and    *)
(* its snapshot file (internal/store/snapshot.go): requests are served     *)
(* while a background goroutine snapshots the Manager; a signal drains the *)
(* server, takes a final snapshot and exits; a crash may come at any time; *)
(* the next start restores what is on disk.                                *)
(*                                                                         *)
(* A snapshot is not one step: Manager.Snapshot copies the maps under mu,  *)
(* then reads the limiters one by one without it, and Save renames a       *)
(* finished temporary file over the old snapshot, which is what makes it   *)
(* visible.  Two of them can be under way: the snapshotter's and main's.   *)
(***************************************************************************)
EXTENDS Manager, Functions

CONSTANTS
  NoFile,     \* no snapshot has been written yet
  MaxStarts   \* bound: times the process is started

\* What persistence keeps of a limiter (persistence.go).
LimiterStates ==
  [Algorithm   : {AlgorithmTokenBucket},
   TokenBucket : [Tokens : Int, LastRefill : Nat, Capacity : Int, RefillRate : Int]]
  \cup
  [Algorithm     : {AlgorithmSlidingWindow},
   SlidingWindow : [Limit : Int, Window : Int, WindowStart : Int,
                    CurrentCount : Nat, PreviousCount : Nat]]

ASSUME ServerAssumption ==
  /\ MaxStarts \in Nat \ {0}
  /\ nil \notin LimiterStates \cup TokenBuckets \cup SlidingWindows

\* The goroutines that take snapshots: runSnapshotter's and main's.
Snapshotters == {"periodic", "final"}

VARIABLES
  phase,    \* of main: "up", "draining", "saving", "saved", "down"
  timedOut, \* Shutdown gave up waiting: requests are still being served
  ticking,  \* runSnapshotter's loop has not returned
  snap,     \* snapshotter -> the snapshot it is taking
  disk,     \* the PersistedState in the snapshot file
  starts,   \* observer: times the process was started
  clean,    \* observer: this shutdown drained within its time, saved, met no crash
  overlap,  \* observer: main's last snapshot began with the snapshotter still running
  atDeath,  \* observer: what Manager.Snapshot would have returned at the end
  spent,    \* observer: client -> requests let through since the first start
  losses    \* observer: starts that restored something else than atDeath

serverVars == <<phase, timedOut, ticking, snap, disk, starts, clean, overlap, atDeath, spent, losses>>
allVars == <<vars, serverVars>>

NoSnap == [pc |-> "idle", configs |-> <<>>, lims |-> <<>>, states |-> <<>>]
EmptyState == [configs |-> [c \in Clients |-> NoConfig],
               limiters |-> [c \in Clients |-> nil]]

\* The state of the whole Manager as a PersistedState, were it read at once.
PersistedState ==
  [configs  |-> configs,
   limiters |-> [c \in Clients |-> IF limiters[c] = nil THEN nil
                                   ELSE LimiterState(heap[limiters[c]])]]

\* Addresses the copies of the limiters map keep alive.
Copied == UNION {Range(snap[s].lims) : s \in Snapshotters}

ServerInit ==
  /\ Init
  /\ phase = "up" /\ timedOut = FALSE
  /\ ticking = TRUE
  /\ snap = [s \in Snapshotters |-> NoSnap]
  /\ disk = NoFile
  /\ starts = 1
  /\ clean = TRUE /\ overlap = FALSE
  /\ atDeath = EmptyState
  /\ spent = [c \in Clients |-> 0]
  /\ losses = 0
-----------------------------------------------------------------------------
\* Shutdown accepts no new connections, but a request already read from one is
\* still passed to its handler, until Shutdown has seen all of them end.
Accepting == phase \in {"up", "draining"} \/ timedOut

\* Requests and configuration changes reach their handlers, and go on.
Serve ==
  /\ phase # "down"
  /\ \/ /\ Accepting
        /\ \E g \in Goroutines, c \in Clients : Arrive(g, c)
     \/ /\ Accepting
        /\ \E c \in Clients : RemoveClient(c) \/ \E cfg \in Configs : SetConfig(c, cfg)
     \/ \E g \in Goroutines :
          \/ Get(g)
          \/ \E a \in Addresses \ (Reachable \cup Copied) : Create(g, a)
          \/ Record(g)
  /\ UNCHANGED serverVars

ServeDecide(g) ==
  /\ phase # "down"
  /\ Decide(g)
  /\ spent' = [spent EXCEPT ![call[g].client] =
                 IF call'[g].allowed THEN @ + 1 ELSE @]
  /\ UNCHANGED <<phase, timedOut, ticking, snap, disk, starts, clean, overlap, atDeath, losses>>

\* Time passes whether the process is up or down.
Wait == Tick /\ UNCHANGED serverVars

\* s runs snapshotOnce: Manager.Snapshot copies both maps under mu.
SnapBegin(s) ==
  /\ snap[s].pc = "idle"
  /\ snap' = [snap EXCEPT ![s] = [pc |-> "read", configs |-> configs, lims |-> limiters,
                                  states |-> [c \in Clients |-> nil]]]
  /\ UNCHANGED <<vars, timedOut, ticking, disk, starts, clean, atDeath, spent, losses>>

\* A tick starts the snapshotter's.  It may still do so after the signal: select
\* picks either of a waiting tick and ctx.Done.
PeriodicBegin ==
  /\ phase # "down" /\ ticking
  /\ SnapBegin("periodic")
  /\ UNCHANGED <<phase, overlap>>

\* lim.State() of one of the copied limiters, under that limiter's mutex.
SnapRead(s, c) ==
  /\ snap[s].pc = "read"
  /\ snap[s].lims[c] # nil
  /\ snap[s].states[c] = nil
  /\ snap' = [snap EXCEPT ![s].states[c] = LimiterState(heap[snap[s].lims[c]])]
  /\ UNCHANGED <<vars, phase, timedOut, ticking, disk, starts, clean, overlap, atDeath, spent, losses>>

\* What s has collected is a PersistedState.  Mutant: the Configs are read last.
CollectedLate(s) == [configs |-> configs, limiters |-> snap[s].states]
Collected(s) == [configs |-> snap[s].configs, limiters |-> snap[s].states]

\* Save: the renamed file holds the snapshot, or an error left the old one alone.
SnapSave(s, ok) ==
  /\ snap[s].pc = "read"
  /\ \A c \in Clients : snap[s].lims[c] # nil => snap[s].states[c] # nil
  /\ disk' = IF ok THEN Collected(s) ELSE disk
  /\ snap' = [snap EXCEPT ![s] = NoSnap]
  /\ phase' = IF s = "final" THEN "saved" ELSE phase
  /\ clean' = (clean /\ (s = "final" => ok))
  /\ UNCHANGED <<vars, timedOut, ticking, starts, overlap, atDeath, spent, losses>>

\* SIGINT or SIGTERM cancels ctx: main calls Shutdown, ...
Signal ==
  /\ phase = "up"
  /\ phase' = "draining"
  /\ UNCHANGED <<vars, timedOut, ticking, snap, disk, starts, clean, overlap, atDeath, spent, losses>>

\* ... and the snapshotter returns when its select next looks at ctx.
SnapshotterStop ==
  /\ phase \in {"draining", "saving", "saved"}
  /\ ticking /\ snap["periodic"].pc = "idle"
  /\ ticking' = FALSE
  /\ UNCHANGED <<vars, phase, timedOut, snap, disk, starts, clean, overlap, atDeath, spent, losses>>

\* Shutdown returns when every request is answered, or after ten seconds.
\* Mutants: it has no deadline; it does not wait.
WaitsForAll(timeout) == ~timeout /\ \A g \in Goroutines : pc[g] = "idle"
WaitsForNone(timeout) == TRUE
WaitIsOver(timeout) == timeout \/ \A g \in Goroutines : pc[g] = "idle"

Drained(timeout) ==
  /\ phase = "draining"
  /\ WaitIsOver(timeout)
  /\ phase' = "saving"
  /\ timedOut' = timeout
  /\ clean' = (clean /\ ~timeout)
  /\ UNCHANGED <<vars, ticking, snap, disk, starts, overlap, atDeath, spent, losses>>

FinalBegin ==
  /\ phase = "saving"
  /\ SnapBegin("final")
  /\ overlap' = ticking
  /\ UNCHANGED phase

\* The process ends; goroutines still running end with it.
Die(cleanly) ==
  /\ phase' = "down" /\ timedOut' = FALSE
  /\ clean' = (clean /\ cleanly)
  /\ atDeath' = PersistedState
  /\ ticking' = FALSE
  /\ snap' = [s \in Snapshotters |-> NoSnap]
  /\ pc' = [g \in Goroutines |-> "idle"]
  /\ call' = [g \in Goroutines |-> NoCall]
  /\ UNCHANGED <<configs, limiters, heap, counts, clock, observers,
                 disk, starts, overlap, spent, losses>>

\* main returns after its last snapshot.
Exit == phase = "saved" /\ Die(TRUE)

\* A kill, a panic, or log.Fatalf when ListenAndServe fails.
Crash == phase # "down" /\ Die(FALSE)

\* Mutant: the limiters are loaded, the Configs are not.
LoadLimitersOnly(readable) ==
  IF disk = NoFile \/ ~readable THEN EmptyState
  ELSE [disk EXCEPT !.configs = EmptyState.configs]

\* Load finds the file, or there is none, or it fails on it: the server then
\* starts with empty state.
Load(readable) == IF disk = NoFile \/ ~readable THEN EmptyState ELSE disk

\* The client whose restored limiter goes to a.
Owner(at, a) == CHOOSE c \in Clients : at[c] = a

\* A start: Restore what Load returned into an empty Manager; the limiters get
\* new addresses.
Start(readable) ==
  LET loaded == Load(readable)
  IN  /\ phase = "down" /\ starts < MaxStarts
      /\ phase' = "up" /\ ticking' = TRUE /\ clean' = TRUE /\ overlap' = FALSE
      /\ starts' = starts + 1
      /\ losses' = losses + IF loaded = atDeath THEN 0 ELSE 1
      /\ configs' = loaded.configs
      /\ \E at \in Injection(Clients, Addresses) :
           /\ limiters' = [c \in Clients |-> IF loaded.limiters[c] = nil THEN nil ELSE at[c]]
           /\ heap' = [a \in Addresses |->
                         IF a \in Range(limiters')
                           THEN LimiterFromState(loaded.limiters[Owner(at, a)])
                           ELSE nil]
           /\ made' = [a \in Addresses |->
                         IF a \in Range(limiters')
                           THEN [client |-> Owner(at, a), epoch |-> epoch[Owner(at, a)]]
                           ELSE [client |-> nil, epoch |-> 0]]
      /\ counts' = [c \in Clients |-> NoStats]
      /\ decided' = [c \in Clients |-> NoStats]
      /\ watch' = [c \in Clients |-> [start |-> clock, held |-> 0, passed |-> 0]]
      /\ UNCHANGED <<pc, call, clock, arrived, epoch, timedOut, snap, disk, atDeath, spent>>

ServerNext ==
  \/ Serve
  \/ \E g \in Goroutines : ServeDecide(g)
  \/ Wait
  \/ PeriodicBegin
  \/ \E s \in Snapshotters, c \in Clients : SnapRead(s, c)
  \/ \E s \in Snapshotters, ok \in BOOLEAN : SnapSave(s, ok)
  \/ Signal
  \/ SnapshotterStop
  \/ \E timeout \in BOOLEAN : Drained(timeout)
  \/ FinalBegin
  \/ Exit
  \/ Crash
  \/ \E readable \in BOOLEAN : Start(readable)

\* main runs on after the signal: Shutdown has a deadline, and a snapshot takes a
\* bounded number of file operations.  Nothing is assumed of the requests, of the
\* snapshotter or of the signal.
MainStep ==
  \/ \E timeout \in BOOLEAN : Drained(timeout)
  \/ FinalBegin
  \/ \E c \in Clients : SnapRead("final", c)
  \/ \E ok \in BOOLEAN : SnapSave("final", ok)
  \/ Exit

ServerSpec == ServerInit /\ [][ServerNext]_allVars

FairServerSpec == ServerSpec /\ WF_allVars(MainStep)
-----------------------------------------------------------------------------
\* A snapshot is usable whatever went on while it was taken, configuration
\* changes, requests and the other snapshotter included (manager.go:166-176):
\* each limiter in the file is one of the Config the same file holds for its
\* client, never one of a Config that came before or after it.
DiskConsistent ==
  disk # NoFile =>
    \A c \in Clients :
      disk.limiters[c] # nil =>
        BuiltFrom(LimiterFromState(disk.limiters[c]),
                  IF disk.configs[c] = NoConfig THEN DefaultConfig ELSE disk.configs[c])

\* The same of a running process: after any restart too, the limiter in the map
\* enforces the Config in force.
RestoredMatches == phase # "down" => LimiterMatchesConfig

\* What an unclean exit can cost (main.go:102-106).  Over all the lives of the
\* process a client that stayed under DefaultConfig gets through one full bucket
\* and what the rate refills, and at most one bucket more for each start that
\* could not restore the state the process died with.
LossBound ==
  \A c \in Clients : epoch[c] = 0 =>
    spent[c] * Unit
      <= DefaultConfig.Burst * (losses + 1) + DefaultConfig.RPS * clock

\* main.go:221-223: the final snapshot is there so that no "state changed since
\* the last tick would be lost" on a clean exit, and is the last one because "the
\* periodic snapshotter above already stopped": a process that shut down cleanly
\* leaves its state in the file.
CleanExitDurable == (phase = "down" /\ clean) => disk = atDeath

\* That much holds if the snapshotter had indeed stopped by then: requests that
\* were being served, changes made meanwhile and earlier snapshots lose nothing.
CleanExitDurableIfStopped == (phase = "down" /\ clean /\ ~overlap) => disk = atDeath

\* A signal ends the process, whatever its requests and its snapshotter do.
ShutdownCompletes == phase = "draining" ~> phase = "down"
=============================================================================
