----------------------------- MODULE ServerProofs -----------------------------
(***************************************************************************)
(* Theorems of Server: every snapshot and every restored process is        *)
(* consistent, a clean exit leaves the state in the file if the            *)
(* snapshotter had stopped, and an unclean one costs at most one bucket.   *)
(***************************************************************************)
EXTENDS Server, ManagerProofs, FunctionTheorems

\* A limiter survives the trip through its persisted form unchanged
\* (tokenbucket.go:66-88, slidingwindow.go:68-94).
LEMMA StateRoundTrip ==
  ASSUME NEW lim \in Limiters
  PROVE  /\ LimiterState(lim) \in LimiterStates
         /\ LimiterFromState(LimiterState(lim)) = lim
<1>1. AlgorithmSlidingWindow # AlgorithmTokenBucket
  BY DEF AlgorithmSlidingWindow, AlgorithmTokenBucket
<1>2. CASE lim \in TokenBuckets
  <2>1. LimiterState(lim) = [Algorithm   |-> AlgorithmTokenBucket,
                             TokenBucket |-> TokenBucketState(lim)]
    BY <1>2 DEF LimiterState, TokenBuckets
  <2>2. LimiterFromState(LimiterState(lim)) = NewTokenBucketFromState(TokenBucketState(lim))
    BY <1>1, <2>1 DEF LimiterFromState
  <2>3. NewTokenBucketFromState(TokenBucketState(lim)) = lim
    BY <1>2 DEF NewTokenBucketFromState, TokenBucketState, TokenBuckets
  <2>4. TokenBucketState(lim) \in [Tokens : Int, LastRefill : Nat, Capacity : Int,
                                   RefillRate : Int]
    BY <1>2 DEF TokenBucketState, TokenBuckets
  <2> QED
    BY <2>1, <2>2, <2>3, <2>4 DEF LimiterStates
<1>3. CASE lim \in SlidingWindows
  <2>1. LimiterState(lim) = [Algorithm     |-> AlgorithmSlidingWindow,
                             SlidingWindow |-> SlidingWindowState(lim)]
    BY <1>1, <1>3 DEF LimiterState, SlidingWindows
  <2>2. LimiterFromState(LimiterState(lim)) = NewSlidingWindowFromState(SlidingWindowState(lim))
    BY <2>1 DEF LimiterFromState
  <2>3. NewSlidingWindowFromState(SlidingWindowState(lim)) = lim
    BY <1>3 DEF NewSlidingWindowFromState, SlidingWindowState, SlidingWindows
  <2>4. SlidingWindowState(lim) \in [Limit : Int, Window : Int, WindowStart : Int,
                                     CurrentCount : Nat, PreviousCount : Nat]
    BY <1>3 DEF SlidingWindowState, SlidingWindows
  <2> QED
    BY <2>1, <2>2, <2>3, <2>4 DEF LimiterStates
<1> QED
  BY <1>2, <1>3 DEF Limiters

\* What is persisted restores to a limiter.
LEMMA RestoredType ==
  ASSUME NEW st \in LimiterStates
  PROVE  LimiterFromState(st) \in Limiters
<1>1. AlgorithmSlidingWindow # AlgorithmTokenBucket
  BY DEF AlgorithmSlidingWindow, AlgorithmTokenBucket
<1>2. CASE st.Algorithm = AlgorithmTokenBucket
  <2>1. st.TokenBucket \in [Tokens : Int, LastRefill : Nat, Capacity : Int, RefillRate : Int]
    BY <1>1, <1>2 DEF LimiterStates
  <2> QED
    BY <1>1, <1>2, <2>1
    DEF LimiterFromState, NewTokenBucketFromState, Limiters, TokenBuckets
<1>3. CASE st.Algorithm = AlgorithmSlidingWindow
  <2>1. st.SlidingWindow \in [Limit : Int, Window : Int, WindowStart : Int,
                              CurrentCount : Nat, PreviousCount : Nat]
    BY <1>1, <1>3 DEF LimiterStates
  <2> QED
    BY <1>3, <2>1
    DEF LimiterFromState, NewSlidingWindowFromState, Limiters, SlidingWindows
<1> QED
  BY <1>2, <1>3 DEF LimiterStates
-----------------------------------------------------------------------------
\* The Config that a configs map puts in force for c.
ConfigIn(map, c) == IF map[c] = NoConfig THEN DefaultConfig ELSE map[c]

\* A configs map with valid Configs only.
ConfigMaps == {map \in [Clients -> Configs \cup {NoConfig}] :
                 \A c \in Clients : Validate(ConfigIn(map, c))}

\* A persisted map of limiters that all enforce what map puts in force.
StatesFor(states, map) ==
  /\ states \in [Clients -> LimiterStates \cup {nil}]
  /\ \A c \in Clients : states[c] # nil =>
       BuiltFrom(LimiterFromState(states[c]), ConfigIn(map, c))

\* A PersistedState that can be restored into a store.
Restorable(st) ==
  /\ st.configs \in ConfigMaps
  /\ StatesFor(st.limiters, st.configs)

\* A snapshot under way: the limiters it copied are still there, and enforce the
\* Configs it copied, whatever happened to the store since.
CopyHolds(s) ==
  /\ snap[s] = [pc |-> "read", configs |-> snap[s].configs, lims |-> snap[s].lims,
                states |-> snap[s].states]
  /\ snap[s].configs \in ConfigMaps
  /\ snap[s].lims \in [Clients -> Addresses \cup {nil}]
  /\ \A c \in Clients : snap[s].lims[c] # nil =>
       /\ heap[snap[s].lims[c]] \in Limiters
       /\ BuiltFrom(heap[snap[s].lims[c]], ConfigIn(snap[s].configs, c))
  /\ StatesFor(snap[s].states, snap[s].configs)

Phases == {"up", "draining", "saving", "saved", "down"}

\* DiskConsistent is not inductive: what will be on disk is in the snapshots
\* under way, and what a start restores is on disk.
SInv ==
  /\ IInv
  /\ phase \in Phases /\ DOMAIN snap = Snapshotters
  /\ \A s \in Snapshotters : snap[s] = NoSnap \/ CopyHolds(s)
  /\ disk # NoFile => Restorable(disk)
  /\ phase = "down" =>
       /\ \A g \in Goroutines : pc[g] = "idle" /\ call[g] = NoCall
       /\ \A s \in Snapshotters : snap[s] = NoSnap

\* What the Manager does while the server runs, and the clock.
StoreStep == Serve \/ (\E g \in Goroutines : ServeDecide(g)) \/ Wait

\* Within the server the Manager takes its own steps: the copies of a snapshot
\* only keep some addresses from being reused.
LEMMA StoreStepIsNext == StoreStep => Next
BY DEF StoreStep, Serve, ServeDecide, Wait, Next, Step

\* A limiter that a snapshot has copied stays where it is, and enforces the same
\* limits, whatever the Manager does.
LEMMA CopiedStays ==
  ASSUME IInv, StoreStep, NEW a \in Addresses, a \in Copied, heap[a] \in Limiters
  PROVE  heap'[a] \in Limiters /\ SameLimits(heap'[a], heap[a])
<1>0. TypeOK /\ Links /\ SameLimits(heap[a], heap[a])
  BY DEF IInv, SameLimits
<1>1. ASSUME NEW g \in Goroutines, NEW b \in Addresses \ (Reachable \cup Copied), Create(g, b)
      PROVE  heap'[a] = heap[a]
  BY <1>0, <1>1 DEF Create, TypeOK
<1>2. ASSUME NEW g \in Goroutines, Decide(g)
      PROVE  heap'[a] \in Limiters /\ SameLimits(heap'[a], heap[a])
  <2> DEFINE lim  == call[g].lim
             left == LimiterAllow(heap[lim], clock).limiter
  <2>1. lim \in Addresses /\ heap[lim] \in Limiters /\ clock \in Nat
    BY <1>0, <1>2 DEF Decide, Links, TypeOK
  <2>2. left \in Limiters /\ SameLimits(left, heap[lim])
    BY <2>1, AllowType
  <2>3. heap' = [heap EXCEPT ![lim] = left]
    BY <1>2 DEF Decide
  <2> HIDE DEF left
  <2> QED
    BY <1>0, <2>1, <2>2, <2>3 DEF TypeOK
<1>3. ASSUME UNCHANGED heap
      PROVE  heap'[a] \in Limiters /\ SameLimits(heap'[a], heap[a])
  BY <1>0, <1>3
<1>4. CASE Serve
  <2>1. \/ UNCHANGED heap
        \/ \E g \in Goroutines, b \in Addresses \ (Reachable \cup Copied) : Create(g, b)
    BY <1>4 DEF Serve, Arrive, RemoveClient, SetConfig, Get, Record
  <2> QED
    BY <1>0, <1>1, <1>3, <2>1
<1>5. CASE \E g \in Goroutines : ServeDecide(g)
  BY <1>2, <1>5 DEF ServeDecide
<1>6. CASE Wait
  BY <1>3, <1>6 DEF Wait, Tick
<1> QED
  BY <1>4, <1>5, <1>6 DEF StoreStep

LEMMA InitSInv == ServerInit => SInv
<1> SUFFICES ASSUME ServerInit PROVE SInv
  OBVIOUS
<1>1. IInv
  BY InitIInv DEF ServerInit
<1> QED
  BY <1>1 DEF ServerInit, SInv, Phases

\* A snapshot under way goes on holding while its copied limiters stay.
LEMMA CopyGoesOn ==
  ASSUME NEW s \in Snapshotters, CopyHolds(s), snap'[s] = snap[s],
         \A a \in Addresses : a \in Range(snap[s].lims) /\ heap[a] \in Limiters =>
           heap'[a] \in Limiters /\ SameLimits(heap'[a], heap[a])
  PROVE  CopyHolds(s)'
<1>1. ASSUME NEW c \in Clients, snap[s].lims[c] # nil
      PROVE  /\ heap'[snap[s].lims[c]] \in Limiters
             /\ BuiltFrom(heap'[snap[s].lims[c]], ConfigIn(snap[s].configs, c))
  <2>1. /\ snap[s].lims[c] \in Addresses /\ snap[s].lims[c] \in Range(snap[s].lims)
        /\ heap[snap[s].lims[c]] \in Limiters
        /\ BuiltFrom(heap[snap[s].lims[c]], ConfigIn(snap[s].configs, c))
    BY <1>1 DEF CopyHolds, Range
  <2> QED
    BY <2>1, SameLimitsBuilt
<1> QED
  BY <1>1 DEF CopyHolds

\* A store step keeps SInv.
LEMMA StoreStepSInv == SInv /\ StoreStep => SInv'
<1> SUFFICES ASSUME SInv, StoreStep PROVE SInv'
  OBVIOUS
<1>1. IInv'
  BY StoreStepIsNext, StepIInv DEF SInv
<1>2. UNCHANGED <<phase, snap, disk>>
  BY DEF StoreStep, Serve, ServeDecide, Wait, serverVars
<1>3. ASSUME NEW s \in Snapshotters, CopyHolds(s)
      PROVE  CopyHolds(s)'
  <2>1. Range(snap[s].lims) \subseteq Copied
    BY DEF Copied
  <2> QED
    BY <1>2, <1>3, <2>1, CopiedStays, CopyGoesOn DEF SInv
<1>4. phase' = "down" => \A g \in Goroutines : pc'[g] = "idle" /\ call'[g] = NoCall
  <2>1. CASE phase = "down"
    BY <1>2, <2>1 DEF SInv, StoreStep, Serve, ServeDecide, Wait, Tick
  <2> QED
    BY <1>2, <2>1
<1>5. disk' # NoFile => Restorable(disk')
  BY <1>2 DEF SInv
<1> QED
  BY <1>1, <1>2, <1>3, <1>4, <1>5 DEF SInv

\* A step that leaves the store alone keeps its part of SInv.
LEMMA StoreAlone ==
  ASSUME IInv, UNCHANGED vars
  PROVE  IInv'
BY StepIInv

\* Beginning a snapshot: the maps are copied under mu, at which moment every
\* limiter enforces the Config stored next to it.
LEMMA SnapBeginSInv ==
  ASSUME SInv, NEW s \in Snapshotters, SnapBegin(s), phase' = phase, phase # "down"
  PROVE  SInv'
<1>0. TypeOK /\ Links /\ LimiterMatchesConfig /\ UNCHANGED vars /\ UNCHANGED disk
  BY DEF SInv, IInv, SnapBegin
<1>1. IInv'
  BY <1>0, StoreAlone DEF SInv
<1> DEFINE n == [pc |-> "read", configs |-> configs, lims |-> limiters,
                 states |-> [c \in Clients |-> nil]]
<1>2. snap' = [snap EXCEPT ![s] = n]
  BY DEF SnapBegin
<1>3. snap'[s] = n /\ DOMAIN snap' = Snapshotters
      /\ \A t \in Snapshotters \ {s} : snap'[t] = snap[t]
  BY <1>2 DEF SInv
<1>4. CopyHolds(s)'
  <2>1. configs \in ConfigMaps
    BY <1>0 DEF TypeOK, ConfigMaps, LimiterMatchesConfig, ConfigOf, ConfigIn
  <2>2. \A c \in Clients : limiters[c] # nil =>
          heap[limiters[c]] \in Limiters /\ BuiltFrom(heap[limiters[c]], ConfigIn(configs, c))
    BY <1>0 DEF Links, LimiterMatchesConfig, ConfigOf, ConfigIn
  <2>3. limiters \in [Clients -> Addresses \cup {nil}] /\ heap' = heap
    BY <1>0 DEF TypeOK, vars
  <2>4. StatesFor([c \in Clients |-> nil], configs)
    BY DEF StatesFor
  <2> QED
    BY <1>3, <2>1, <2>2, <2>3, <2>4 DEF CopyHolds
<1>5. ASSUME NEW t \in Snapshotters \ {s}
      PROVE  snap'[t] = NoSnap \/ CopyHolds(t)'
  <2>1. snap[t] = NoSnap \/ CopyHolds(t)
    BY DEF SInv
  <2> QED
    BY <1>0, <1>3, <2>1 DEF CopyHolds, vars
<1>6. phase' = "down" => \A g \in Goroutines : pc'[g] = "idle" /\ call'[g] = NoCall
  OBVIOUS
<1>7. disk' # NoFile => Restorable(disk')
  BY <1>0 DEF SInv
<1> HIDE DEF n
<1>8. phase' \in Phases
  BY DEF SInv
<1> QED
  BY <1>1, <1>3, <1>4, <1>5, <1>6, <1>7, <1>8 DEF SInv

\* Reading a limiter: it is still one of the Config that was copied.
LEMMA SnapReadSInv ==
  ASSUME SInv, NEW s \in Snapshotters, NEW c \in Clients, SnapRead(s, c)
  PROVE  SInv'
<1>0. UNCHANGED vars /\ UNCHANGED <<disk, phase>> /\ snap[s].pc = "read"
  BY DEF SnapRead
<1>1. IInv'
  BY <1>0, StoreAlone DEF SInv
<1>2. CopyHolds(s)
  BY <1>0 DEF SInv, NoSnap
<1> DEFINE a   == snap[s].lims[c]
           st  == LimiterState(heap[a])
           all == [snap[s].states EXCEPT ![c] = st]
           n   == [snap[s] EXCEPT !.states = all]
<1>3. snap' = [snap EXCEPT ![s] = n] /\ a # nil
  BY DEF SnapRead
<1>4. heap[a] \in Limiters /\ BuiltFrom(heap[a], ConfigIn(snap[s].configs, c))
  BY <1>2, <1>3 DEF CopyHolds
<1>5. st \in LimiterStates /\ LimiterFromState(st) = heap[a]
  BY <1>4, StateRoundTrip
<1> HIDE DEF st
<1>6. StatesFor(all, snap[s].configs)
  BY <1>2, <1>4, <1>5 DEF CopyHolds, StatesFor
<1> HIDE DEF all
<1>7. /\ snap'[s] = n /\ DOMAIN snap' = Snapshotters
      /\ \A t \in Snapshotters \ {s} : snap'[t] = snap[t]
  BY <1>3 DEF SInv
<1>8. n = [pc |-> "read", configs |-> snap[s].configs, lims |-> snap[s].lims, states |-> all]
  BY <1>2 DEF CopyHolds
<1> HIDE DEF n
<1>9. CopyHolds(s)'
  BY <1>0, <1>2, <1>6, <1>7, <1>8 DEF CopyHolds, vars
<1>10. ASSUME NEW t \in Snapshotters \ {s}
       PROVE  snap'[t] = NoSnap \/ CopyHolds(t)'
  <2>1. snap[t] = NoSnap \/ CopyHolds(t)
    BY DEF SInv
  <2> QED
    BY <1>0, <1>7, <2>1 DEF CopyHolds, vars
<1>11. phase' # "down"
  BY <1>0 DEF SInv, NoSnap
<1>12. disk' # NoFile => Restorable(disk')
  BY <1>0 DEF SInv
<1> QED
  BY <1>0, <1>1, <1>7, <1>9, <1>10, <1>11, <1>12 DEF SInv

\* Saving: what has been collected can be restored.
LEMMA SnapSaveSInv ==
  ASSUME SInv, NEW s \in Snapshotters, NEW ok \in BOOLEAN, SnapSave(s, ok),
         phase # "down"
  PROVE  SInv'
<1>0. /\ UNCHANGED vars /\ snap[s].pc = "read"
      /\ snap' = [snap EXCEPT ![s] = NoSnap]
      /\ disk' = IF ok THEN Collected(s) ELSE disk
      /\ phase' = IF s = "final" THEN "saved" ELSE phase
  BY DEF SnapSave
<1>1. IInv'
  BY <1>0, StoreAlone DEF SInv
<1>2. CopyHolds(s)
  BY <1>0 DEF SInv, NoSnap
<1>3. /\ snap'[s] = NoSnap /\ DOMAIN snap' = Snapshotters
      /\ \A t \in Snapshotters \ {s} : snap'[t] = snap[t]
  BY <1>0 DEF SInv
<1>4. ASSUME NEW t \in Snapshotters
      PROVE  snap'[t] = NoSnap \/ CopyHolds(t)'
  <2>1. CASE t = s
    BY <1>3, <2>1
  <2>2. CASE t # s
    <3>1. snap[t] = NoSnap \/ CopyHolds(t)
      BY DEF SInv
    <3> QED
      BY <1>0, <1>3, <2>2, <3>1 DEF CopyHolds, vars
  <2> QED
    BY <2>1, <2>2
<1>5. Restorable(Collected(s))
  BY <1>2 DEF Restorable, Collected, CopyHolds
<1>6. disk' # NoFile => Restorable(disk')
  BY <1>0, <1>5 DEF SInv
<1>7. phase' \in Phases /\ phase' # "down"
  BY <1>0 DEF SInv, Phases
<1> QED
  BY <1>1, <1>3, <1>4, <1>6, <1>7 DEF SInv

\* A step of main or of the snapshotter that touches neither the store, nor a
\* snapshot, nor the file.
LEMMA QuietSInv ==
  ASSUME SInv, UNCHANGED vars, UNCHANGED <<snap, disk>>, phase' \in Phases,
         phase' = "down" => phase = "down"
  PROVE  SInv'
<1>1. IInv'
  BY StoreAlone DEF SInv
<1>2. ASSUME NEW s \in Snapshotters, CopyHolds(s) PROVE CopyHolds(s)'
  BY <1>2 DEF CopyHolds, vars
<1> QED
  BY <1>1, <1>2 DEF SInv, vars

\* The end of the process: its goroutines are gone, the rest is as it was.
LEMMA DieSInv ==
  ASSUME SInv, NEW cleanly, Die(cleanly)
  PROVE  SInv'
<1>0. /\ pc' = [g \in Goroutines |-> "idle"] /\ call' = [g \in Goroutines |-> NoCall]
      /\ UNCHANGED <<configs, limiters, heap, counts, clock, arrived, epoch, made,
                     decided, watch, disk>>
      /\ phase' = "down" /\ snap' = [s \in Snapshotters |-> NoSnap]
  BY DEF Die, observers
<1>1. TypeOK /\ Links /\ LimiterMatchesConfig
  BY DEF SInv, IInv
<1>2. TypeOK'
  <2>1. pc' \in [Goroutines -> {"idle", "lookup", "decide", "record"}]
    BY <1>0
  <2>2. call' \in [Goroutines -> [client : Clients \cup {nil}, lim : Addresses \cup {nil},
                                  allowed : BOOLEAN, epoch : Nat]]
    BY <1>0 DEF NoCall
  <2> QED
    BY <1>0, <1>1, <2>1, <2>2 DEF TypeOK
<1>3. Links'
  BY <1>0, <1>1 DEF Links, NoCall
<1>4. LimiterMatchesConfig'
  BY <1>0, <1>1 DEF LimiterMatchesConfig, ConfigOf
<1>5. disk' # NoFile => Restorable(disk')
  BY <1>0 DEF SInv
<1> QED
  BY <1>0, <1>2, <1>3, <1>4, <1>5 DEF SInv, IInv, Phases

\* What a start loads can be restored.
LEMMA LoadRestorable ==
  ASSUME SInv, NEW readable \in BOOLEAN
  PROVE  Restorable(Load(readable))
<1>1. Restorable(EmptyState)
  BY ConfigAssumption DEF Restorable, EmptyState, StatesFor, ConfigMaps, ConfigIn
<1> QED
  BY <1>1 DEF Load, SInv

\* A start gives each loaded limiter an address of its own, and nothing else.
LEMMA StartMaps ==
  ASSUME NEW readable \in BOOLEAN, Start(readable), Restorable(Load(readable))
  PROVE  LET loaded == Load(readable)
         IN  /\ limiters' \in [Clients -> Addresses \cup {nil}]
             /\ DOMAIN heap' = Addresses /\ DOMAIN made' = Addresses
             /\ \A c \in Clients :
                  IF loaded.limiters[c] = nil THEN limiters'[c] = nil
                  ELSE /\ limiters'[c] \in Addresses
                       /\ heap'[limiters'[c]] = LimiterFromState(loaded.limiters[c])
                       /\ made'[limiters'[c]] = [client |-> c, epoch |-> epoch[c]]
             /\ \A a \in Addresses :
                  \/ heap'[a] = nil /\ made'[a] = [client |-> nil, epoch |-> 0]
                  \/ \E c \in Clients : loaded.limiters[c] # nil /\ limiters'[c] = a
<1> DEFINE loaded == Load(readable)
<1> HIDE DEF loaded
<1>2. PICK at \in Injection(Clients, Addresses) :
        /\ limiters' = [c \in Clients |-> IF loaded.limiters[c] = nil THEN nil ELSE at[c]]
        /\ heap' = [a \in Addresses |->
                      IF a \in Range(limiters')
                        THEN LimiterFromState(loaded.limiters[Owner(at, a)]) ELSE nil]
        /\ made' = [a \in Addresses |->
                      IF a \in Range(limiters')
                        THEN [client |-> Owner(at, a), epoch |-> epoch[Owner(at, a)]]
                        ELSE [client |-> nil, epoch |-> 0]]
  BY DEF Start, loaded
<1>4. at \in [Clients -> Addresses] /\ \A c, d \in Clients : at[c] = at[d] => c = d
  BY Fun_InjectionProperties
<1>5. \A c \in Clients : Owner(at, at[c]) = c
  BY <1>4 DEF Owner
<1>6. \A c \in Clients : loaded.limiters[c] # nil =>
        limiters'[c] = at[c] /\ at[c] \in Range(limiters')
  BY <1>2 DEF Range
<1>7. Range(limiters') = {limiters'[c] : c \in Clients}
  BY <1>2 DEF Range
<1>8. limiters' \in [Clients -> Addresses \cup {nil}]
  BY <1>2, <1>4
<1>9. DOMAIN heap' = Addresses /\ DOMAIN made' = Addresses
  BY <1>2
<1>10. ASSUME NEW c \in Clients
       PROVE  IF loaded.limiters[c] = nil THEN limiters'[c] = nil
              ELSE /\ limiters'[c] \in Addresses
                   /\ heap'[limiters'[c]] = LimiterFromState(loaded.limiters[c])
                   /\ made'[limiters'[c]] = [client |-> c, epoch |-> epoch[c]]
  BY <1>2, <1>4, <1>5, <1>6
<1>11. ASSUME NEW a \in Addresses
       PROVE  \/ heap'[a] = nil /\ made'[a] = [client |-> nil, epoch |-> 0]
              \/ \E c \in Clients : loaded.limiters[c] # nil /\ limiters'[c] = a
  <2>1. CASE a \in {limiters'[c] : c \in Clients}
    BY <1>2, <2>1, ManagerAssumption
  <2>2. CASE a \notin {limiters'[c] : c \in Clients}
    BY <1>2, <1>7, <2>2
  <2> QED
    BY <2>1, <2>2
<1> QED
  BY <1>8, <1>9, <1>10, <1>11 DEF loaded

\* A started process has no snapshot under way and no request.
LEMMA StartSInv ==
  ASSUME SInv, NEW readable \in BOOLEAN, Start(readable), phase = "down",
         \A s \in Snapshotters : snap[s] = NoSnap
  PROVE  SInv'
<1> DEFINE loaded == Load(readable)
<1>0. TypeOK
  BY DEF SInv, IInv
<1>1. Restorable(loaded)
  BY LoadRestorable
<1>2. /\ limiters' \in [Clients -> Addresses \cup {nil}]
      /\ DOMAIN heap' = Addresses /\ DOMAIN made' = Addresses
      /\ \A c \in Clients :
           IF loaded.limiters[c] = nil THEN limiters'[c] = nil
           ELSE /\ limiters'[c] \in Addresses
                /\ heap'[limiters'[c]] = LimiterFromState(loaded.limiters[c])
                /\ made'[limiters'[c]] = [client |-> c, epoch |-> epoch[c]]
      /\ \A a \in Addresses :
           \/ heap'[a] = nil /\ made'[a] = [client |-> nil, epoch |-> 0]
           \/ \E c \in Clients : loaded.limiters[c] # nil /\ limiters'[c] = a
  BY <1>1, StartMaps
<1>3. /\ phase' = "up" /\ configs' = loaded.configs
      /\ counts' = [c \in Clients |-> NoStats]
      /\ decided' = [c \in Clients |-> NoStats]
      /\ watch' = [c \in Clients |-> [start |-> clock, held |-> 0, passed |-> 0]]
      /\ UNCHANGED <<pc, call, clock, arrived, epoch, snap, disk>>
  BY DEF Start
<1> HIDE DEF loaded
<1>8. \A c \in Clients : loaded.limiters[c] # nil =>
        LimiterFromState(loaded.limiters[c]) \in Limiters
  BY <1>1, RestoredType DEF Restorable, StatesFor
<1>10. \A g \in Goroutines : pc[g] = "idle" /\ call[g] = NoCall
  BY DEF SInv
<1>11. TypeOK'
  <2>1. configs' \in [Clients -> Configs \cup {NoConfig}]
    BY <1>1, <1>3 DEF Restorable, ConfigMaps
  <2>2. limiters' \in [Clients -> Addresses \cup {nil}]
    BY <1>2
  <2>3. heap' \in [Addresses -> TokenBuckets \cup SlidingWindows \cup {nil}]
    <3>1. ASSUME NEW a \in Addresses
          PROVE  heap'[a] \in Limiters \cup {nil}
      <4>1. CASE \E c \in Clients : loaded.limiters[c] # nil /\ limiters'[c] = a
        <5>1. PICK c \in Clients : loaded.limiters[c] # nil /\ limiters'[c] = a
          BY <4>1
        <5>2. heap'[a] = LimiterFromState(loaded.limiters[c])
          BY <1>2, <5>1
        <5> QED
          BY <1>8, <5>1, <5>2
      <4> QED
        BY <1>2, <4>1
    <3>2. heap' = [a \in Addresses |-> heap'[a]]
      BY DEF Start
    <3> QED
      BY <3>1, <3>2 DEF Limiters
  <2>4. made' \in [Addresses -> [client : Clients \cup {nil}, epoch : Nat]]
    <3>1. ASSUME NEW a \in Addresses
          PROVE  made'[a] \in [client : Clients \cup {nil}, epoch : Nat]
      <4>1. CASE \E c \in Clients : loaded.limiters[c] # nil /\ limiters'[c] = a
        <5>1. PICK c \in Clients : loaded.limiters[c] # nil /\ limiters'[c] = a
          BY <4>1
        <5>2. made'[a] = [client |-> c, epoch |-> epoch[c]]
          BY <1>2, <5>1
        <5> QED
          BY <1>0, <5>2 DEF TypeOK
      <4>2. CASE made'[a] = [client |-> nil, epoch |-> 0]
        BY <4>2
      <4> QED
        BY <1>2, <4>1, <4>2
    <3>2. made' = [a \in Addresses |-> made'[a]]
      BY DEF Start
    <3> QED
      BY <3>1, <3>2
  <2>5. /\ counts' \in [Clients -> ClientStats] /\ decided' \in [Clients -> ClientStats]
    BY <1>3 DEF NoStats, ClientStats
  <2>6. watch' \in [Clients -> [start : Nat, held : Nat, passed : Nat]]
    BY <1>0, <1>3 DEF TypeOK
  <2> QED
    BY <1>0, <1>3, <2>1, <2>2, <2>3, <2>4, <2>5, <2>6 DEF TypeOK
<1>12. Links'
  <2>1. ASSUME NEW c \in Clients, limiters'[c] # nil PROVE heap'[limiters'[c]] \in Limiters
    BY <1>2, <1>8, <2>1
  <2>2. \A g \in Goroutines : pc'[g] = "idle" /\ call'[g].lim = nil
    BY <1>3, <1>10 DEF NoCall
  <2> QED
    BY <2>1, <2>2 DEF Links
<1>13. LimiterMatchesConfig'
  <2>1. ASSUME NEW c \in Clients PROVE ConfigOf(c)' = ConfigIn(loaded.configs, c)
    BY <1>3 DEF ConfigOf, ConfigIn
  <2> QED
    BY <1>1, <1>2, <2>1
    DEF LimiterMatchesConfig, Restorable, StatesFor, ConfigMaps
<1>14. phase' \in Phases /\ phase' # "down" /\ DOMAIN snap' = Snapshotters
  BY <1>3 DEF Phases, SInv
<1>15. \A s \in Snapshotters : snap'[s] = NoSnap
  BY <1>3
<1>16. disk' # NoFile => Restorable(disk')
  BY <1>3 DEF SInv
<1> QED
  BY <1>11, <1>12, <1>13, <1>14, <1>15, <1>16 DEF SInv, IInv

LEMMA StepSInv == SInv /\ [ServerNext]_allVars => SInv'
<1> SUFFICES ASSUME SInv, [ServerNext]_allVars PROVE SInv'
  OBVIOUS
<1>1. CASE StoreStep
  BY <1>1, StoreStepSInv
<1>2. CASE PeriodicBegin
  BY <1>2, SnapBeginSInv DEF PeriodicBegin, Snapshotters
<1>3. CASE FinalBegin
  BY <1>3, SnapBeginSInv DEF FinalBegin, Snapshotters
<1>4. ASSUME NEW s \in Snapshotters, NEW c \in Clients, SnapRead(s, c) PROVE SInv'
  BY <1>4, SnapReadSInv
<1>5. ASSUME NEW s \in Snapshotters, NEW ok \in BOOLEAN, SnapSave(s, ok) PROVE SInv'
  <2>1. phase # "down"
    BY <1>5 DEF SInv, SnapSave, NoSnap
  <2> QED
    BY <1>5, <2>1, SnapSaveSInv
<1>6. CASE Signal
  BY <1>6, QuietSInv DEF Signal, Phases
<1>7. CASE SnapshotterStop
  BY <1>7, QuietSInv DEF SnapshotterStop, Phases, SInv
<1>8. ASSUME NEW timeout \in BOOLEAN, Drained(timeout) PROVE SInv'
  BY <1>8, QuietSInv DEF Drained, Phases
<1>9. CASE Exit
  BY <1>9, DieSInv DEF Exit
<1>10. CASE Crash
  BY <1>10, DieSInv DEF Crash
<1>11. ASSUME NEW readable \in BOOLEAN, Start(readable) PROVE SInv'
  <2>1. phase = "down" /\ \A s \in Snapshotters : snap[s] = NoSnap
    BY <1>11 DEF Start, SInv
  <2> QED
    BY <1>11, <2>1, StartSInv
<1>12. CASE UNCHANGED allVars
  BY <1>12, QuietSInv DEF allVars, serverVars, SInv
<1> QED
  BY <1>1, <1>2, <1>3, <1>4, <1>5, <1>6, <1>7, <1>8, <1>9, <1>10, <1>11, <1>12
  DEF ServerNext, StoreStep

\* Whatever went on while a snapshot was taken, each limiter in the file is one of
\* the Config the same file holds for its client: for any number of clients,
\* requests, configuration changes, snapshots and starts.
THEOREM SnapshotsConsistent == ServerSpec => []DiskConsistent
<1>1. SInv => DiskConsistent
  BY DEF SInv, DiskConsistent, Restorable, StatesFor, ConfigIn
<1> QED
  BY InitSInv, StepSInv, <1>1, PTL DEF ServerSpec

\* After any sequence of crashes, shutdowns and starts the limiter in the map
\* enforces the Config in force.
THEOREM RestoresMatch == ServerSpec => []RestoredMatches
<1>1. SInv => RestoredMatches
  BY DEF SInv, IInv, RestoredMatches
<1> QED
  BY InitSInv, StepSInv, <1>1, PTL DEF ServerSpec
-----------------------------------------------------------------------------
\* CleanExitDurableIfStopped is not inductive.  In a clean shutdown the requests
\* are all answered before the last snapshot is taken, so that the store stands
\* still under it; and with the snapshotter stopped no older snapshot can be
\* renamed over it.
ShutdownInv ==
  /\ timedOut => ~clean
  /\ phase \in {"up", "draining", "down"} => ~timedOut
  /\ phase \in {"saving", "saved"} /\ clean => \A g \in Goroutines : pc[g] = "idle"
  /\ ~ticking => snap["periodic"] = NoSnap
  /\ snap["final"] # NoSnap => phase = "saving"
  /\ (snap["final"] # NoSnap \/ phase = "saved") /\ ~overlap => ~ticking

\* The last snapshot of a clean shutdown holds the state of the store.
LastSnapshot ==
  /\ clean /\ snap["final"] # NoSnap =>
       /\ snap["final"].configs = configs /\ snap["final"].lims = limiters
       /\ \A c \in Clients :
            snap["final"].states[c] \in {nil, PersistedState.limiters[c]}
  /\ clean /\ ~overlap /\ phase = "saved" => disk = PersistedState
  /\ phase = "down" => atDeath = PersistedState
  /\ CleanExitDurableIfStopped

CInv == ShutdownInv /\ LastSnapshot

LEMMA InitCInv == ServerInit => CInv
<1> SUFFICES ASSUME ServerInit PROVE CInv
  OBVIOUS
<1>1. /\ phase = "up" /\ timedOut = FALSE /\ ticking = TRUE
      /\ snap["final"] = NoSnap /\ snap["periodic"] = NoSnap
  BY DEF ServerInit, Snapshotters
<1> QED
  BY <1>1 DEF CInv, ShutdownInv, LastSnapshot, CleanExitDurableIfStopped

\* Once a clean shutdown has drained the server, and once the process is down, the
\* store stands still.
LEMMA StandsStill ==
  ASSUME ShutdownInv, StoreStep, phase = "down" \/ (phase \in {"saving", "saved"} /\ clean)
  PROVE  UNCHANGED <<configs, limiters, heap, pc>>
<1>1. CASE Serve
  <2>1. phase \in {"saving", "saved"} /\ clean /\ ~Accepting
    BY <1>1 DEF Serve, Accepting, ShutdownInv
  <2>2. \A g \in Goroutines : pc[g] = "idle"
    BY <2>1 DEF ShutdownInv
  <2> QED
    BY <1>1, <2>1, <2>2 DEF Serve, Get, Create, Record
<1>2. CASE \E g \in Goroutines : ServeDecide(g)
  BY <1>2 DEF ServeDecide, Decide, ShutdownInv
<1>3. CASE Wait
  BY <1>3 DEF Wait, Tick
<1> QED
  BY <1>1, <1>2, <1>3 DEF StoreStep

\* Nothing is lost while the store stands still.
LEMMA PersistedStill ==
  ASSUME UNCHANGED <<configs, limiters, heap>>
  PROVE  PersistedState' = PersistedState
BY DEF PersistedState

LEMMA StoreStepCInv == CInv /\ StoreStep => CInv'
<1> SUFFICES ASSUME CInv, StoreStep PROVE CInv'
  OBVIOUS
<1>0. ShutdownInv /\ LastSnapshot
  BY DEF CInv
<1>1. UNCHANGED <<phase, timedOut, ticking, snap, disk, clean, overlap, atDeath>>
  BY DEF StoreStep, Serve, ServeDecide, Wait, serverVars
<1>2. ASSUME phase = "down" \/ (phase \in {"saving", "saved"} /\ clean)
      PROVE  UNCHANGED <<configs, limiters, heap, pc>> /\ PersistedState' = PersistedState
  BY <1>0, <1>2, StandsStill, PersistedStill
<1>3. ShutdownInv'
  BY <1>0, <1>1, <1>2 DEF ShutdownInv
<1>4. LastSnapshot'
  <2>1. clean /\ snap["final"] # NoSnap => phase = "saving"
    BY <1>0 DEF ShutdownInv
  <2> QED
    BY <1>0, <1>1, <1>2, <2>1 DEF LastSnapshot, CleanExitDurableIfStopped
<1> QED
  BY <1>3, <1>4 DEF CInv

\* The last snapshot begins with the maps as they are.
LEMMA FinalBeginCInv == SInv /\ CInv /\ FinalBegin => CInv'
<1> SUFFICES ASSUME SInv, CInv, FinalBegin PROVE CInv'
  OBVIOUS
<1>0. ShutdownInv /\ LastSnapshot
  BY DEF CInv
<1> DEFINE n == [pc |-> "read", configs |-> configs, lims |-> limiters,
                 states |-> [c \in Clients |-> nil]]
<1>1. /\ phase = "saving" /\ snap' = [snap EXCEPT !["final"] = n] /\ overlap' = ticking
      /\ UNCHANGED <<configs, limiters, heap, pc, phase, timedOut, ticking, disk, clean,
                     atDeath>>
  BY DEF FinalBegin, SnapBegin, vars
<1>2. snap'["final"] = n /\ snap'["periodic"] = snap["periodic"]
  BY <1>1 DEF SInv, Snapshotters
<1>3. n.configs = configs /\ n.lims = limiters /\ \A c \in Clients : n.states[c] = nil
  OBVIOUS
<1> HIDE DEF n
<1>4. ShutdownInv'
  BY <1>0, <1>1, <1>2 DEF ShutdownInv
<1>5. LastSnapshot'
  BY <1>0, <1>1, <1>2, <1>3 DEF LastSnapshot, CleanExitDurableIfStopped
<1> QED
  BY <1>4, <1>5 DEF CInv

\* What the last snapshot reads of a limiter is what is there.
LEMMA SnapReadCInv ==
  ASSUME SInv, CInv, NEW s \in Snapshotters, NEW c \in Clients, SnapRead(s, c)
  PROVE  CInv'
<1>0. ShutdownInv /\ LastSnapshot
  BY DEF CInv
<1>1. /\ snap[s].pc = "read" /\ snap[s].lims[c] # nil
      /\ snap' = [snap EXCEPT ![s].states[c] = LimiterState(heap[snap[s].lims[c]])]
      /\ UNCHANGED <<configs, limiters, heap, pc, phase, timedOut, ticking, disk, clean,
                     overlap, atDeath>>
  BY DEF SnapRead, vars
<1>2. CopyHolds(s) /\ snap[s] # NoSnap
  BY <1>1 DEF SInv, NoSnap
<1> DEFINE st  == LimiterState(heap[snap[s].lims[c]])
           all == [snap[s].states EXCEPT ![c] = st]
<1>3. snap' = [snap EXCEPT ![s] = [snap[s] EXCEPT !.states = all]]
  BY <1>1
<1>4. /\ snap'[s].configs = snap[s].configs /\ snap'[s].lims = snap[s].lims
      /\ snap'[s].states = all
  BY <1>2, <1>3 DEF SInv, CopyHolds
<1>5. \A t \in Snapshotters \ {s} : snap'[t] = snap[t]
  BY <1>3 DEF SInv
<1>6. snap[s].states \in [Clients -> LimiterStates \cup {nil}]
  BY <1>2 DEF CopyHolds, StatesFor
<1>7. PersistedState' = PersistedState
  BY <1>1, PersistedStill
<1>8. ShutdownInv'
  BY <1>0, <1>1, <1>2, <1>5 DEF ShutdownInv, Snapshotters
<1>9. ASSUME clean, snap'["final"] # NoSnap
      PROVE  /\ snap'["final"].configs = configs /\ snap'["final"].lims = limiters
             /\ \A d \in Clients :
                  snap'["final"].states[d] \in {nil, PersistedState.limiters[d]}
  <2>1. CASE s = "final"
    <3>1. /\ snap[s].configs = configs /\ snap[s].lims = limiters
          /\ \A d \in Clients : snap[s].states[d] \in {nil, PersistedState.limiters[d]}
      BY <1>0, <1>2, <1>9, <2>1 DEF LastSnapshot
    <3>2. st = PersistedState.limiters[c]
      BY <1>1, <3>1 DEF PersistedState
    <3> HIDE DEF st
    <3>3. \A d \in Clients : all[d] = IF d = c THEN st ELSE snap[s].states[d]
      BY <1>6
    <3> QED
      BY <1>4, <2>1, <3>1, <3>2, <3>3
  <2>2. CASE s # "final"
    BY <1>0, <1>5, <1>9, <2>2 DEF LastSnapshot, Snapshotters
  <2> QED
    BY <2>1, <2>2
<1>10. LastSnapshot'
  BY <1>0, <1>1, <1>7, <1>9 DEF LastSnapshot, CleanExitDurableIfStopped
<1> QED
  BY <1>8, <1>10 DEF CInv

\* The last snapshot saved is the state of the store.
LEMMA SnapSaveCInv ==
  ASSUME SInv, CInv, NEW s \in Snapshotters, NEW ok \in BOOLEAN, SnapSave(s, ok)
  PROVE  CInv'
<1>0. ShutdownInv /\ LastSnapshot
  BY DEF CInv
<1>1. /\ snap[s].pc = "read"
      /\ \A c \in Clients : snap[s].lims[c] # nil => snap[s].states[c] # nil
      /\ disk' = IF ok THEN Collected(s) ELSE disk
      /\ snap' = [snap EXCEPT ![s] = NoSnap]
      /\ phase' = IF s = "final" THEN "saved" ELSE phase
      /\ clean' = (clean /\ (s = "final" => ok))
      /\ UNCHANGED <<configs, limiters, heap, pc, timedOut, ticking, overlap, atDeath>>
  BY DEF SnapSave, vars
<1>2. CopyHolds(s) /\ snap[s] # NoSnap /\ phase # "down"
  BY <1>1 DEF SInv, NoSnap
<1>3. /\ snap'[s] = NoSnap /\ \A t \in Snapshotters \ {s} : snap'[t] = snap[t]
  BY <1>1 DEF SInv
<1>4. PersistedState' = PersistedState
  BY <1>1, PersistedStill
<1>5. CASE s = "final"
  <2>1. phase = "saving" /\ phase' = "saved" /\ clean' = (clean /\ ok)
    BY <1>0, <1>1, <1>2, <1>5 DEF ShutdownInv
  <2>2. snap'["final"] = NoSnap /\ snap'["periodic"] = snap["periodic"]
    BY <1>3, <1>5 DEF Snapshotters
  <2>3. ShutdownInv'
    BY <1>0, <1>1, <1>2, <1>5, <2>1, <2>2 DEF ShutdownInv
  <2>4. ASSUME clean, ok PROVE disk' = PersistedState
    <3>1. /\ snap[s].configs = configs /\ snap[s].lims = limiters
          /\ \A c \in Clients : snap[s].states[c] \in {nil, PersistedState.limiters[c]}
      BY <1>0, <1>2, <1>5, <2>4 DEF LastSnapshot
    <3>2. snap[s].states \in [Clients -> LimiterStates \cup {nil}]
      BY <1>2 DEF CopyHolds, StatesFor
    <3>3. \A c \in Clients : snap[s].states[c] = PersistedState.limiters[c]
      BY <1>1, <3>1 DEF PersistedState
    <3>4. snap[s].states = PersistedState.limiters
      BY <3>2, <3>3 DEF PersistedState
    <3> QED
      BY <1>1, <2>4, <3>1, <3>4 DEF Collected, PersistedState
  <2>5. LastSnapshot'
    BY <1>1, <1>4, <2>1, <2>2, <2>4 DEF LastSnapshot, CleanExitDurableIfStopped
  <2> QED
    BY <2>3, <2>5 DEF CInv
<1>6. CASE s = "periodic"
  <2>1. phase' = phase /\ (clean' => clean) /\ ticking
    BY <1>0, <1>1, <1>2, <1>6 DEF ShutdownInv
  <2>2. snap'["periodic"] = NoSnap /\ snap'["final"] = snap["final"]
    BY <1>3, <1>6 DEF Snapshotters
  <2>3. ShutdownInv'
    BY <1>0, <1>1, <2>1, <2>2 DEF ShutdownInv
  <2>4. phase = "saved" => overlap
    BY <1>0, <2>1 DEF ShutdownInv
  <2>5. LastSnapshot'
    BY <1>0, <1>1, <1>2, <1>4, <2>1, <2>2, <2>4 DEF LastSnapshot, CleanExitDurableIfStopped
  <2> QED
    BY <2>3, <2>5 DEF CInv
<1> QED
  BY <1>5, <1>6 DEF Snapshotters

\* What the process leaves behind: the file, if it ended cleanly.
LEMMA DieCInv ==
  ASSUME CInv, NEW cleanly \in BOOLEAN, Die(cleanly), cleanly => phase = "saved"
  PROVE  CInv'
<1>0. ShutdownInv /\ LastSnapshot
  BY DEF CInv
<1>1. /\ phase' = "down" /\ timedOut' = FALSE /\ clean' = (clean /\ cleanly)
      /\ atDeath' = PersistedState /\ ticking' = FALSE
      /\ snap' = [s \in Snapshotters |-> NoSnap]
      /\ UNCHANGED <<configs, limiters, heap, disk, overlap>>
  BY DEF Die
<1>2. snap'["final"] = NoSnap /\ snap'["periodic"] = NoSnap
  BY <1>1 DEF Snapshotters
<1>3. PersistedState' = PersistedState
  BY <1>1, PersistedStill
<1>4. ShutdownInv'
  BY <1>1, <1>2 DEF ShutdownInv
<1>5. LastSnapshot'
  BY <1>0, <1>1, <1>2, <1>3 DEF LastSnapshot, CleanExitDurableIfStopped
<1> QED
  BY <1>4, <1>5 DEF CInv

\* A step that leaves the store, the snapshot of main and the file alone.
LEMMA QuietCInv ==
  ASSUME CInv, ShutdownInv', UNCHANGED <<vars, disk, overlap, atDeath>>,
         snap'["final"] \in {snap["final"], NoSnap}, clean' => clean,
         phase' = phase \/ phase' \in {"up", "draining", "saving"}
  PROVE  CInv'
<1>1. PersistedState' = PersistedState
  BY PersistedStill DEF vars
<1> QED
  BY <1>1 DEF CInv, LastSnapshot, CleanExitDurableIfStopped, vars

LEMMA StepCInv == SInv /\ CInv /\ [ServerNext]_allVars => CInv'
<1> SUFFICES ASSUME SInv, CInv, [ServerNext]_allVars PROVE CInv'
  OBVIOUS
<1>0. ShutdownInv /\ LastSnapshot
  BY DEF CInv
<1>1. CASE StoreStep
  BY <1>1, StoreStepCInv
<1>2. CASE PeriodicBegin
  <2>1. /\ ticking /\ phase' = phase /\ snap'["final"] = snap["final"]
        /\ UNCHANGED <<vars, timedOut, ticking, disk, clean, overlap, atDeath>>
    BY <1>2 DEF PeriodicBegin, SnapBegin, SInv, Snapshotters
  <2>2. ShutdownInv'
    BY <1>0, <2>1 DEF ShutdownInv, vars
  <2> QED
    BY <2>1, <2>2, QuietCInv
<1>3. CASE FinalBegin
  BY <1>3, FinalBeginCInv
<1>4. ASSUME NEW s \in Snapshotters, NEW c \in Clients, SnapRead(s, c) PROVE CInv'
  BY <1>4, SnapReadCInv
<1>5. ASSUME NEW s \in Snapshotters, NEW ok \in BOOLEAN, SnapSave(s, ok) PROVE CInv'
  BY <1>5, SnapSaveCInv
<1>6. CASE Signal
  <2>1. ShutdownInv'
    BY <1>0, <1>6 DEF Signal, ShutdownInv, vars
  <2> QED
    BY <1>6, <2>1, QuietCInv DEF Signal
<1>7. CASE SnapshotterStop
  <2>1. snap["periodic"] = NoSnap
    BY <1>7 DEF SnapshotterStop, SInv, CopyHolds, Snapshotters
  <2>2. ShutdownInv'
    BY <1>0, <1>7, <2>1 DEF SnapshotterStop, ShutdownInv, vars
  <2> QED
    BY <1>7, <2>2, QuietCInv DEF SnapshotterStop
<1>8. ASSUME NEW timeout \in BOOLEAN, Drained(timeout) PROVE CInv'
  <2>1. ShutdownInv'
    BY <1>0, <1>8 DEF Drained, WaitIsOver, ShutdownInv, vars
  <2> QED
    BY <1>8, <2>1, QuietCInv DEF Drained
<1>9. CASE Exit
  BY <1>9, DieCInv DEF Exit
<1>10. CASE Crash
  BY <1>10, DieCInv DEF Crash
<1>11. ASSUME NEW readable \in BOOLEAN, Start(readable) PROVE CInv'
  <2>1. /\ phase = "down" /\ phase' = "up" /\ ticking' = TRUE
        /\ UNCHANGED <<timedOut, snap>>
    BY <1>11 DEF Start
  <2>2. snap["final"] = NoSnap
    BY <2>1 DEF SInv, Snapshotters
  <2> QED
    BY <1>0, <2>1, <2>2 DEF CInv, ShutdownInv, LastSnapshot, CleanExitDurableIfStopped
<1>12. CASE UNCHANGED allVars
  <2>1. ShutdownInv'
    BY <1>0, <1>12 DEF allVars, serverVars, ShutdownInv, vars
  <2> QED
    BY <1>12, <2>1, QuietCInv DEF allVars, serverVars
<1> QED
  BY <1>1, <1>2, <1>3, <1>4, <1>5, <1>6, <1>7, <1>8, <1>9, <1>10, <1>11, <1>12
  DEF ServerNext, StoreStep

\* A process that shut down cleanly, its snapshotter stopped before the last
\* snapshot began, leaves its state in the file, whatever requests, configuration
\* changes, crashes and starts there were before.
THEOREM CleanExitLosesNothing == ServerSpec => []CleanExitDurableIfStopped
<1>1. CInv => CleanExitDurableIfStopped
  BY DEF CInv, LastSnapshot
<1> QED
  BY InitSInv, StepSInv, InitCInv, StepCInv, <1>1, PTL DEF ServerSpec
-----------------------------------------------------------------------------
\* What a step of the server is to the store: a step of its own, its goroutines
\* ending with the process, a start, or nothing.
LEMMA ServerSteps ==
  ASSUME [ServerNext]_allVars
  PROVE  \/ StoreStep
         \/ \E cleanly \in BOOLEAN : Die(cleanly)
         \/ \E readable \in BOOLEAN : Start(readable)
         \/ UNCHANGED <<vars, spent, losses>>
<1>1. CASE PeriodicBegin \/ FinalBegin
  BY <1>1 DEF PeriodicBegin, FinalBegin, SnapBegin
<1>2. CASE \E s \in Snapshotters : \/ \E c \in Clients : SnapRead(s, c)
                                   \/ \E ok \in BOOLEAN : SnapSave(s, ok)
  BY <1>2 DEF SnapRead, SnapSave
<1>3. CASE Signal \/ SnapshotterStop \/ \E timeout \in BOOLEAN : Drained(timeout)
  BY <1>3 DEF Signal, SnapshotterStop, Drained
<1>4. CASE Exit \/ Crash
  BY <1>4 DEF Exit, Crash
<1>5. CASE UNCHANGED allVars
  BY <1>5 DEF allVars, serverVars
<1> QED
  BY <1>1, <1>2, <1>3, <1>4, <1>5 DEF ServerNext, StoreStep

\* A restored limiter counts as made in the current epoch of its client, and no
\* request holds another: EInv survives the end of the process and a start.
LEMMA StepServerEInv == SInv /\ EInv /\ [ServerNext]_allVars => EInv'
<1> SUFFICES ASSUME SInv, EInv, [ServerNext]_allVars PROVE EInv'
  OBVIOUS
<1>1. CASE StoreStep
  BY <1>1, StoreStepIsNext, StepEInv DEF SInv
<1>2. CASE UNCHANGED <<vars, spent, losses>>
  BY <1>2, StepEInv DEF SInv
<1>3. ASSUME NEW cleanly \in BOOLEAN, Die(cleanly) PROVE EInv'
  <2>1. /\ UNCHANGED <<limiters, made, epoch>>
        /\ \A g \in Goroutines : pc'[g] = "idle" /\ call'[g].lim = nil
    BY <1>3 DEF Die, observers, NoCall
  <2> QED
    BY <2>1, NothingMade
<1>4. ASSUME NEW readable \in BOOLEAN, Start(readable) PROVE EInv'
  <2> DEFINE loaded == Load(readable)
  <2>1. Restorable(loaded) /\ TypeOK
    BY LoadRestorable DEF SInv, IInv
  <2>2. \A c \in Clients :
          IF loaded.limiters[c] = nil THEN limiters'[c] = nil
          ELSE made'[limiters'[c]] = [client |-> c, epoch |-> epoch[c]]
    BY <1>4, <2>1, StartMaps
  <2> HIDE DEF loaded
  <2>3. ASSUME NEW c \in Clients, limiters'[c] # nil
        PROVE  made'[limiters'[c]] = [client |-> c, epoch |-> epoch[c]]
    BY <2>2, <2>3
  <2>4. epoch' = epoch /\ \A g \in Goroutines : pc'[g] = "idle" /\ call'[g].lim = nil
    BY <1>4 DEF Start, SInv, NoCall
  <2>5. Reachable' \ {nil} \subseteq {limiters'[c] : c \in Clients}
    BY <2>4 DEF Reachable
  <2>6. ASSUME NEW a \in Reachable' \ {nil}
        PROVE  \E c \in Clients : /\ limiters'[c] = a
                                  /\ made'[a] = [client |-> c, epoch |-> epoch[c]]
    BY <2>3, <2>5
  <2>7. Epochs'
    <3>1. ASSUME NEW a \in Reachable' \ {nil}
          PROVE  /\ made'[a].client \in Clients
                 /\ made'[a].epoch <= epoch'[made'[a].client]
                 /\ limiters'[made'[a].client] = a
      <4>1. PICK c \in Clients : /\ limiters'[c] = a
                                 /\ made'[a] = [client |-> c, epoch |-> epoch[c]]
        BY <2>6
      <4> QED
        BY <2>1, <2>4, <4>1 DEF TypeOK
    <3> QED
      BY <2>4, <3>1 DEF Epochs
  <2>8. OneLimiterPerEpoch'
    <3>1. ASSUME NEW a \in Reachable' \ {nil}, NEW b \in Reachable' \ {nil},
                 made'[a] = made'[b]
          PROVE  a = b
      <4>1. PICK c \in Clients : /\ limiters'[c] = a
                                 /\ made'[a] = [client |-> c, epoch |-> epoch[c]]
        BY <2>6
      <4>2. PICK d \in Clients : /\ limiters'[d] = b
                                 /\ made'[b] = [client |-> d, epoch |-> epoch[d]]
        BY <2>6
      <4>3. made'[a].client = c /\ made'[b].client = d
        BY <4>1, <4>2
      <4> QED
        BY <3>1, <4>1, <4>2, <4>3
    <3> QED
      BY <2>3, <2>4, <3>1 DEF OneLimiterPerEpoch
  <2>9. ChangeTakesEffect'
    BY <2>4 DEF ChangeTakesEffect
  <2> QED
    BY <2>7, <2>8, <2>9 DEF EInv
<1> QED
  BY <1>1, <1>2, <1>3, <1>4, ServerSteps
-----------------------------------------------------------------------------
\* The store's DefaultConfig is a token bucket (manager.go:10).
DefaultIsBucket == DefaultConfig.Algorithm = AlgorithmTokenBucket

\* A bucket at time now: not overdrawn, filled in the past, with usable limits.
Sane(lim, now) ==
  lim \in TokenBuckets =>
    /\ 0 <= lim.tokens /\ lim.lastRefill <= now
    /\ 0 <= lim.capacity /\ 0 <= lim.refillRate

\* What was copied or written holds sane buckets, and no Config for a client that
\* never had one.
SaneCopy(map, states, changes, now) ==
  \A c \in Clients :
    /\ changes[c] = 0 => map[c] = NoConfig
    /\ states[c] # nil => Sane(LimiterFromState(states[c]), now)

\* What a client could get at once: a full bucket if one had yet to be made.
Credit(c) ==
  IF limiters[c] = nil THEN DefaultConfig.Burst
  ELSE Refill(heap[limiters[c]], clock).tokens

\* used requests and the credit left are paid by a full bucket, one more for each
\* loss, and the refill since the first start.
Solvent(used, credit, lost, now) ==
  used * Unit + credit <= DefaultConfig.Burst * (lost + 1) + DefaultConfig.RPS * now

SaneStore == \A a \in Addresses : Sane(heap[a], clock)

SaneCopies ==
  /\ \A s \in Snapshotters : snap[s] # NoSnap =>
       SaneCopy(snap[s].configs, snap[s].states, epoch, clock)
  /\ disk # NoFile => SaneCopy(disk.configs, disk.limiters, epoch, clock)

\* LossBound is not inductive: what a client may get after a start is in the file,
\* and what will be in the file is in the store.
LInv ==
  /\ spent \in [Clients -> Nat] /\ losses \in Nat
  /\ SaneStore /\ SaneCopies
  /\ \A c \in Clients : epoch[c] = 0 =>
       configs[c] = NoConfig /\ Solvent(spent[c], Credit(c), losses, clock)

\* A refilled bucket holds between nothing and its capacity.
LEMMA RefillFunds ==
  ASSUME NEW b \in TokenBuckets, NEW now \in Nat, Sane(b, now)
  PROVE  /\ Refill(b, now) \in TokenBuckets
         /\ Refill(b, now).lastRefill = now
         /\ Refill(b, now).capacity = b.capacity /\ Refill(b, now).refillRate = b.refillRate
         /\ 0 <= Refill(b, now).tokens /\ Refill(b, now).tokens <= b.capacity
<1> DEFINE gain == (now - b.lastRefill) * b.refillRate
           most == MinOf(b.capacity, b.tokens + gain)
<1>1. /\ b.tokens \in Int /\ b.lastRefill \in Nat /\ b.capacity \in Int
      /\ b.refillRate \in Nat /\ 0 <= b.tokens /\ b.lastRefill <= now /\ 0 <= b.capacity
  BY DEF Sane, TokenBuckets
<1>2. gain \in Nat
  <2>1. now - b.lastRefill \in Nat
    BY <1>1
  <2> QED
    BY <1>1, <2>1, NatProduct
<1>3. Refill(b, now) = [b EXCEPT !.tokens = most, !.lastRefill = now]
  BY DEF Refill
<1> HIDE DEF gain
<1>4. most \in Int /\ 0 <= most /\ most <= b.capacity
  BY <1>1, <1>2 DEF MinOf
<1> HIDE DEF most
<1> QED
  BY <1>3, <1>4 DEF TokenBuckets

\* In a tick the credit grows by the rate at most.
LEMMA RefillTick ==
  ASSUME NEW b \in TokenBuckets, NEW now \in Nat, Sane(b, now)
  PROVE  Refill(b, now + 1).tokens <= Refill(b, now).tokens + b.refillRate
<1> DEFINE gain == (now - b.lastRefill) * b.refillRate
           more == (now + 1 - b.lastRefill) * b.refillRate
<1>1. /\ b.tokens \in Int /\ b.lastRefill \in Nat /\ b.capacity \in Int
      /\ b.refillRate \in Nat
  BY DEF Sane, TokenBuckets
<1>2. gain \in Int /\ more = gain + b.refillRate
  <2>1. now - b.lastRefill \in Int /\ now + 1 - b.lastRefill = (now - b.lastRefill) + 1
    BY <1>1
  <2>2. more = gain + 1 * b.refillRate
    BY <1>1, <2>1, ProductOfSum
  <2> QED
    BY <1>1, <2>1, <2>2, IntProduct
<1>3. Refill(b, now).tokens = MinOf(b.capacity, b.tokens + gain)
  BY DEF Refill, TokenBuckets
<1>4. Refill(b, now + 1).tokens = MinOf(b.capacity, b.tokens + more)
  BY DEF Refill, TokenBuckets
<1> HIDE DEF gain, more
<1> QED
  BY <1>1, <1>2, <1>3, <1>4 DEF MinOf

\* A second refill at the same moment adds nothing.
LEMMA RefillTwice ==
  ASSUME NEW b \in TokenBuckets, b.tokens <= b.capacity
  PROVE  Refill(b, b.lastRefill).tokens = b.tokens
<1>1. /\ b.tokens \in Int /\ b.lastRefill \in Nat /\ b.capacity \in Int
      /\ b.refillRate \in Int
  BY DEF TokenBuckets
<1>2. (b.lastRefill - b.lastRefill) * b.refillRate = 0
  BY <1>1
<1>3. Refill(b, b.lastRefill).tokens = MinOf(b.capacity, b.tokens + 0)
  BY <1>2 DEF Refill, TokenBuckets
<1> QED
  BY <1>1, <1>3 DEF MinOf

\* Allow leaves a bucket sane, and takes from the credit what it lets through
\* (tokenbucket.go:90-123).
LEMMA AllowFunds ==
  ASSUME NEW b \in TokenBuckets, NEW now \in Nat, Sane(b, now)
  PROVE  LET result == TokenBucketAllow(b, now)
         IN  /\ result.limiter \in TokenBuckets /\ Sane(result.limiter, now)
             /\ Refill(result.limiter, now).tokens
                  = Refill(b, now).tokens - (IF result.decision.Allowed THEN Unit ELSE 0)
<1> DEFINE full == Refill(b, now)
           yes  == full.tokens >= Unit
           rest == IF yes THEN full.tokens - Unit ELSE full.tokens
           left == IF yes THEN [full EXCEPT !.tokens = @ - Unit] ELSE full
<1>1. /\ full \in TokenBuckets /\ full.lastRefill = now
      /\ full.capacity = b.capacity /\ full.refillRate = b.refillRate
      /\ 0 <= full.tokens /\ full.tokens <= b.capacity
  BY RefillFunds
<1>2. b.capacity \in Int /\ 0 <= b.capacity /\ 0 <= b.refillRate
  BY DEF Sane, TokenBuckets
<1>3. /\ TokenBucketAllow(b, now).limiter = left
      /\ TokenBucketAllow(b, now).decision.Allowed = yes
  BY DEF TokenBucketAllow
<1> HIDE DEF full
<1>4. full.tokens \in Int /\ Unit \in Nat /\ Unit > 0
  BY <1>1, UnitAssumption DEF TokenBuckets
<1>5. /\ left \in TokenBuckets /\ left.tokens = rest /\ left.lastRefill = now
      /\ left.capacity = b.capacity /\ left.refillRate = b.refillRate
  BY <1>1, <1>4 DEF TokenBuckets
<1> HIDE DEF left
<1>6. 0 <= rest /\ rest <= b.capacity /\ rest = full.tokens - (IF yes THEN Unit ELSE 0)
  BY <1>1, <1>2, <1>4
<1> HIDE DEF rest, yes
<1>7. Refill(left, now).tokens = rest
  BY <1>5, <1>6, RefillTwice
<1>8. Sane(left, now)
  BY <1>1, <1>2, <1>5, <1>6 DEF Sane, TokenBuckets
<1> QED
  BY <1>3, <1>5, <1>6, <1>7, <1>8 DEF full

\* The same through the Limiter interface: no Allow leaves a bucket overdrawn.
LEMMA AllowSane ==
  ASSUME NEW lim \in Limiters, NEW now \in Nat, Sane(lim, now)
  PROVE  Sane(LimiterAllow(lim, now).limiter, now)
<1>1. AlgorithmSlidingWindow # AlgorithmTokenBucket
  BY DEF AlgorithmSlidingWindow, AlgorithmTokenBucket
<1>2. CASE lim \in TokenBuckets
  BY <1>1, <1>2, AllowFunds DEF LimiterAllow, TokenBuckets
<1>3. CASE lim \in SlidingWindows
  <2>1. LimiterAllow(lim, now).limiter.type = AlgorithmSlidingWindow
    BY <1>1, <1>3, AllowType DEF SameLimits, SlidingWindows
  <2> QED
    BY <1>1, <2>1 DEF Sane, TokenBuckets
<1> QED
  BY <1>2, <1>3 DEF Limiters

\* A new limiter is sane, and a new bucket is full.
LEMMA NewSane ==
  ASSUME NEW cfg, cfg.RPS \in Int, cfg.Burst \in Int, Validate(cfg), NEW now \in Nat
  PROVE  /\ Sane(newLimiter(cfg, now), now)
         /\ cfg.Algorithm = AlgorithmTokenBucket =>
              Refill(newLimiter(cfg, now), now).tokens = cfg.Burst
<1>1. AlgorithmSlidingWindow # AlgorithmTokenBucket
  BY DEF AlgorithmSlidingWindow, AlgorithmTokenBucket
<1>2. CASE cfg.Algorithm = AlgorithmSlidingWindow
  BY <1>1, <1>2 DEF newLimiter, NewSlidingWindow, Sane, TokenBuckets
<1>3. CASE cfg.Algorithm = AlgorithmTokenBucket
  <2> DEFINE b == newLimiter(cfg, now)
  <2>1. b = [type |-> AlgorithmTokenBucket, tokens |-> cfg.Burst, lastRefill |-> now,
             capacity |-> cfg.Burst, refillRate |-> cfg.RPS]
    BY <1>1, <1>3 DEF newLimiter, NewTokenBucket
  <2> HIDE DEF b
  <2>2. /\ b \in TokenBuckets /\ b.tokens = cfg.Burst /\ b.lastRefill = now
        /\ b.tokens <= b.capacity
    BY <2>1 DEF TokenBuckets
  <2>3. Refill(b, now).tokens = cfg.Burst
    BY <2>2, RefillTwice
  <2>4. Sane(b, now)
    BY <2>1, UnitAssumption DEF Sane, Validate
  <2> QED
    BY <2>3, <2>4 DEF b
<1> QED
  BY <1>2, <1>3 DEF Validate, Algorithms

\* A sane bucket stays sane as time goes by.
LEMMA SaneLater ==
  ASSUME NEW lim, NEW now \in Nat, NEW later \in Nat, now <= later, Sane(lim, now)
  PROVE  Sane(lim, later)
BY DEF Sane, TokenBuckets

\* A sane copy stays one while clients get Configs and time goes by.
LEMMA SaneCopyLater ==
  ASSUME NEW map, NEW states, NEW changes, NEW more, NEW now \in Nat, NEW later \in Nat,
         SaneCopy(map, states, changes, now), now <= later,
         \A c \in Clients : more[c] = 0 => changes[c] = 0
  PROVE  SaneCopy(map, states, more, later)
BY SaneLater DEF SaneCopy

LEMMA DefaultLimits ==
  /\ DefaultConfig.RPS \in Nat /\ DefaultConfig.Burst \in Nat
  /\ Unit \in Nat /\ Unit > 0
BY ConfigAssumption, UnitAssumption DEF Validate

\* A tick of refill is paid for, ...
LEMMA SolventTick ==
  ASSUME NEW used \in Nat, NEW credit \in Int, NEW more \in Int, NEW lost \in Nat,
         NEW now \in Nat,
         Solvent(used, credit, lost, now), more <= credit + DefaultConfig.RPS
  PROVE  Solvent(used, more, lost, now + 1)
<1> DEFINE a == used * Unit
           b == DefaultConfig.Burst * (lost + 1)
           d == DefaultConfig.RPS * now
           e == DefaultConfig.RPS * (now + 1)
<1>1. a \in Int /\ b \in Int /\ d \in Int /\ e = d + DefaultConfig.RPS
  <2>1. a \in Int /\ b \in Int /\ d \in Int /\ d = now * DefaultConfig.RPS
        /\ e = (now + 1) * DefaultConfig.RPS
    BY DefaultLimits, IntProduct
  <2>2. (now + 1) * DefaultConfig.RPS = now * DefaultConfig.RPS + 1 * DefaultConfig.RPS
    BY DefaultLimits, ProductOfSum
  <2>3. 1 * DefaultConfig.RPS = DefaultConfig.RPS
    BY DefaultLimits
  <2> HIDE DEF a, b, d, e
  <2>4. e = d + DefaultConfig.RPS
    BY <2>1, <2>2, <2>3, Zenon
  <2> QED
    BY <2>1, <2>4
<1>2. a + credit <= b + d
  BY DEF Solvent
<1> HIDE DEF a, b, d, e
<1>3. a + more <= b + e
  BY <1>1, <1>2, DefaultLimits
<1> QED
  BY <1>3 DEF Solvent, a, b, e

\* ... a request takes a token from the credit, ...
LEMMA SolventUse ==
  ASSUME NEW used \in Nat, NEW credit \in Int, NEW lost \in Nat, NEW now \in Nat,
         Solvent(used, credit, lost, now)
  PROVE  Solvent(used + 1, credit - Unit, lost, now)
<1> DEFINE a == used * Unit
           b == DefaultConfig.Burst * (lost + 1)
           d == DefaultConfig.RPS * now
<1>1. a \in Int /\ b \in Int /\ d \in Int
  BY DefaultLimits, IntProduct
<1>2. (used + 1) * Unit = a + Unit
  BY DefaultLimits, ProductOfSum
<1>3. a + credit <= b + d
  BY DEF Solvent
<1> HIDE DEF a, b, d
<1>4. (a + Unit) + (credit - Unit) <= b + d
  BY <1>1, <1>3, DefaultLimits
<1> QED
  BY <1>2, <1>4 DEF Solvent, b, d

\* ... and a loss is worth a full bucket.
LEMMA SolventLoss ==
  ASSUME NEW used \in Nat, NEW credit \in Int, NEW more \in Int, NEW lost \in Nat,
         NEW now \in Nat,
         Solvent(used, credit, lost, now), 0 <= credit, more <= DefaultConfig.Burst
  PROVE  Solvent(used, more, lost + 1, now)
<1> DEFINE a == used * Unit
           b == DefaultConfig.Burst * (lost + 1)
           d == DefaultConfig.RPS * now
           e == DefaultConfig.Burst * (lost + 1 + 1)
<1>1. a \in Int /\ b \in Int /\ d \in Int /\ e = b + DefaultConfig.Burst
  <2>1. a \in Int /\ b \in Int /\ d \in Int /\ b = (lost + 1) * DefaultConfig.Burst
        /\ e = (lost + 1 + 1) * DefaultConfig.Burst
    BY DefaultLimits, IntProduct
  <2>2. (lost + 1 + 1) * DefaultConfig.Burst
          = (lost + 1) * DefaultConfig.Burst + 1 * DefaultConfig.Burst
    BY DefaultLimits, ProductOfSum
  <2>3. 1 * DefaultConfig.Burst = DefaultConfig.Burst
    BY DefaultLimits
  <2> HIDE DEF a, b, d, e
  <2>4. e = b + DefaultConfig.Burst
    BY <2>1, <2>2, <2>3, Zenon
  <2> QED
    BY <2>1, <2>4
<1>2. a + credit <= b + d
  BY DEF Solvent
<1> HIDE DEF a, b, d, e
<1>3. a + more <= e + d
  BY <1>1, <1>2, DefaultLimits
<1> QED
  BY <1>3 DEF Solvent, a, d, e

\* A client that never had a Config has a bucket with the default limits.
LEMMA BucketInForce ==
  ASSUME SInv, LInv, DefaultIsBucket, NEW c \in Clients, epoch[c] = 0, limiters[c] # nil
  PROVE  /\ limiters[c] \in Addresses /\ heap[limiters[c]] \in TokenBuckets
         /\ heap[limiters[c]].capacity = DefaultConfig.Burst
         /\ heap[limiters[c]].refillRate = DefaultConfig.RPS
         /\ Sane(heap[limiters[c]], clock)
<1>0. TypeOK /\ Links /\ LimiterMatchesConfig /\ SaneStore
  BY DEF SInv, IInv, LInv
<1>1. limiters[c] \in Addresses /\ heap[limiters[c]] \in Limiters
  BY <1>0 DEF TypeOK, Links
<1>2. ConfigOf(c) = DefaultConfig
  BY DEF LInv, ConfigOf
<1>3. BuiltFrom(heap[limiters[c]], DefaultConfig)
  BY <1>0, <1>2 DEF LimiterMatchesConfig
<1>4. heap[limiters[c]].type = AlgorithmTokenBucket
  BY <1>3 DEF BuiltFrom, DefaultIsBucket
<1>5. heap[limiters[c]] \in TokenBuckets
  BY <1>1, <1>4
  DEF Limiters, SlidingWindows, AlgorithmSlidingWindow, AlgorithmTokenBucket
<1> QED
  BY <1>0, <1>1, <1>3, <1>4, <1>5 DEF BuiltFrom, SaneStore

LEMMA CreditBounds ==
  ASSUME SInv, LInv, DefaultIsBucket, NEW c \in Clients, epoch[c] = 0
  PROVE  Credit(c) \in Int /\ 0 <= Credit(c) /\ Credit(c) <= DefaultConfig.Burst
<1>0. clock \in Nat
  BY DEF SInv, IInv, TypeOK
<1>1. CASE limiters[c] = nil
  BY <1>1, DefaultLimits DEF Credit
<1>2. CASE limiters[c] # nil
  <2> DEFINE b == heap[limiters[c]]
  <2>1. b \in TokenBuckets /\ b.capacity = DefaultConfig.Burst /\ Sane(b, clock)
    BY <1>2, BucketInForce
  <2>2. Credit(c) = Refill(b, clock).tokens
    BY <1>2 DEF Credit
  <2> HIDE DEF b
  <2>3. /\ Refill(b, clock) \in TokenBuckets
        /\ 0 <= Refill(b, clock).tokens /\ Refill(b, clock).tokens <= b.capacity
    BY <1>0, <2>1, RefillFunds
  <2>4. Refill(b, clock).tokens \in Int
    BY <2>3 DEF TokenBuckets
  <2> QED
    BY <2>1, <2>2, <2>3, <2>4
<1> QED
  BY <1>1, <1>2

\* What was copied stays sane under whatever happens to the store.
LEMMA CopiesKept ==
  ASSUME TypeOK, SaneCopies, UNCHANGED <<snap, disk>>, clock' \in Nat, clock <= clock',
         \A c \in Clients : epoch'[c] = 0 => epoch[c] = 0
  PROVE  SaneCopies'
<1>0. clock \in Nat
  BY DEF TypeOK
<1>1. ASSUME NEW map, NEW states, SaneCopy(map, states, epoch, clock)
      PROVE  SaneCopy(map, states, epoch', clock')
  BY <1>0, <1>1, SaneCopyLater
<1> QED
  BY <1>1 DEF SaneCopies

\* A client whose limiter a step leaves alone keeps its credit.
LEMMA SameCredit ==
  ASSUME NEW c \in Clients, limiters'[c] = limiters[c], clock' = clock,
         limiters[c] # nil => heap'[limiters[c]] = heap[limiters[c]]
  PROVE  Credit(c)' = Credit(c)
BY DEF Credit

\* A step that touches neither limiters nor Configs.
LEMMA QuietLInv ==
  ASSUME LInv, SaneCopies',
         UNCHANGED <<heap, limiters, clock, spent, losses, configs, epoch>>
  PROVE  LInv'
<1>1. SaneStore'
  BY DEF LInv, SaneStore
<1>2. \A c \in Clients : Credit(c)' = Credit(c)
  BY SameCredit
<1> QED
  BY <1>1, <1>2 DEF LInv

\* A client whose configuration is changed is none of LossBound's any more.
LEMMA ChangeLInv ==
  ASSUME SInv, LInv, NEW c \in Clients, NewEpoch(c), Discard(c),
         \E cfg : configs' = [configs EXCEPT ![c] = cfg],
         UNCHANGED <<heap, clock, spent, losses, snap, disk>>
  PROVE  LInv'
<1>0. TypeOK
  BY DEF SInv, IInv
<1>1. /\ limiters' = [limiters EXCEPT ![c] = nil]
      /\ epoch' = [epoch EXCEPT ![c] = @ + 1]
  BY DEF Discard, NewEpoch
<1>2. \A d \in Clients : epoch'[d] = 0 => d # c /\ epoch[d] = 0
  BY <1>0, <1>1 DEF TypeOK
<1>3. SaneCopies'
  <2>1. clock \in Nat /\ clock' \in Nat /\ clock <= clock'
    BY <1>0 DEF TypeOK
  <2> QED
    BY <1>0, <1>2, <2>1, CopiesKept DEF LInv
<1>4. SaneStore'
  BY DEF LInv, SaneStore
<1>5. ASSUME NEW d \in Clients, epoch'[d] = 0
      PROVE  configs'[d] = NoConfig /\ Solvent(spent'[d], Credit(d)', losses', clock')
  <2>1. limiters'[d] = limiters[d] /\ configs'[d] = configs[d] /\ d # c /\ epoch[d] = 0
    BY <1>0, <1>1, <1>2, <1>5 DEF TypeOK
  <2>2. Credit(d)' = Credit(d)
    BY <2>1, SameCredit
  <2> QED
    BY <2>1, <2>2 DEF LInv
<1> QED
  BY <1>3, <1>4, <1>5 DEF LInv

\* A bucket is made full, as its client's credit had it.
LEMMA CreateLInv ==
  ASSUME SInv, LInv, DefaultIsBucket, NEW g \in Goroutines,
         NEW a \in Addresses \ Reachable, Create(g, a), UNCHANGED <<spent, losses, snap, disk>>
  PROVE  LInv'
<1>0. TypeOK /\ LimiterMatchesConfig /\ Links
  BY DEF SInv, IInv
<1>1. PICK c \in Clients : c = call[g].client
  BY <1>0 DEF Create, Links
<1> DEFINE lim == newLimiter(ConfigOf(c), clock)
<1>2. /\ limiters[c] = nil /\ heap' = [heap EXCEPT ![a] = lim]
      /\ limiters' = [limiters EXCEPT ![c] = a]
      /\ UNCHANGED <<configs, clock, epoch>>
  BY <1>1 DEF Create, Absent
<1>3. /\ Sane(lim, clock)
      /\ ConfigOf(c).Algorithm = AlgorithmTokenBucket =>
           Refill(lim, clock).tokens = ConfigOf(c).Burst
  BY <1>0, ConfigInForce, NewSane DEF TypeOK
<1> HIDE DEF lim
<1>4. SaneStore'
  BY <1>0, <1>2, <1>3 DEF LInv, SaneStore, TypeOK
<1>5. SaneCopies'
  <2>1. clock \in Nat /\ clock' \in Nat /\ clock <= clock' /\ epoch' = epoch
    BY <1>0, <1>2 DEF TypeOK
  <2> QED
    BY <1>0, <2>1, CopiesKept DEF LInv
<1>6. ASSUME NEW d \in Clients, epoch[d] = 0 PROVE Credit(d)' = Credit(d)
  <2>1. CASE d = c
    <3>1. ConfigOf(c) = DefaultConfig
      BY <1>6, <2>1 DEF LInv, ConfigOf
    <3>2. Refill(lim, clock).tokens = DefaultConfig.Burst
      BY <1>3, <3>1 DEF DefaultIsBucket
    <3>3. limiters'[d] = a /\ heap'[a] = lim /\ clock' = clock /\ a # nil
      BY <1>0, <1>2, <2>1, ManagerAssumption DEF TypeOK
    <3> QED
      BY <1>2, <2>1, <3>2, <3>3 DEF Credit
  <2>2. CASE d # c
    <3>1. limiters'[d] = limiters[d] /\ limiters[d] # a
      BY <1>0, <1>2, <2>2 DEF TypeOK, Reachable
    <3>2. limiters[d] # nil => heap'[limiters[d]] = heap[limiters[d]]
      BY <1>0, <1>2, <3>1 DEF TypeOK
    <3> QED
      BY <1>2, <3>1, <3>2, SameCredit
  <2> QED
    BY <2>1, <2>2
<1> QED
  BY <1>2, <1>4, <1>5, <1>6 DEF LInv

\* A decision takes what it lets through from the credit of its client, and
\* touches the limiter of no other.
LEMMA DecideLInv ==
  ASSUME SInv, EInv, LInv, DefaultIsBucket, NEW g \in Goroutines, ServeDecide(g)
  PROVE  LInv'
<1>0. TypeOK /\ Links /\ SaneStore
  BY DEF SInv, IInv, LInv
<1>1. PICK c \in Clients : c = call[g].client
  BY <1>0 DEF ServeDecide, Decide, Links
<1>2. PICK lim \in Addresses : lim = call[g].lim
  BY <1>0 DEF ServeDecide, Decide, Links, TypeOK
<1> DEFINE result == LimiterAllow(heap[lim], clock)
           left   == result.limiter
           yes    == result.decision.Allowed
<1>3. /\ heap' = [heap EXCEPT ![lim] = left]
      /\ spent' = [spent EXCEPT ![c] = IF yes THEN @ + 1 ELSE @]
      /\ pc[g] = "decide"
      /\ UNCHANGED <<limiters, clock, configs, epoch, losses, snap, disk>>
  <2>1. call' = [call EXCEPT ![g].allowed = yes]
    BY <1>2 DEF ServeDecide, Decide
  <2>2. call'[g].allowed = yes
    BY <1>0, <2>1 DEF TypeOK
  <2> QED
    BY <1>1, <1>2, <2>2 DEF ServeDecide, Decide
<1>4. heap[lim] \in Limiters /\ Sane(heap[lim], clock) /\ clock \in Nat
  BY <1>0, <1>2, <1>3 DEF Links, SaneStore, TypeOK
<1>5. Sane(left, clock) /\ yes \in BOOLEAN
  BY <1>4, AllowSane, AllowType
<1>6. SaneStore'
  <2> HIDE DEF left
  <2> QED
    BY <1>0, <1>3, <1>5 DEF SaneStore, TypeOK
<1>7. SaneCopies'
  <2>1. clock' \in Nat /\ clock <= clock' /\ epoch' = epoch
    BY <1>3, <1>4
  <2> QED
    BY <1>0, <1>3, <2>1, CopiesKept DEF LInv
<1>8. spent' \in [Clients -> Nat]
  BY <1>3, <1>5 DEF LInv
<1>9. lim \in Reachable \ {nil} /\ made[lim].client = c
  BY <1>1, <1>2, ManagerAssumption DEF Reachable, EInv, OneLimiterPerEpoch
<1>10. ASSUME NEW d \in Clients \ {c} PROVE Credit(d)' = Credit(d) /\ spent'[d] = spent[d]
  <2>1. limiters[d] # nil => made[limiters[d]].client = d
    <3>1. limiters[d] # nil => made[limiters[d]] = [client |-> d, epoch |-> epoch[d]]
      BY DEF EInv, OneLimiterPerEpoch
    <3> QED
      BY <3>1
  <2>2. limiters[d] # nil => heap'[limiters[d]] = heap[limiters[d]]
    BY <1>0, <1>3, <1>9, <2>1 DEF TypeOK
  <2> HIDE DEF yes
  <2> QED
    BY <1>3, <2>2, SameCredit DEF LInv
<1>11. ASSUME epoch[c] = 0
       PROVE  Solvent(spent'[c], Credit(c)', losses, clock)
  <2>1. limiters[c] = lim /\ lim # nil
    <3>1. made[lim].epoch <= epoch[c] /\ (made[lim].epoch = epoch[c] => limiters[c] = lim)
      BY <1>9 DEF EInv, Epochs
    <3>2. made[lim].epoch \in Nat
      BY <1>0 DEF TypeOK
    <3> QED
      BY <1>9, <1>11, <3>1, <3>2
  <2>2. heap[lim] \in TokenBuckets
    BY <1>11, <2>1, BucketInForce
  <2>3. result = TokenBucketAllow(heap[lim], clock)
    BY <2>2 DEF LimiterAllow, TokenBuckets, AlgorithmTokenBucket, AlgorithmSlidingWindow
  <2>4. Refill(left, clock).tokens
          = Refill(heap[lim], clock).tokens - (IF yes THEN Unit ELSE 0)
    BY <1>4, <2>2, <2>3, AllowFunds
  <2> HIDE DEF left, yes
  <2>5. /\ Credit(c) = Refill(heap[lim], clock).tokens
        /\ Credit(c)' = Refill(left, clock).tokens
    BY <1>0, <1>3, <2>1 DEF Credit, TypeOK
  <2>6. Credit(c)' = Credit(c) - (IF yes THEN Unit ELSE 0)
    BY <2>4, <2>5
  <2>7. Solvent(spent[c], Credit(c), losses, clock) /\ spent[c] \in Nat /\ losses \in Nat
    BY <1>11 DEF LInv
  <2>8. Credit(c) \in Int
    BY <1>11, CreditBounds
  <2>9. CASE yes
    <3>1. spent'[c] = spent[c] + 1 /\ Credit(c)' = Credit(c) - Unit
      BY <1>3, <2>6, <2>9 DEF LInv
    <3>2. Solvent(spent[c] + 1, Credit(c) - Unit, losses, clock)
      BY <1>4, <2>7, <2>8, SolventUse
    <3> QED
      BY <3>1, <3>2, Zenon
  <2>10. CASE ~yes
    <3>1. spent'[c] = spent[c] /\ Credit(c)' = Credit(c)
      BY <1>3, <2>6, <2>8, <2>10 DEF LInv
    <3> QED
      BY <2>7, <3>1, Zenon
  <2> QED
    BY <2>9, <2>10
<1>12. ASSUME NEW d \in Clients, epoch'[d] = 0
       PROVE  configs'[d] = NoConfig /\ Solvent(spent'[d], Credit(d)', losses', clock')
  <2>1. epoch[d] = 0 /\ configs' = configs /\ losses' = losses /\ clock' = clock
    BY <1>3, <1>12
  <2>2. configs[d] = NoConfig /\ Solvent(spent[d], Credit(d), losses, clock)
    BY <2>1 DEF LInv
  <2> QED
    BY <1>10, <1>11, <2>1, <2>2
<1> QED
  BY <1>3, <1>6, <1>7, <1>8, <1>12 DEF LInv

\* A tick refills the buckets by the rate at most.
LEMMA TickLInv ==
  ASSUME SInv, LInv, DefaultIsBucket, Wait
  PROVE  LInv'
<1>0. TypeOK
  BY DEF SInv, IInv
<1>1. /\ clock' = clock + 1 /\ clock \in Nat
      /\ UNCHANGED <<heap, limiters, spent, losses, configs, epoch, snap, disk>>
  BY <1>0 DEF Wait, Tick, observers, serverVars, TypeOK
<1>2. clock' \in Nat /\ clock <= clock'
  BY <1>1
<1>3. SaneCopies'
  BY <1>0, <1>1, <1>2, CopiesKept DEF LInv
<1>4. SaneStore'
  <2>1. ASSUME NEW a \in Addresses PROVE Sane(heap[a], clock')
    BY <1>1, <1>2, SaneLater DEF LInv, SaneStore
  <2> QED
    BY <1>1, <2>1 DEF SaneStore
<1>5. ASSUME NEW c \in Clients, epoch[c] = 0
      PROVE  Solvent(spent[c], Credit(c)', losses, clock + 1)
  <2>1. /\ Solvent(spent[c], Credit(c), losses, clock) /\ spent[c] \in Nat /\ losses \in Nat
        /\ Credit(c) \in Int
    BY <1>5, CreditBounds DEF LInv
  <2>2. PICK more \in Int : more = Credit(c)' /\ more <= Credit(c) + DefaultConfig.RPS
    <3>1. CASE limiters[c] = nil
      BY <1>1, <3>1, DefaultLimits DEF Credit
    <3>2. CASE limiters[c] # nil
      <4> DEFINE b == heap[limiters[c]]
      <4>1. /\ b \in TokenBuckets /\ b.refillRate = DefaultConfig.RPS /\ Sane(b, clock)
        BY <1>5, <3>2, BucketInForce
      <4>2. Credit(c) = Refill(b, clock).tokens /\ Credit(c)' = Refill(b, clock + 1).tokens
        BY <1>1, <3>2 DEF Credit
      <4> HIDE DEF b
      <4>3. Refill(b, clock + 1).tokens <= Refill(b, clock).tokens + b.refillRate
        BY <1>1, <4>1, RefillTick
      <4>4. Refill(b, clock + 1) \in TokenBuckets
        <5>1. Sane(b, clock + 1)
          BY <1>1, <1>2, <4>1, SaneLater
        <5> QED
          BY <1>1, <4>1, <5>1, RefillFunds
      <4>5. Refill(b, clock + 1).tokens \in Int
        BY <4>4 DEF TokenBuckets
      <4> QED
        BY <4>1, <4>2, <4>3, <4>5
    <3> QED
      BY <3>1, <3>2
  <2>3. Solvent(spent[c], more, losses, clock + 1)
    BY <1>1, <2>1, <2>2, SolventTick
  <2> QED
    BY <2>2, <2>3
<1> QED
  BY <1>1, <1>3, <1>4, <1>5 DEF LInv

LEMMA StoreStepLInv == SInv /\ EInv /\ LInv /\ DefaultIsBucket /\ StoreStep => LInv'
<1> SUFFICES ASSUME SInv, EInv, LInv, DefaultIsBucket, StoreStep PROVE LInv'
  OBVIOUS
<1>1. CASE Serve
  <2>1. /\ UNCHANGED <<spent, losses, snap, disk>> /\ TypeOK
    BY <1>1 DEF Serve, serverVars, SInv, IInv
  <2>2. CASE UNCHANGED <<heap, limiters, clock, configs, epoch>>
    <3>1. clock \in Nat /\ clock' \in Nat /\ clock <= clock' /\ epoch' = epoch
      BY <2>1, <2>2 DEF TypeOK
    <3>2. SaneCopies'
      BY <2>1, <3>1, CopiesKept DEF LInv
    <3> QED
      BY <2>1, <2>2, <3>2, QuietLInv
  <2>3. ASSUME NEW c \in Clients, RemoveClient(c) PROVE LInv'
    BY <2>1, <2>3, ChangeLInv DEF RemoveClient
  <2>4. ASSUME NEW c \in Clients, NEW cfg \in Configs, SetConfig(c, cfg) PROVE LInv'
    BY <2>1, <2>4, ChangeLInv DEF SetConfig
  <2>5. ASSUME NEW g \in Goroutines, NEW a \in Addresses \ (Reachable \cup Copied), Create(g, a)
        PROVE  LInv'
    BY <2>1, <2>5, CreateLInv
  <2> QED
    BY <1>1, <2>2, <2>3, <2>4, <2>5 DEF Serve, Arrive, Get, Record, observers
<1>2. ASSUME NEW g \in Goroutines, ServeDecide(g) PROVE LInv'
  BY <1>2, DecideLInv
<1>3. CASE Wait
  BY <1>3, TickLInv
<1> QED
  BY <1>1, <1>2, <1>3 DEF StoreStep

\* A snapshot that begins copies no Config of a client that never had one; what it
\* reads of a limiter is sane.
LEMMA SnapshotLInv ==
  ASSUME SInv, LInv, NEW s \in Snapshotters,
         \/ SnapBegin(s)
         \/ \E c \in Clients : SnapRead(s, c)
         \/ \E ok \in BOOLEAN : SnapSave(s, ok)
  PROVE  LInv'
<1>0. /\ UNCHANGED <<vars, spent, losses>> /\ TypeOK /\ SaneStore
      /\ DOMAIN snap = Snapshotters
  BY DEF SnapBegin, SnapRead, SnapSave, SInv, IInv, LInv
<1>1. ASSUME SnapBegin(s) PROVE SaneCopies'
  <2> DEFINE n == [pc |-> "read", configs |-> configs, lims |-> limiters,
                   states |-> [c \in Clients |-> nil]]
  <2>1. snap' = [snap EXCEPT ![s] = n] /\ disk' = disk
    BY <1>1 DEF SnapBegin
  <2>2. SaneCopy(n.configs, n.states, epoch, clock)
    BY DEF LInv, SaneCopy
  <2> HIDE DEF n
  <2> QED
    BY <1>0, <2>1, <2>2 DEF LInv, SaneCopies, vars
<1>2. ASSUME NEW c \in Clients, SnapRead(s, c) PROVE SaneCopies'
  <2> DEFINE lim == heap[snap[s].lims[c]]
             all == [snap[s].states EXCEPT ![c] = LimiterState(lim)]
             n   == [snap[s] EXCEPT !.states = all]
  <2>1. /\ snap' = [snap EXCEPT ![s] = n] /\ disk' = disk
        /\ snap[s].pc = "read" /\ snap[s].lims[c] # nil
    BY <1>2 DEF SnapRead
  <2>2. CopyHolds(s) /\ snap[s] # NoSnap
    BY <2>1 DEF SInv, NoSnap
  <2>3. lim \in Limiters /\ Sane(lim, clock)
    BY <1>0, <2>1, <2>2 DEF CopyHolds, SaneStore
  <2>4. LimiterFromState(LimiterState(lim)) = lim
    BY <2>3, StateRoundTrip
  <2>5. SaneCopy(snap[s].configs, snap[s].states, epoch, clock)
        /\ snap[s].states \in [Clients -> LimiterStates \cup {nil}]
    BY <2>2 DEF LInv, SaneCopies, CopyHolds, StatesFor
  <2> HIDE DEF lim
  <2>6. SaneCopy(snap[s].configs, all, epoch, clock)
    BY <2>3, <2>4, <2>5 DEF SaneCopy
  <2> HIDE DEF all
  <2>7. n.configs = snap[s].configs /\ n.states = all
    BY <2>2 DEF CopyHolds
  <2> HIDE DEF n
  <2>8. SaneCopy(n.configs, n.states, epoch, clock)
    BY <2>6, <2>7
  <2> QED
    BY <1>0, <2>1, <2>8 DEF LInv, SaneCopies, vars
<1>3. ASSUME NEW ok \in BOOLEAN, SnapSave(s, ok) PROVE SaneCopies'
  <2>1. /\ snap' = [snap EXCEPT ![s] = NoSnap] /\ disk' \in {Collected(s), disk}
        /\ snap[s] # NoSnap
    BY <1>3 DEF SnapSave, NoSnap
  <2>2. SaneCopy(Collected(s).configs, Collected(s).limiters, epoch, clock)
    BY <2>1 DEF LInv, SaneCopies, Collected
  <2> QED
    BY <1>0, <2>1, <2>2 DEF LInv, SaneCopies, vars
<1>4. SaneCopies'
  BY <1>1, <1>2, <1>3
<1> QED
  BY <1>0, <1>4, QuietLInv DEF vars

\* A start gives each client what it had when the process ended, or at most a full
\* bucket more.
LEMMA StartLInv ==
  ASSUME SInv, CInv, LInv, DefaultIsBucket, NEW readable \in BOOLEAN, Start(readable)
  PROVE  LInv'
<1> DEFINE loaded == Load(readable)
<1>0. TypeOK /\ Restorable(loaded)
  BY LoadRestorable DEF SInv, IInv
<1>1. /\ phase = "down" /\ configs' = loaded.configs
      /\ losses' = losses + (IF loaded = atDeath THEN 0 ELSE 1)
      /\ UNCHANGED <<clock, epoch, spent, snap, disk>>
  BY DEF Start
<1>2. /\ \A c \in Clients :
           IF loaded.limiters[c] = nil THEN limiters'[c] = nil
           ELSE /\ limiters'[c] \in Addresses
                /\ heap'[limiters'[c]] = LimiterFromState(loaded.limiters[c])
      /\ \A a \in Addresses :
           heap'[a] = nil \/ \E c \in Clients : loaded.limiters[c] # nil /\ limiters'[c] = a
  BY <1>0, StartMaps
<1>3. SaneCopy(loaded.configs, loaded.limiters, epoch, clock)
  <2>1. SaneCopy(EmptyState.configs, EmptyState.limiters, epoch, clock)
    BY DEF SaneCopy, EmptyState
  <2> QED
    BY <2>1 DEF Load, LInv, SaneCopies
<1>4. atDeath = PersistedState
  BY <1>1 DEF CInv, LastSnapshot
<1> HIDE DEF loaded
<1>5. ASSUME NEW c \in Clients, loaded.limiters[c] # nil
      PROVE  /\ limiters'[c] \in Addresses /\ limiters'[c] # nil
             /\ heap'[limiters'[c]] = LimiterFromState(loaded.limiters[c])
             /\ LimiterFromState(loaded.limiters[c]) \in Limiters
             /\ Sane(LimiterFromState(loaded.limiters[c]), clock)
             /\ BuiltFrom(LimiterFromState(loaded.limiters[c]), ConfigIn(loaded.configs, c))
  <2>1. limiters'[c] \in Addresses
        /\ heap'[limiters'[c]] = LimiterFromState(loaded.limiters[c])
    BY <1>2, <1>5
  <2>2. loaded.limiters[c] \in LimiterStates
        /\ BuiltFrom(LimiterFromState(loaded.limiters[c]), ConfigIn(loaded.configs, c))
    BY <1>0, <1>5 DEF Restorable, StatesFor
  <2> QED
    BY <1>3, <1>5, <2>1, <2>2, RestoredType, ManagerAssumption DEF SaneCopy
<1>6. SaneStore'
  <2>1. ASSUME NEW a \in Addresses PROVE Sane(heap'[a], clock)
    <3>1. CASE heap'[a] = nil
      BY <3>1, ServerAssumption DEF Sane
    <3>2. CASE \E c \in Clients : loaded.limiters[c] # nil /\ limiters'[c] = a
      <4>1. PICK c \in Clients : loaded.limiters[c] # nil /\ limiters'[c] = a
        BY <3>2
      <4> QED
        BY <1>5, <4>1
    <3> QED
      BY <1>2, <3>1, <3>2
  <2> QED
    BY <1>1, <2>1 DEF SaneStore
<1>7. SaneCopies'
  <2>1. clock \in Nat /\ clock' \in Nat /\ clock <= clock' /\ epoch' = epoch
    BY <1>0, <1>1 DEF TypeOK
  <2> QED
    BY <1>0, <1>1, <2>1, CopiesKept DEF LInv
<1>8. losses' \in Nat /\ spent' \in [Clients -> Nat]
  BY <1>1 DEF LInv
<1>9. ASSUME NEW c \in Clients, epoch[c] = 0
      PROVE  configs'[c] = NoConfig /\ Solvent(spent[c], Credit(c)', losses', clock)
  <2>1. configs'[c] = NoConfig
    BY <1>1, <1>3, <1>9 DEF SaneCopy
  <2>2. /\ Solvent(spent[c], Credit(c), losses, clock) /\ spent[c] \in Nat /\ losses \in Nat
        /\ Credit(c) \in Int /\ 0 <= Credit(c) /\ clock \in Nat
    BY <1>0, <1>9, CreditBounds DEF LInv, TypeOK
  <2>3. CASE loaded = atDeath
    <3>1. losses' = losses
      BY <1>1, <2>2, <2>3
    <3>2. loaded.limiters[c] = IF limiters[c] = nil THEN nil ELSE LimiterState(heap[limiters[c]])
      BY <1>4, <2>3 DEF PersistedState
    <3>3. CASE limiters[c] = nil
      <4>1. limiters'[c] = nil
        BY <1>2, <3>2, <3>3
      <4>2. Credit(c)' = Credit(c)
        BY <3>3, <4>1 DEF Credit
      <4> QED
        BY <2>1, <2>2, <3>1, <4>2
    <3>4. CASE limiters[c] # nil
      <4>1. heap[limiters[c]] \in Limiters
        BY <3>4 DEF SInv, IInv, Links
      <4>2. /\ loaded.limiters[c] \in LimiterStates
            /\ LimiterFromState(loaded.limiters[c]) = heap[limiters[c]]
        BY <3>2, <3>4, <4>1, StateRoundTrip
      <4>3. limiters'[c] # nil /\ heap'[limiters'[c]] = heap[limiters[c]]
        BY <1>5, <4>2, ServerAssumption
      <4>4. Credit(c)' = Credit(c)
        BY <1>1, <3>4, <4>3 DEF Credit
      <4> QED
        BY <2>1, <2>2, <3>1, <4>4
    <3> QED
      BY <3>3, <3>4
  <2>4. CASE loaded # atDeath
    <3>1. losses' = losses + 1
      BY <1>1, <2>4
    <3>2. PICK more \in Int : more = Credit(c)' /\ more <= DefaultConfig.Burst
      <4>1. CASE loaded.limiters[c] = nil
        BY <1>2, <4>1, DefaultLimits DEF Credit
      <4>2. CASE loaded.limiters[c] # nil
        <5> DEFINE b == LimiterFromState(loaded.limiters[c])
        <5>1. ConfigIn(loaded.configs, c) = DefaultConfig
          BY <1>1, <2>1 DEF ConfigIn
        <5>2. b \in Limiters /\ Sane(b, clock) /\ BuiltFrom(b, DefaultConfig)
          BY <1>5, <4>2, <5>1
        <5>3. Credit(c)' = Refill(b, clock).tokens
          BY <1>1, <1>5, <4>2 DEF Credit
        <5> HIDE DEF b
        <5>4. b \in TokenBuckets /\ b.capacity = DefaultConfig.Burst
          BY <5>2
          DEF BuiltFrom, DefaultIsBucket, Limiters, SlidingWindows, AlgorithmSlidingWindow,
              AlgorithmTokenBucket
        <5>5. /\ Refill(b, clock) \in TokenBuckets
              /\ Refill(b, clock).tokens <= DefaultConfig.Burst
          BY <2>2, <5>2, <5>4, RefillFunds
        <5>6. Refill(b, clock).tokens \in Int
          BY <5>5 DEF TokenBuckets
        <5> QED
          BY <5>3, <5>5, <5>6
      <4> QED
        BY <4>1, <4>2
    <3>3. Solvent(spent[c], more, losses + 1, clock)
      BY <2>2, <3>2, SolventLoss
    <3> QED
      BY <2>1, <3>1, <3>2, <3>3
  <2> QED
    BY <2>3, <2>4
<1> QED
  BY <1>1, <1>6, <1>7, <1>8, <1>9 DEF LInv

\* The end of the process takes nothing from the store.
LEMMA DieLInv ==
  ASSUME LInv, NEW cleanly, Die(cleanly)
  PROVE  LInv'
<1>1. /\ UNCHANGED <<heap, limiters, clock, spent, losses, configs, epoch, disk>>
      /\ \A s \in Snapshotters : snap'[s] = NoSnap
  BY DEF Die, observers
<1>2. SaneCopies'
  BY <1>1 DEF LInv, SaneCopies
<1> QED
  BY <1>1, <1>2, QuietLInv

LEMMA InitLInv == ServerInit => LInv
<1> SUFFICES ASSUME ServerInit PROVE LInv
  OBVIOUS
<1>1. /\ \A c \in Clients : limiters[c] = nil /\ configs[c] = NoConfig /\ spent[c] = 0
      /\ \A a \in Addresses : heap[a] = nil
      /\ losses = 0 /\ clock = 0 /\ disk = NoFile
      /\ \A s \in Snapshotters : snap[s] = NoSnap
      /\ spent \in [Clients -> Nat]
  BY DEF ServerInit, Init
<1>2. SaneStore
  BY <1>1, ServerAssumption DEF SaneStore, Sane
<1>3. SaneCopies
  BY <1>1 DEF SaneCopies
<1>4. ASSUME NEW c \in Clients PROVE Solvent(spent[c], Credit(c), losses, clock)
  <2>1. Credit(c) = DefaultConfig.Burst
    BY <1>1 DEF Credit
  <2>2. 0 * Unit + DefaultConfig.Burst <= DefaultConfig.Burst * (0 + 1) + DefaultConfig.RPS * 0
    BY DefaultLimits
  <2> QED
    BY <1>1, <2>1, <2>2 DEF Solvent
<1> QED
  BY <1>1, <1>2, <1>3, <1>4 DEF LInv

LEMMA StepLInv ==
  DefaultIsBucket /\ SInv /\ EInv /\ CInv /\ LInv /\ [ServerNext]_allVars => LInv'
<1> SUFFICES ASSUME DefaultIsBucket, SInv, EInv, CInv, LInv, [ServerNext]_allVars
             PROVE  LInv'
  OBVIOUS
<1>0. TypeOK
  BY DEF SInv, IInv
<1>1. CASE StoreStep
  BY <1>1, StoreStepLInv
<1>2. CASE PeriodicBegin \/ FinalBegin
  BY <1>2, SnapshotLInv DEF PeriodicBegin, FinalBegin, Snapshotters
<1>3. ASSUME NEW s \in Snapshotters,
             (\E c \in Clients : SnapRead(s, c)) \/ \E ok \in BOOLEAN : SnapSave(s, ok)
      PROVE  LInv'
  BY <1>3, SnapshotLInv
<1>4. CASE \/ Signal \/ SnapshotterStop \/ \E timeout \in BOOLEAN : Drained(timeout)
           \/ UNCHANGED allVars
  <2>1. UNCHANGED <<vars, spent, losses, snap, disk>>
    BY <1>4 DEF Signal, SnapshotterStop, Drained, allVars, serverVars
  <2>2. clock \in Nat /\ clock' \in Nat /\ clock <= clock' /\ epoch' = epoch
    BY <1>0, <2>1 DEF TypeOK, vars
  <2>3. SaneCopies'
    BY <1>0, <2>1, <2>2, CopiesKept DEF LInv
  <2> QED
    BY <2>1, <2>3, QuietLInv DEF vars
<1>5. CASE Exit \/ Crash
  BY <1>5, DieLInv DEF Exit, Crash
<1>6. ASSUME NEW readable \in BOOLEAN, Start(readable) PROVE LInv'
  BY <1>6, StartLInv
<1> QED
  BY <1>1, <1>2, <1>3, <1>4, <1>5, <1>6 DEF ServerNext, StoreStep

\* What crashes can cost: over all the lives of the process a client that stayed
\* under DefaultConfig, a token bucket, gets through one bucket, what the rate
\* refills, and at most one more bucket for each start that lost its state; for
\* any number of clients, requests, changes, snapshots, crashes and starts.
THEOREM LossesBounded == DefaultIsBucket /\ ServerSpec => []LossBound
<1>1. SInv /\ LInv /\ DefaultIsBucket => LossBound
  <2> SUFFICES ASSUME SInv, LInv, DefaultIsBucket, NEW c \in Clients, epoch[c] = 0
               PROVE  spent[c] * Unit
                        <= DefaultConfig.Burst * (losses + 1) + DefaultConfig.RPS * clock
    BY DEF LossBound
  <2>1. Credit(c) \in Int /\ 0 <= Credit(c)
    BY CreditBounds
  <2>2. /\ spent[c] * Unit \in Int /\ DefaultConfig.Burst * (losses + 1) \in Int
        /\ DefaultConfig.RPS * clock \in Int
    <3>1. spent[c] \in Nat /\ losses \in Nat /\ clock \in Nat
      BY DEF LInv, SInv, IInv, TypeOK
    <3> QED
      BY <3>1, DefaultLimits, IntProduct
  <2>3. spent[c] * Unit + Credit(c)
          <= DefaultConfig.Burst * (losses + 1) + DefaultConfig.RPS * clock
    BY DEF LInv, Solvent
  <2> QED
    BY <2>1, <2>2, <2>3
<1>2. SUFFICES ASSUME DefaultIsBucket PROVE ServerSpec => []LossBound
  OBVIOUS
<1>3. SInv /\ EInv /\ CInv /\ LInv /\ [ServerNext]_allVars => LInv'
  BY <1>2, StepLInv
<1>4. SInv /\ LInv => LossBound
  BY <1>1, <1>2
<1>5. ServerInit => EInv
  BY InitEInv DEF ServerInit
<1> QED
  BY InitSInv, StepSInv, InitCInv, StepCInv, <1>5, StepServerEInv, InitLInv, <1>3, <1>4, PTL
  DEF ServerSpec
=============================================================================
