---------------------------- MODULE ManagerProofs ----------------------------
(***************************************************************************)
(* Theorems of Manager: its type invariant, that the limiter in the map    *)
(* always enforces the Config in force, that no two limiters are ever made *)
(* for one client between changes, that a change takes effect, that the    *)
(* statistics are exact, what a client gets through under a Config, and    *)
(* that a client under a token-bucket Config has one eager bucket.         *)
(***************************************************************************)
EXTENDS ManagerContract, FiniteSetTheorems, Arithmetic, TLAPS

Limiters == TokenBuckets \cup SlidingWindows

ConfigRecords == [RPS : Int, Burst : Int, Algorithm : Algorithms]

\* Two limiters with the same limits and the same algorithm.
SameLimits(lim, old) ==
  /\ lim.type = old.type
  /\ old.type = AlgorithmTokenBucket =>
       lim.capacity = old.capacity /\ lim.refillRate = old.refillRate
  /\ old.type = AlgorithmSlidingWindow =>
       lim.limit = old.limit /\ lim.window = old.window

\* A limiter built from a valid Config is a limiter and enforces that Config.
LEMMA NewLimiterType ==
  ASSUME NEW cfg, cfg.RPS \in Int, cfg.Burst \in Int, Validate(cfg), NEW now \in Nat
  PROVE  /\ newLimiter(cfg, now) \in Limiters
         /\ BuiltFrom(newLimiter(cfg, now), cfg)
<1>1. AlgorithmSlidingWindow # AlgorithmTokenBucket
  BY DEF AlgorithmSlidingWindow, AlgorithmTokenBucket
<1>2. CASE cfg.Algorithm = AlgorithmSlidingWindow
  <2>1. cfg.Burst \div cfg.RPS \in Int
    BY DEF Validate
  <2>2. ToDuration(cfg.Burst \div cfg.RPS) \in Int
    BY <2>1, DurationAssumption DEF ToDuration
  <2> QED
    BY <1>1, <1>2, <2>2
    DEF newLimiter, NewSlidingWindow, Limiters, SlidingWindows, BuiltFrom
<1>3. CASE cfg.Algorithm = AlgorithmTokenBucket
  BY <1>1, <1>3 DEF newLimiter, NewTokenBucket, Limiters, TokenBuckets, BuiltFrom
<1> QED
  BY <1>2, <1>3 DEF Validate, Algorithms

\* A limiter with the limits of one that enforces a Config enforces it too.
LEMMA SameLimitsBuilt ==
  ASSUME NEW cfg, NEW old, NEW lim, BuiltFrom(old, cfg), SameLimits(lim, old)
  PROVE  BuiltFrom(lim, cfg)
BY Zenon DEF BuiltFrom, SameLimits

\* Rolling to the current window keeps the limit and the window size.
LEMMA RollType ==
  ASSUME NEW lim \in SlidingWindows, NEW now \in Nat
  PROVE  Roll(lim, now) \in SlidingWindows /\ SameLimits(Roll(lim, now), lim)
<1>1. AlgorithmSlidingWindow # AlgorithmTokenBucket
  BY DEF AlgorithmSlidingWindow, AlgorithmTokenBucket
<1> DEFINE afresh  == [lim EXCEPT !.currentCount = 0, !.previousCount = 0,
                                  !.windowStart = now]
           shifted == [lim EXCEPT !.previousCount = lim.currentCount,
                                  !.currentCount = 0,
                                  !.windowStart = @ + lim.window]
<1>2. Roll(lim, now) \in {afresh, shifted, lim}
  BY DEF Roll
<1>0. \A start \in Int, n, m \in Nat :
        [lim EXCEPT !.currentCount = n, !.previousCount = m, !.windowStart = start]
          \in SlidingWindows
  <2> TAKE start \in Int, n, m \in Nat
  <2> DEFINE one   == [lim EXCEPT !.currentCount = n]
             two   == [one EXCEPT !.previousCount = m]
             three == [two EXCEPT !.windowStart = start]
  <2>1. one \in SlidingWindows
    BY DEF SlidingWindows
  <2> HIDE DEF one
  <2>2. two \in SlidingWindows
    BY <2>1 DEF SlidingWindows
  <2> HIDE DEF two
  <2>3. three \in SlidingWindows
    BY <2>2 DEF SlidingWindows
  <2> QED
    BY <2>3 DEF one, two
<1>3. afresh \in SlidingWindows
  <2>1. now \in Int /\ 0 \in Nat
    OBVIOUS
  <2> QED
    BY <1>0, <2>1, Zenon
<1>4. shifted \in SlidingWindows
  <2>1. lim.windowStart + lim.window \in Int /\ lim.currentCount \in Nat
    BY DEF SlidingWindows
  <2>2. shifted = [lim EXCEPT !.currentCount = 0, !.previousCount = lim.currentCount,
                              !.windowStart = lim.windowStart + lim.window]
    BY DEF SlidingWindows
  <2> QED
    BY <1>0, <2>1, <2>2
<1>5. SameLimits(afresh, lim)
  BY SMTT(30) DEF SlidingWindows, SameLimits
<1>6. SameLimits(shifted, lim)
  BY SMTT(30) DEF SlidingWindows, SameLimits
<1>7. SameLimits(lim, lim)
  BY DEF SameLimits
<1> HIDE DEF afresh, shifted
<1> QED
  BY <1>2, <1>3, <1>4, <1>5, <1>6, <1>7

\* Allow leaves a limiter of the same algorithm and limits behind and answers
\* yes or no (tokenbucket.go:90-123, slidingwindow.go:96-161).
LEMMA AllowType ==
  ASSUME NEW lim \in Limiters, NEW now \in Nat
  PROVE  /\ LimiterAllow(lim, now).limiter \in Limiters
         /\ SameLimits(LimiterAllow(lim, now).limiter, lim)
         /\ LimiterAllow(lim, now).decision.Allowed \in BOOLEAN
<1>1. AlgorithmSlidingWindow # AlgorithmTokenBucket
  BY DEF AlgorithmSlidingWindow, AlgorithmTokenBucket
<1>2. CASE lim \in SlidingWindows
  <2> DEFINE rolled == Roll(lim, now)
             yes    == BelowLimit(rolled, now)
             left   == [rolled EXCEPT !.currentCount = @ + (IF yes THEN 1 ELSE 0)]
  <2>1. rolled \in SlidingWindows /\ SameLimits(rolled, lim)
    BY <1>2, RollType
  <2>2. /\ LimiterAllow(lim, now).limiter = left
        /\ LimiterAllow(lim, now).decision.Allowed = yes
    BY <1>2 DEF LimiterAllow, SlidingWindowAllow, SlidingWindows
  <2>3. yes \in BOOLEAN
    BY DEF BelowLimit
  <2> HIDE DEF rolled, yes
  <2>4. left \in SlidingWindows /\ SameLimits(left, rolled)
    BY <1>1, <2>1 DEF SlidingWindows, SameLimits
  <2> QED
    BY <2>1, <2>2, <2>3, <2>4 DEF SameLimits, Limiters
<1>3. CASE lim \in TokenBuckets
  <2> DEFINE full == Refill(lim, now)
             yes  == full.tokens >= Unit
             left == IF yes THEN [full EXCEPT !.tokens = @ - Unit] ELSE full
  <2> DEFINE gain == (now - lim.lastRefill) * lim.refillRate
             held == MinOf(lim.capacity, lim.tokens + gain)
  <2>1. gain \in Int
    BY <1>3 DEF TokenBuckets
  <2>2. full \in TokenBuckets /\ SameLimits(full, lim)
    <3>1. full = [lim EXCEPT !.tokens = held, !.lastRefill = now]
      BY DEF Refill
    <3> HIDE DEF gain, full
    <3>2. held \in Int
      BY <1>3, <2>1 DEF MinOf, TokenBuckets
    <3> HIDE DEF held
    <3> QED
      BY <1>1, <1>3, <3>1, <3>2 DEF TokenBuckets, SameLimits
  <2>3. /\ LimiterAllow(lim, now).limiter = left
        /\ LimiterAllow(lim, now).decision.Allowed = yes
    BY <1>1, <1>3 DEF LimiterAllow, TokenBucketAllow, TokenBuckets
  <2>4. yes \in BOOLEAN
    OBVIOUS
  <2> HIDE DEF full
  <2>5. left \in TokenBuckets /\ SameLimits(left, full)
    BY <1>1, <2>2, UnitAssumption DEF TokenBuckets, SameLimits
  <2> QED
    BY <2>2, <2>3, <2>4, <2>5 DEF SameLimits, Limiters
<1> QED
  BY <1>2, <1>3 DEF Limiters
-----------------------------------------------------------------------------
\* How the parts refer to each other: an address in the map or in a goroutine's
\* hands holds a limiter, a goroutine holds one exactly between its lookup and
\* its answer, and serves a client exactly while it is not idle.
Links ==
  /\ \A c \in Clients : limiters[c] # nil => heap[limiters[c]] \in Limiters
  /\ \A g \in Goroutines :
       /\ pc[g] # "idle" => call[g].client \in Clients
       /\ pc[g] \in {"decide", "record"} => call[g].lim # nil
       /\ call[g].lim # nil => heap[call[g].lim] \in Limiters

Calls == [client : Clients \cup {nil}, lim : Addresses \cup {nil},
          allowed : BOOLEAN, epoch : Nat]

\* The inductive invariant.  LimiterMatchesConfig alone is not inductive: that
\* Decide leaves the limits alone needs the object to be a limiter, and that
\* Create does not overwrite a limiter in use needs Reachable.
IInv == TypeOK /\ Links /\ LimiterMatchesConfig

\* Counting one more decision keeps statistics statistics.
LEMMA CountedType ==
  ASSUME NEW stats \in ClientStats, NEW yes \in BOOLEAN
  PROVE  Counted(stats, yes) \in ClientStats
BY DEF ClientStats, Counted

\* The Config in force is a record with integer limits that passed Validate.
LEMMA ConfigInForce ==
  ASSUME TypeOK, LimiterMatchesConfig, NEW c \in Clients
  PROVE  /\ ConfigOf(c).RPS \in Int /\ ConfigOf(c).Burst \in Int
         /\ Validate(ConfigOf(c))
BY ConfigAssumption DEF TypeOK, LimiterMatchesConfig, ConfigOf

\* Opening an epoch keeps the observers typed (Holding is a finite set).
LEMMA NewEpochType ==
  ASSUME TypeOK, NEW c \in Clients, NewEpoch(c)
  PROVE  /\ epoch' \in [Clients -> Nat]
         /\ watch' \in [Clients -> [start : Nat, held : Nat, passed : Nat]]
<1>1. Cardinality(Holding(c)) \in Nat
  BY ManagerAssumption, FS_Subset, FS_CardinalityType DEF Holding
<1> DEFINE n == Cardinality(Holding(c))
<1> HIDE DEF n
<1>2. /\ epoch' = [epoch EXCEPT ![c] = @ + 1]
      /\ watch' = [watch EXCEPT ![c] = [start |-> clock, held |-> n, passed |-> 0]]
  BY DEF NewEpoch, n
<1>3. n \in Nat
  BY <1>1 DEF n
<1> QED
  BY <1>2, <1>3 DEF TypeOK

\* The empty store satisfies the invariant: the default Config is valid.
LEMMA InitIInv == Init => IInv
BY ConfigAssumption, ManagerAssumption
DEF Init, IInv, TypeOK, Links, LimiterMatchesConfig, ConfigOf, NoCall, NoStats, ClientStats

\* Every action keeps the invariant.
LEMMA StepIInv == IInv /\ [Next]_vars => IInv'
<1> SUFFICES ASSUME IInv, [Next]_vars PROVE IInv'
  OBVIOUS
<1>0. TypeOK /\ Links /\ LimiterMatchesConfig
  BY DEF IInv
<1>1. ASSUME NEW g \in Goroutines, NEW c \in Clients, Arrive(g, c) PROVE IInv'
  <2>1. TypeOK'
    <3> DEFINE new == [NoCall EXCEPT !.client = c, !.epoch = epoch[c]]
    <3>1. new \in Calls
      BY <1>0 DEF NoCall, Calls, TypeOK
    <3>2. /\ call' = [call EXCEPT ![g] = new]
          /\ pc' = [pc EXCEPT ![g] = "lookup"]
          /\ arrived' = arrived + 1
          /\ UNCHANGED <<configs, limiters, heap, counts, clock, epoch, made,
                         decided, watch>>
      BY <1>1 DEF Arrive
    <3> HIDE DEF new
    <3> QED
      BY <1>0, <3>1, <3>2 DEF TypeOK, Calls
  <2>2. Links'
    BY <1>0, <1>1, ManagerAssumption DEF Arrive, TypeOK, Links, NoCall
  <2>3. LimiterMatchesConfig'
    BY <1>0, <1>1 DEF Arrive, LimiterMatchesConfig, ConfigOf
  <2> QED
    BY <2>1, <2>2, <2>3 DEF IInv
<1>2. ASSUME NEW g \in Goroutines, Get(g) PROVE IInv'
  <2>0. call[g].client \in Clients /\ limiters[call[g].client] \in Addresses
    BY <1>0, <1>2 DEF Get, Links, TypeOK
  <2>1. TypeOK'
    <3> DEFINE a == limiters[call[g].client]
    <3>1. a \in Addresses
      BY <2>0
    <3>2. /\ call' = [call EXCEPT ![g].lim = a]
          /\ pc' = [pc EXCEPT ![g] = "decide"]
          /\ UNCHANGED <<configs, limiters, heap, counts, clock, observers>>
      BY <1>2 DEF Get
    <3> HIDE DEF a
    <3> QED
      BY <1>0, <3>1, <3>2 DEF TypeOK, observers
  <2>2. Links'
    BY <1>0, <1>2, <2>0 DEF Get, TypeOK, Links, observers
  <2>3. LimiterMatchesConfig'
    BY <1>0, <1>2 DEF Get, LimiterMatchesConfig, ConfigOf
  <2> QED
    BY <2>1, <2>2, <2>3 DEF IInv
<1>3. ASSUME NEW g \in Goroutines, NEW a \in Addresses \ Reachable, Create(g, a)
      PROVE  IInv'
  <2> DEFINE c     == call[g].client
             fresh == newLimiter(ConfigOf(c), clock)
  <2>0. c \in Clients
    BY <1>0, <1>3 DEF Create, Absent, Links
  <2>1. fresh \in Limiters /\ BuiltFrom(fresh, ConfigOf(c))
    BY <1>0, <2>0, ConfigInForce, NewLimiterType DEF TypeOK
  <2> HIDE DEF fresh
  <2>2. /\ heap' = [heap EXCEPT ![a] = fresh]
        /\ limiters' = [limiters EXCEPT ![c] = a]
        /\ call' = [call EXCEPT ![g].lim = a]
        /\ pc' = [pc EXCEPT ![g] = "decide"]
        /\ made' = [made EXCEPT ![a] = [client |-> c, epoch |-> epoch[c]]]
        /\ UNCHANGED <<configs, counts, clock, arrived, epoch, decided, watch>>
    BY <1>3 DEF Create, Absent, fresh
  <2>3. TypeOK'
    <3>1. heap' \in [Addresses -> TokenBuckets \cup SlidingWindows \cup {nil}]
      BY <1>0, <2>1, <2>2 DEF TypeOK, Limiters
    <3>2. limiters' \in [Clients -> Addresses \cup {nil}]
      BY <1>0, <2>2 DEF TypeOK
    <3>3. call' \in [Goroutines -> Calls]
      <4> DEFINE found == [call[g] EXCEPT !.lim = a]
      <4>1. call[g] \in Calls
        BY <1>0 DEF TypeOK, Calls
      <4>2. found \in Calls
        BY <4>1 DEF Calls
      <4>3. call' = [call EXCEPT ![g] = found]
        BY <2>2
      <4> HIDE DEF found
      <4> QED
        BY <1>0, <4>2, <4>3 DEF TypeOK, Calls
    <3>4. made' \in [Addresses -> [client : Clients \cup {nil}, epoch : Nat]]
      BY <1>0, <2>0, <2>2 DEF TypeOK
    <3>5. pc' \in [Goroutines -> {"idle", "lookup", "decide", "record"}]
      BY <1>0, <2>2 DEF TypeOK
    <3> QED
      BY <1>0, <2>2, <3>1, <3>2, <3>3, <3>4, <3>5 DEF TypeOK, Calls
  <2>4. /\ \A d \in Clients : limiters[d] # a
        /\ \A h \in Goroutines : call[h].lim # a
    BY DEF Reachable
  <2>5. Links'
    BY <1>0, <2>0, <2>1, <2>2, <2>4, ManagerAssumption DEF TypeOK, Links
  <2>6. LimiterMatchesConfig'
    <3> SUFFICES ASSUME NEW d \in Clients
                 PROVE  /\ Validate(ConfigOf(d))'
                        /\ limiters'[d] # nil =>
                             BuiltFrom(heap'[limiters'[d]], ConfigOf(d)')
      BY DEF LimiterMatchesConfig
    <3>1. ConfigOf(d)' = ConfigOf(d) /\ Validate(ConfigOf(d))
      BY <1>0, <2>2 DEF ConfigOf, LimiterMatchesConfig
    <3>2. CASE d = c
      BY <1>0, <2>0, <2>1, <2>2, <3>1, <3>2 DEF TypeOK
    <3>3. CASE d # c
      BY <1>0, <2>0, <2>2, <2>4, <3>1, <3>3 DEF TypeOK, LimiterMatchesConfig
    <3> QED
      BY <3>1, <3>2, <3>3
  <2> QED
    BY <2>3, <2>5, <2>6 DEF IInv
<1>4. ASSUME NEW g \in Goroutines, Decide(g) PROVE IInv'
  <2> DEFINE c    == call[g].client
             lim  == call[g].lim
             left == LimiterAllow(heap[lim], clock).limiter
             yes  == LimiterAllow(heap[lim], clock).decision.Allowed
  <2>0. c \in Clients /\ lim \in Addresses /\ heap[lim] \in Limiters /\ clock \in Nat
    BY <1>0, <1>4 DEF Decide, Links, TypeOK
  <2>1. left \in Limiters /\ SameLimits(left, heap[lim]) /\ yes \in BOOLEAN
    BY <2>0, AllowType
  <2> HIDE DEF left, yes
  <2>2. /\ heap' = [heap EXCEPT ![lim] = left]
        /\ call' = [call EXCEPT ![g].allowed = yes]
        /\ pc[g] = "decide"
        /\ pc' = [pc EXCEPT ![g] = "record"]
        /\ decided' = [decided EXCEPT ![c] = Counted(@, yes)]
        /\ watch' = [watch EXCEPT ![c].passed = IF yes THEN @ + 1 ELSE @]
        /\ UNCHANGED <<configs, limiters, counts, clock, arrived, epoch, made>>
    BY <1>4 DEF Decide, left, yes
  <2>3. TypeOK'
    <3>1. decided' \in [Clients -> ClientStats]
      BY <1>0, <2>0, <2>1, <2>2, CountedType DEF TypeOK
    <3>2. watch' \in [Clients -> [start : Nat, held : Nat, passed : Nat]]
      <4> DEFINE seen == [watch[c] EXCEPT !.passed = IF yes THEN @ + 1 ELSE @]
      <4>1. watch[c] \in [start : Nat, held : Nat, passed : Nat]
        BY <1>0, <2>0 DEF TypeOK
      <4>2. seen \in [start : Nat, held : Nat, passed : Nat]
        BY <2>1, <4>1
      <4>3. watch' = [watch EXCEPT ![c] = seen]
        BY <2>2
      <4> HIDE DEF seen
      <4> QED
        BY <1>0, <4>2, <4>3 DEF TypeOK
    <3>3. heap' \in [Addresses -> TokenBuckets \cup SlidingWindows \cup {nil}]
      BY <1>0, <2>0, <2>1, <2>2 DEF TypeOK, Limiters
    <3>4. call' \in [Goroutines -> Calls]
      <4> DEFINE answer == [call[g] EXCEPT !.allowed = yes]
      <4>1. call[g] \in Calls
        BY <1>0 DEF TypeOK, Calls
      <4>2. answer \in Calls
        BY <2>1, <4>1 DEF Calls
      <4>3. call' = [call EXCEPT ![g] = answer]
        BY <2>2
      <4> HIDE DEF answer
      <4> QED
        BY <1>0, <4>2, <4>3 DEF TypeOK, Calls
    <3>5. pc' \in [Goroutines -> {"idle", "lookup", "decide", "record"}]
      BY <1>0, <2>2 DEF TypeOK
    <3> QED
      BY <1>0, <2>2, <3>1, <3>2, <3>3, <3>4, <3>5 DEF TypeOK, Calls
  <2>4. Links'
    BY <1>0, <2>0, <2>1, <2>2 DEF TypeOK, Links
  <2>5. LimiterMatchesConfig'
    <3> SUFFICES ASSUME NEW d \in Clients
                 PROVE  /\ Validate(ConfigOf(d))'
                        /\ limiters'[d] # nil =>
                             BuiltFrom(heap'[limiters'[d]], ConfigOf(d)')
      BY DEF LimiterMatchesConfig
    <3>1. ConfigOf(d)' = ConfigOf(d) /\ Validate(ConfigOf(d))
      BY <1>0, <2>2 DEF ConfigOf, LimiterMatchesConfig
    <3>2. limiters[d] # nil => BuiltFrom(heap[limiters[d]], ConfigOf(d))
      BY <1>0 DEF LimiterMatchesConfig
    <3>3. CASE limiters[d] = lim
      BY <1>0, <2>0, <2>1, <2>2, <3>1, <3>2, <3>3 DEF TypeOK, BuiltFrom, SameLimits
    <3>4. CASE limiters[d] # lim
      BY <1>0, <2>0, <2>2, <3>1, <3>2, <3>4 DEF TypeOK
    <3> QED
      BY <3>1, <3>3, <3>4
  <2> QED
    BY <2>3, <2>4, <2>5 DEF IInv
<1>5. ASSUME NEW g \in Goroutines, Record(g) PROVE IInv'
  <2>0. call[g].client \in Clients /\ call[g].allowed \in BOOLEAN
    BY <1>0, <1>5 DEF Record, Links, TypeOK
  <2>1. counts' \in [Clients -> ClientStats]
    BY <1>0, <1>5, <2>0, CountedType DEF Record, TypeOK
  <2>2. TypeOK'
    BY <1>0, <1>5, <2>1 DEF Record, TypeOK, NoCall, observers
  <2>3. Links'
    BY <1>0, <1>5, ManagerAssumption DEF Record, TypeOK, Links, NoCall, observers
  <2>4. LimiterMatchesConfig'
    BY <1>0, <1>5 DEF Record, LimiterMatchesConfig, ConfigOf
  <2> QED
    BY <2>2, <2>3, <2>4 DEF IInv
<1>6. ASSUME NEW c \in Clients, NEW cfg \in Configs, SetConfig(c, cfg) PROVE IInv'
  <2>1. /\ Validate(cfg) /\ cfg # NoConfig
        /\ configs' = [configs EXCEPT ![c] = cfg]
        /\ limiters' = [limiters EXCEPT ![c] = nil]
        /\ UNCHANGED <<heap, counts, pc, call, clock, arrived, made, decided>>
    BY <1>6, ConfigAssumption DEF SetConfig, Discard
  <2>2. TypeOK'
    BY <1>0, <1>6, <2>1, NewEpochType DEF TypeOK, SetConfig, Discard
  <2>3. Links'
    BY <1>0, <2>1 DEF TypeOK, Links
  <2>4. LimiterMatchesConfig'
    BY <1>0, <2>1 DEF TypeOK, LimiterMatchesConfig, ConfigOf
  <2> QED
    BY <2>2, <2>3, <2>4 DEF IInv
<1>7. ASSUME NEW c \in Clients, RemoveClient(c) PROVE IInv'
  <2>1. /\ configs' = [configs EXCEPT ![c] = NoConfig]
        /\ limiters' = [limiters EXCEPT ![c] = nil]
        /\ UNCHANGED <<heap, counts, pc, call, clock, arrived, made, decided>>
    BY <1>7 DEF RemoveClient, Discard
  <2>2. TypeOK'
    BY <1>0, <1>7, <2>1, NewEpochType DEF TypeOK, RemoveClient, Discard
  <2>3. Links'
    BY <1>0, <2>1 DEF TypeOK, Links
  <2>4. LimiterMatchesConfig'
    BY <1>0, <2>1, ConfigAssumption DEF TypeOK, LimiterMatchesConfig, ConfigOf
  <2> QED
    BY <2>2, <2>3, <2>4 DEF IInv
<1>8. CASE Tick
  <2>1. TypeOK'
    BY <1>0, <1>8 DEF Tick, TypeOK, observers
  <2>2. Links'
    BY <1>0, <1>8 DEF Tick, Links
  <2>3. LimiterMatchesConfig'
    BY <1>0, <1>8 DEF Tick, LimiterMatchesConfig, ConfigOf
  <2> QED
    BY <2>1, <2>2, <2>3 DEF IInv
<1>9. CASE UNCHANGED vars
  BY <1>0, <1>9 DEF vars, IInv, TypeOK, Links, LimiterMatchesConfig, ConfigOf
<1> QED
  BY <1>1, <1>2, <1>3, <1>4, <1>5, <1>6, <1>7, <1>8, <1>9 DEF Next, Step

\* Type correctness of the store, for any clients, goroutines and Configs.
THEOREM TypeCorrect == Spec => []TypeOK
<1>1. IInv => TypeOK
  BY DEF IInv
<1> QED
  BY InitIInv, StepIInv, <1>1, PTL DEF Spec

\* The limiter in the map always enforces the Config in force, and that Config
\* is valid, whatever requests, changes and removals are under way.
THEOREM ConfigEnforced == Spec => []LimiterMatchesConfig
<1>1. IInv => LimiterMatchesConfig
  BY DEF IInv
<1> QED
  BY InitIInv, StepIInv, <1>1, PTL DEF Spec
-----------------------------------------------------------------------------
\* What the observers know: a limiter something refers to was made for a client
\* in an epoch that is not over for longer than the current one, it is the one in
\* the map if it was made in the current epoch, and no request is ahead of the
\* epoch of its client.
Epochs ==
  /\ \A a \in Reachable \ {nil} :
       /\ made[a].client \in Clients
       /\ made[a].epoch <= epoch[made[a].client]
       /\ made[a].epoch = epoch[made[a].client] => limiters[made[a].client] = a
  /\ \A g \in Goroutines : pc[g] # "idle" => call[g].epoch <= epoch[call[g].client]

\* OneLimiterPerEpoch is not inductive: a new limiter could repeat the epoch of
\* one a goroutine still holds, did Epochs not say that one is in the map.
EInv == Epochs /\ OneLimiterPerEpoch /\ ChangeTakesEffect

LEMMA InitEInv == Init => EInv
BY ManagerAssumption
DEF Init, EInv, Epochs, OneLimiterPerEpoch, ChangeTakesEffect, Reachable, NoCall

\* An action that makes no limiter and opens no epoch, and after which
\* goroutines hold only limiters they held before, keeps EInv.
LEMMA NothingMade ==
  ASSUME EInv, UNCHANGED <<limiters, made, epoch>>,
         \A g \in Goroutines :
           /\ call'[g].lim \in {call[g].lim, nil}
           /\ call'[g].lim # nil => call'[g].client = call[g].client
           /\ pc'[g] # "idle" => call'[g].epoch <= epoch[call'[g].client]
           /\ pc'[g] \in {"decide", "record"} =>
                pc[g] \in {"decide", "record"} /\ call'[g].lim = call[g].lim
                  /\ call'[g].epoch = call[g].epoch
  PROVE  EInv'
<1>1. Reachable' \subseteq Reachable \cup {nil}
  BY DEF Reachable
<1>2. Epochs'
  BY <1>1 DEF EInv, Epochs
<1>3. OneLimiterPerEpoch'
  BY <1>1 DEF EInv, OneLimiterPerEpoch
<1>4. ChangeTakesEffect'
  BY DEF EInv, ChangeTakesEffect
<1> QED
  BY <1>2, <1>3, <1>4 DEF EInv

\* A change of configuration drops the client's limiter from the map and opens
\* an epoch later than that of every limiter still held.
LEMMA EpochOpened ==
  ASSUME EInv, TypeOK, Links, NEW c \in Clients,
         limiters' = [limiters EXCEPT ![c] = nil],
         epoch' = [epoch EXCEPT ![c] = @ + 1],
         UNCHANGED <<made, pc, call>>
  PROVE  EInv'
<1>1. Reachable' \subseteq Reachable \cup {nil}
  BY DEF Reachable, TypeOK
<1>2. \A d \in Clients : epoch[d] \in Nat /\ epoch'[d] \in Nat
                         /\ epoch'[d] = IF d = c THEN epoch[d] + 1 ELSE epoch[d]
  BY DEF TypeOK
<1>3. \A d \in Clients, n \in Nat : n <= epoch[d] => n <= epoch'[d]
  BY <1>2
<1>4. \A n \in Nat : n <= epoch[c] => n # epoch'[c]
  BY <1>2
<1>5. \A a \in Addresses : made[a].epoch \in Nat
  BY DEF TypeOK
<1>6. \A g \in Goroutines : call[g].epoch \in Nat
  BY DEF TypeOK
<1>7. Reachable \subseteq Addresses \cup {nil}
  BY DEF Reachable, TypeOK
<1>8. Epochs'
  <2>1. ASSUME NEW a \in Reachable' \ {nil}
        PROVE  /\ made[a].client \in Clients
               /\ made[a].epoch <= epoch'[made[a].client]
               /\ made[a].epoch = epoch'[made[a].client] =>
                    limiters'[made[a].client] = a
    <3>1. /\ made[a].client \in Clients /\ made[a].epoch \in Nat
          /\ made[a].epoch <= epoch[made[a].client]
          /\ made[a].epoch = epoch[made[a].client] => limiters[made[a].client] = a
      BY <1>1, <1>5, <1>7 DEF EInv, Epochs
    <3>2. CASE made[a].client = c
      BY <1>3, <1>4, <3>1, <3>2
    <3>3. CASE made[a].client # c
      BY <1>2, <1>3, <3>1, <3>3 DEF TypeOK
    <3> QED
      BY <3>2, <3>3
  <2>2. ASSUME NEW g \in Goroutines, pc[g] # "idle"
        PROVE  call[g].epoch <= epoch'[call[g].client]
    <3>1. call[g].client \in Clients /\ call[g].epoch <= epoch[call[g].client]
      BY <2>2 DEF EInv, Epochs, Links
    <3> QED
      BY <1>3, <1>6, <3>1
  <2> QED
    BY <2>1, <2>2 DEF Epochs
<1>9. OneLimiterPerEpoch'
  BY <1>1 DEF EInv, OneLimiterPerEpoch, TypeOK
<1>10. ChangeTakesEffect'
  BY DEF EInv, ChangeTakesEffect
<1> QED
  BY <1>8, <1>9, <1>10 DEF EInv

\* A limiter is made at an address nothing refers to, for a client that has none
\* in the map: no limiter of the current epoch can be held by anyone.
LEMMA LimiterMade ==
  ASSUME EInv, TypeOK, Links, NEW g \in Goroutines, NEW a \in Addresses \ Reachable,
         Create(g, a)
  PROVE  EInv'
<1> DEFINE c == call[g].client
<1>0. /\ c \in Clients /\ epoch[c] \in Nat /\ a # nil
      /\ call[g].epoch <= epoch[c] /\ pc[g] = "lookup" /\ limiters[c] = nil
      /\ limiters' = [limiters EXCEPT ![c] = a]
      /\ call' = [call EXCEPT ![g].lim = a]
      /\ pc' = [pc EXCEPT ![g] = "decide"]
      /\ made' = [made EXCEPT ![a] = [client |-> c, epoch |-> epoch[c]]]
      /\ epoch' = epoch
  BY ManagerAssumption DEF Create, Absent, Links, TypeOK, EInv, Epochs
<1>1. Reachable' \subseteq Reachable \cup {a}
  BY <1>0 DEF Reachable, TypeOK
<1>2. /\ made'[a] = [client |-> c, epoch |-> epoch[c]]
      /\ \A b \in Reachable \ {nil} : b \in Addresses /\ b # a /\ made'[b] = made[b]
  BY <1>0 DEF Reachable, TypeOK
<1>3. \A b \in Reachable \ {nil} :
        ~ (made[b].client = c /\ made[b].epoch = epoch[c])
  BY <1>0 DEF EInv, Epochs
<1>4. \A d \in Clients : limiters'[d] = IF d = c THEN a ELSE limiters[d]
  BY <1>0 DEF TypeOK
<1>5. Epochs'
  <2>1. ASSUME NEW b \in Reachable' \ {nil}
        PROVE  /\ made'[b].client \in Clients
               /\ made'[b].epoch <= epoch[made'[b].client]
               /\ made'[b].epoch = epoch[made'[b].client] =>
                    limiters'[made'[b].client] = b
    <3>1. CASE b = a
      BY <1>0, <1>2, <1>4, <3>1
    <3>2. CASE b # a
      BY <1>1, <1>2, <1>3, <1>4, <3>2 DEF EInv, Epochs
    <3> QED
      BY <3>1, <3>2
  <2>2. ASSUME NEW h \in Goroutines, pc'[h] # "idle"
        PROVE  call'[h].epoch <= epoch[call'[h].client]
    BY <1>0, <2>2 DEF EInv, Epochs, TypeOK
  <2> QED
    BY <1>0, <2>1, <2>2 DEF Epochs
<1>6. OneLimiterPerEpoch'
  <2>1. \A b, e \in Reachable' \ {nil} : made'[b] = made'[e] => b = e
    <3> SUFFICES ASSUME NEW b \in Reachable' \ {nil}, NEW e \in Reachable' \ {nil},
                        made'[b] = made'[e]
                 PROVE  b = e
      OBVIOUS
    <3>1. CASE b # a /\ e # a
      BY <1>1, <1>2, <3>1 DEF EInv, OneLimiterPerEpoch
    <3>2. CASE b = a /\ e # a
      BY <1>1, <1>2, <1>3, <3>2
    <3>3. CASE b # a /\ e = a
      BY <1>1, <1>2, <1>3, <3>3
    <3> QED
      BY <3>1, <3>2, <3>3
  <2>2. \A d \in Clients : limiters'[d] # nil =>
          made'[limiters'[d]] = [client |-> d, epoch |-> epoch'[d]]
    BY <1>0, <1>2, <1>4 DEF EInv, OneLimiterPerEpoch, Reachable
  <2>3. \A h \in Goroutines : call'[h].lim # nil =>
          made'[call'[h].lim].client = call'[h].client
    BY <1>0, <1>2 DEF EInv, OneLimiterPerEpoch, Reachable, TypeOK
  <2> QED
    BY <2>1, <2>2, <2>3 DEF OneLimiterPerEpoch
<1>7. ChangeTakesEffect'
  BY <1>0, <1>2, ManagerAssumption DEF EInv, ChangeTakesEffect, Reachable, Links, TypeOK
<1> QED
  BY <1>5, <1>6, <1>7 DEF EInv

\* A goroutine that finds a limiter in the map takes the one of the current epoch.
LEMMA LimiterFound ==
  ASSUME EInv, TypeOK, Links, NEW g \in Goroutines, Get(g)
  PROVE  EInv'
<1> DEFINE c == call[g].client
<1>0. /\ c \in Clients /\ limiters[c] # nil
      /\ call' = [call EXCEPT ![g].lim = limiters[c]]
      /\ pc[g] = "lookup" /\ pc' = [pc EXCEPT ![g] = "decide"]
      /\ UNCHANGED <<limiters, made, epoch>>
  BY DEF Get, Links, observers
<1>1. made[limiters[c]] = [client |-> c, epoch |-> epoch[c]]
  BY <1>0 DEF EInv, OneLimiterPerEpoch
<1>2. Reachable' \subseteq Reachable
  BY <1>0 DEF Reachable, TypeOK
<1>3. Epochs'
  BY <1>0, <1>2 DEF EInv, Epochs, TypeOK
<1>4. OneLimiterPerEpoch'
  BY <1>0, <1>1, <1>2 DEF EInv, OneLimiterPerEpoch, TypeOK
<1>5. ChangeTakesEffect'
  <2>1. call[g].epoch \in Nat /\ call[g].epoch <= epoch[c] /\ epoch[c] \in Nat
    BY <1>0 DEF EInv, Epochs, TypeOK
  <2> QED
    BY <1>0, <1>1, <2>1 DEF EInv, ChangeTakesEffect, TypeOK
<1> QED
  BY <1>3, <1>4, <1>5 DEF EInv

\* Every action keeps EInv.
LEMMA StepEInv == IInv /\ EInv /\ [Next]_vars => EInv'
<1> SUFFICES ASSUME IInv, EInv, [Next]_vars PROVE EInv'
  OBVIOUS
<1>0. TypeOK /\ Links
  BY DEF IInv
<1>1. ASSUME NEW g \in Goroutines, NEW c \in Clients, Arrive(g, c) PROVE EInv'
  <2>1. /\ UNCHANGED <<limiters, made, epoch>>
        /\ call' = [call EXCEPT ![g] = [NoCall EXCEPT !.client = c, !.epoch = epoch[c]]]
        /\ pc' = [pc EXCEPT ![g] = "lookup"]
    BY <1>1 DEF Arrive
  <2>2. epoch[c] <= epoch[c]
    BY <1>0 DEF TypeOK
  <2> QED
    BY <1>0, <2>1, <2>2, NothingMade DEF TypeOK, NoCall, EInv, Epochs
<1>2. ASSUME NEW g \in Goroutines, Get(g) PROVE EInv'
  BY <1>0, <1>2, LimiterFound
<1>3. ASSUME NEW g \in Goroutines, NEW a \in Addresses \ Reachable, Create(g, a)
      PROVE  EInv'
  BY <1>0, <1>3, LimiterMade
<1>4. ASSUME NEW g \in Goroutines, Decide(g) PROVE EInv'
  <2>1. /\ UNCHANGED <<limiters, made, epoch>>
        /\ \E yes : call' = [call EXCEPT ![g].allowed = yes]
        /\ pc[g] = "decide" /\ pc' = [pc EXCEPT ![g] = "record"]
    BY <1>4 DEF Decide
  <2> QED
    BY <1>0, <2>1, NothingMade DEF TypeOK, EInv, Epochs
<1>5. ASSUME NEW g \in Goroutines, Record(g) PROVE EInv'
  <2>1. /\ UNCHANGED <<limiters, made, epoch>>
        /\ call' = [call EXCEPT ![g] = NoCall] /\ pc' = [pc EXCEPT ![g] = "idle"]
    BY <1>5 DEF Record, observers
  <2> QED
    BY <1>0, <2>1, NothingMade DEF TypeOK, NoCall, EInv, Epochs
<1>6. ASSUME NEW c \in Clients, NEW cfg \in Configs, SetConfig(c, cfg) PROVE EInv'
  BY <1>0, <1>6, EpochOpened DEF SetConfig, Discard, NewEpoch
<1>7. ASSUME NEW c \in Clients, RemoveClient(c) PROVE EInv'
  BY <1>0, <1>7, EpochOpened DEF RemoveClient, Discard, NewEpoch
<1>8. CASE Tick
  BY <1>0, <1>8, NothingMade DEF Tick, observers, EInv, Epochs
<1>9. CASE UNCHANGED vars
  BY <1>0, <1>9, NothingMade DEF vars, EInv, Epochs
<1> QED
  BY <1>1, <1>2, <1>3, <1>4, <1>5, <1>6, <1>7, <1>8, <1>9 DEF Next, Step

\* No two limiters are made for a client between configuration changes, and no
\* limiter serves two clients, for any number of goroutines.
THEOREM OneLimiter == Spec => []OneLimiterPerEpoch
<1>1. EInv => OneLimiterPerEpoch
  BY DEF EInv
<1> QED
  BY InitIInv, StepIInv, InitEInv, StepEInv, <1>1, PTL DEF Spec

\* A request that arrives after a change is never decided by a limiter made
\* before it, for any number of goroutines and changes.
THEOREM ChangesTakeEffect == Spec => []ChangeTakesEffect
<1>1. EInv => ChangeTakesEffect
  BY DEF EInv
<1> QED
  BY InitIInv, StepIInv, InitEInv, StepEInv, <1>1, PTL DEF Spec
-----------------------------------------------------------------------------
\* The goroutines that have a decision yes for c and have not recorded it yet.
Pending(c, yes) == {g \in Goroutines : /\ pc[g] = "record"
                                       /\ call[g].client = c
                                       /\ call[g].allowed = yes}

LEMMA PendingFinite ==
  \A c \in Clients, yes \in BOOLEAN :
    IsFiniteSet(Pending(c, yes)) /\ Cardinality(Pending(c, yes)) \in Nat
<1> TAKE c \in Clients, yes \in BOOLEAN
<1>1. Pending(c, yes) \subseteq Goroutines
  BY DEF Pending
<1>2. IsFiniteSet(Pending(c, yes))
  BY <1>1, ManagerAssumption, FS_Subset
<1> QED
  BY <1>2, FS_CardinalityType

\* The count of one client and one outcome.
Count(stats, yes) == IF yes THEN stats.Allowed ELSE stats.Denied

\* StatsExact, outcome by outcome.
Exact(c, yes) ==
  Count(counts[c], yes) + Cardinality(Pending(c, yes)) = Count(decided[c], yes)

LEMMA StatsByOutcome ==
  StatsExact <=> \A c \in Clients, yes \in BOOLEAN : Exact(c, yes)
BY DEF StatsExact, Exact, Pending, Count

LEMMA StatsByOutcomeNext ==
  (\A c \in Clients, yes \in BOOLEAN : Exact(c, yes)') => StatsExact'
BY DEF StatsExact, Exact, Pending, Count

\* Counting a decision adds one to its outcome and leaves the other alone.
LEMMA CountedCount ==
  ASSUME NEW stats \in ClientStats, NEW yes \in BOOLEAN, NEW other \in BOOLEAN
  PROVE  Count(Counted(stats, yes), other)
           = IF other = yes THEN Count(stats, other) + 1 ELSE Count(stats, other)
BY DEF ClientStats, Counted, Count

\* Where a step neither decides nor records, the goroutines with a decision to
\* record stay the same.
LEMMA NothingDecided ==
  ASSUME StatsExact, UNCHANGED <<counts, decided>>,
         \A g \in Goroutines :
           /\ pc'[g] = "record" <=> pc[g] = "record"
           /\ pc[g] = "record" => call'[g].client = call[g].client
                                    /\ call'[g].allowed = call[g].allowed
  PROVE  StatsExact'
<1>1. \A c \in Clients, yes \in BOOLEAN : Pending(c, yes)' = Pending(c, yes)
  BY DEF Pending
<1>2. \A c \in Clients, yes \in BOOLEAN : Exact(c, yes)'
  BY <1>1, StatsByOutcome DEF Exact
<1> QED
  BY <1>2, StatsByOutcomeNext

\* A decision is counted by the observer and is pending from then on.
LEMMA DecisionPending ==
  ASSUME IInv, StatsExact, NEW g \in Goroutines, Decide(g)
  PROVE  StatsExact'
<1> DEFINE c == call[g].client
           answer == LimiterAllow(heap[call[g].lim], clock).decision.Allowed
<1>0. /\ TypeOK /\ c \in Clients /\ call[g].lim \in Addresses
      /\ heap[call[g].lim] \in Limiters /\ clock \in Nat
  BY DEF IInv, Decide, Links, TypeOK
<1>1. answer \in BOOLEAN
  BY <1>0, AllowType
<1> HIDE DEF answer
<1>2. /\ call' = [call EXCEPT ![g].allowed = answer]
      /\ pc[g] = "decide" /\ pc' = [pc EXCEPT ![g] = "record"]
      /\ decided' = [decided EXCEPT ![c] = Counted(@, answer)]
      /\ counts' = counts
  BY DEF Decide, answer
<1>3. ASSUME NEW d \in Clients, NEW yes \in BOOLEAN
      PROVE  Exact(d, yes)'
  <2>1. Pending(d, yes)' = IF d = c /\ yes = answer THEN Pending(d, yes) \cup {g}
                                                   ELSE Pending(d, yes)
    BY <1>0, <1>2 DEF Pending, TypeOK
  <2>2. g \notin Pending(d, yes)
    BY <1>2 DEF Pending
  <2>3. Count(decided'[d], yes) = IF d = c /\ yes = answer THEN Count(decided[d], yes) + 1
                                                          ELSE Count(decided[d], yes)
    BY <1>0, <1>1, <1>2, CountedCount DEF TypeOK
  <2>4. Exact(d, yes)
    BY StatsByOutcome
  <2>5. IsFiniteSet(Pending(d, yes)) /\ Cardinality(Pending(d, yes)) \in Nat
    BY PendingFinite
  <2>6. Cardinality(Pending(d, yes) \cup {g}) = Cardinality(Pending(d, yes)) + 1
    BY <2>2, <2>5, FS_AddElement
  <2>7. Count(counts[d], yes) \in Nat /\ Count(decided[d], yes) \in Nat
    BY <1>0 DEF TypeOK, ClientStats, Count
  <2> QED
    BY <1>2, <2>1, <2>3, <2>4, <2>5, <2>6, <2>7 DEF Exact
<1> QED
  BY <1>3, StatsByOutcomeNext

\* A recorded decision is counted in the statistics and pending no more.
LEMMA DecisionRecorded ==
  ASSUME IInv, StatsExact, NEW g \in Goroutines, Record(g)
  PROVE  StatsExact'
<1> DEFINE c      == call[g].client
           answer == call[g].allowed
<1>0. TypeOK /\ c \in Clients /\ answer \in BOOLEAN
  BY DEF IInv, Record, Links, TypeOK
<1>2. /\ pc[g] = "record" /\ pc' = [pc EXCEPT ![g] = "idle"]
      /\ counts' = [counts EXCEPT ![c] = Counted(@, answer)]
      /\ call' = [call EXCEPT ![g] = NoCall] /\ decided' = decided
  BY DEF Record, observers
<1>3. ASSUME NEW d \in Clients, NEW yes \in BOOLEAN
      PROVE  Exact(d, yes)'
  <2>1. Pending(d, yes)' = Pending(d, yes) \ {g}
    BY <1>0, <1>2 DEF Pending, TypeOK
  <2>2. g \in Pending(d, yes) <=> d = c /\ yes = answer
    BY <1>2 DEF Pending
  <2>3. Count(counts'[d], yes) = IF d = c /\ yes = answer THEN Count(counts[d], yes) + 1
                                                         ELSE Count(counts[d], yes)
    BY <1>0, <1>2, CountedCount DEF TypeOK
  <2>4. Exact(d, yes)
    BY StatsByOutcome
  <2>5. IsFiniteSet(Pending(d, yes)) /\ Cardinality(Pending(d, yes)) \in Nat
    BY PendingFinite
  <2>6. Cardinality(Pending(d, yes) \ {g})
          = IF g \in Pending(d, yes) THEN Cardinality(Pending(d, yes)) - 1
                                     ELSE Cardinality(Pending(d, yes))
    BY <2>5, FS_RemoveElement
  <2>7. Count(counts[d], yes) \in Nat /\ Count(decided[d], yes) \in Nat
    BY <1>0 DEF TypeOK, ClientStats, Count
  <2> QED
    BY <1>2, <2>1, <2>2, <2>3, <2>4, <2>5, <2>6, <2>7 DEF Exact
<1> QED
  BY <1>3, StatsByOutcomeNext

LEMMA InitStatsExact == Init => StatsExact
<1> SUFFICES ASSUME Init PROVE StatsExact
  OBVIOUS
<1>1. \A c \in Clients, yes \in BOOLEAN : Pending(c, yes) = {}
  BY DEF Init, Pending
<1>2. \A c \in Clients, yes \in BOOLEAN :
        Count(counts[c], yes) = 0 /\ Count(decided[c], yes) = 0
  BY DEF Init, NoStats, Count
<1>3. Cardinality({}) = 0
  BY FS_EmptySet
<1> QED
  BY <1>1, <1>2, <1>3, StatsByOutcome DEF Exact

\* Only Decide and Record touch what StatsExact is about.
LEMMA StepStatsExact == IInv /\ StatsExact /\ [Next]_vars => StatsExact'
<1> SUFFICES ASSUME IInv, StatsExact, [Next]_vars PROVE StatsExact'
  OBVIOUS
<1>0. TypeOK
  BY DEF IInv
<1>1. ASSUME NEW g \in Goroutines, NEW c \in Clients, Arrive(g, c) PROVE StatsExact'
  BY <1>0, <1>1, NothingDecided DEF Arrive, TypeOK
<1>2. ASSUME NEW g \in Goroutines, Get(g) PROVE StatsExact'
  BY <1>0, <1>2, NothingDecided DEF Get, TypeOK, observers
<1>3. ASSUME NEW g \in Goroutines, NEW a \in Addresses \ Reachable, Create(g, a)
      PROVE  StatsExact'
  BY <1>0, <1>3, NothingDecided DEF Create, TypeOK
<1>4. ASSUME NEW g \in Goroutines, Decide(g) PROVE StatsExact'
  BY <1>4, DecisionPending
<1>5. ASSUME NEW g \in Goroutines, Record(g) PROVE StatsExact'
  BY <1>5, DecisionRecorded
<1>6. ASSUME NEW c \in Clients, NEW cfg \in Configs, SetConfig(c, cfg) PROVE StatsExact'
  BY <1>6, NothingDecided DEF SetConfig
<1>7. ASSUME NEW c \in Clients, RemoveClient(c) PROVE StatsExact'
  BY <1>7, NothingDecided DEF RemoveClient
<1>8. CASE Tick
  BY <1>8, NothingDecided DEF Tick, observers
<1>9. CASE UNCHANGED vars
  BY <1>9, NothingDecided DEF vars
<1> QED
  BY <1>1, <1>2, <1>3, <1>4, <1>5, <1>6, <1>7, <1>8, <1>9 DEF Next, Step

\* A client's statistics are the decisions taken for it but for those not
\* recorded yet, for any number of goroutines, changes and removals.
THEOREM StatisticsExact == Spec => []StatsExact
BY InitIInv, StepIInv, InitStatsExact, StepStatsExact, PTL DEF Spec
-----------------------------------------------------------------------------
(***************************************************************************)
(* The rate limit across goroutines and configuration changes.  The        *)
(* invariant keeps an account for each client: what was let through since  *)
(* the last change, and what the requests still holding the old limiter    *)
(* may yet let through, was paid for by the limiter in the map or by those *)
(* requests themselves.                                                    *)
(***************************************************************************)

\* The length of a window, and the most requests let through in one.
WindowOf(cfg) == cfg.Burst \div cfg.RPS
PerWindow(cfg) == -((-cfg.Burst) \div Unit)

\* The range in which a sliding window works as written: it has a length, and
\* twice that length is a Duration.  Beyond it the code limits nothing.
WindowsFit ==
  \A cfg \in Configs \cup {DefaultConfig} :
    (Validate(cfg) /\ cfg.Algorithm = AlgorithmSlidingWindow) =>
      WindowOf(cfg) >= 1 /\ 2 * WindowOf(cfg) <= MaxDuration

\* A bucket has paid for used requests: they and the tokens left are at most a
\* full bucket and the refill so far; held requests come for free.
PaidBucket(cfg, b, start, used, held, now) ==
  /\ b.tokens >= 0 /\ b.lastRefill <= now
  /\ used * Unit + b.tokens <= cfg.Burst + (b.lastRefill - start) * cfg.RPS + held * Unit

\* A window has: k windows have gone by, and this one counts the rest.
PaidWindow(cfg, s, start, used, held, now) ==
  /\ s.windowStart <= now /\ s.currentCount <= PerWindow(cfg)
  /\ \E k \in Nat :
       /\ start + k * WindowOf(cfg) <= s.windowStart
       /\ used <= held + k * PerWindow(cfg) + s.currentCount

Paid(cfg, lim, start, used, held, now) ==
  IF cfg.Algorithm = AlgorithmSlidingWindow
    THEN PaidWindow(cfg, lim, start, used, held, now)
    ELSE PaidBucket(cfg, lim, start, used, held, now)

\* A usable Config.
Usable(cfg) ==
  /\ cfg.RPS \in Int /\ cfg.Burst \in Int /\ Validate(cfg)
  /\ cfg.Algorithm = AlgorithmSlidingWindow =>
       WindowOf(cfg) >= 1 /\ 2 * WindowOf(cfg) <= MaxDuration

\* int64 arithmetic does not wrap within the range of a Duration.
LEMMA WrapInRange == \A x \in Duration : Wrap(x) = x
<1> TAKE x \in Duration
<1> DEFINE a == x - MinDuration
           b == 2 * (MaxDuration + 1)
<1>1. x \in Int /\ MinDuration \in Int /\ a \in Nat /\ b \in Nat /\ b > 0 /\ a < b
  BY DurationAssumption DEF Duration, MinDuration
<1>2. \A p, q \in Nat : q > 0 /\ p < q => p % q = p
  OBVIOUS
<1>3. Wrap(x) = (a % b) + MinDuration
  BY DEF Wrap
<1> HIDE DEF b
<1>4. a % b = a
  BY <1>1, <1>2
<1>5. a + MinDuration = x
  BY <1>1
<1> QED
  BY <1>3, <1>4, <1>5

\* The ceiling of a Burst in whole requests: while a count is below the Burst,
\* one more still fits.
LEMMA CeilingFits ==
  ASSUME NEW cfg, cfg.Burst \in Int, cfg.Burst > 0
  PROVE  /\ PerWindow(cfg) \in Nat
         /\ \A n \in Nat : n * Unit < cfg.Burst => n + 1 <= PerWindow(cfg)
<1> DEFINE B == cfg.Burst
           q == (-B) \div Unit
<1>1. B \in Int /\ B > 0 /\ Unit \in Nat /\ Unit > 0
  BY UnitAssumption
<1>2. q \in Int /\ -B < (q + 1) * Unit /\ q * Unit <= -B
  BY <1>1
<1>3. PerWindow(cfg) = -q
  BY DEF PerWindow
<1> HIDE DEF q, B
<1>4. q < 0
  <2>1. CASE q >= 0
    <3>1. q * Unit \in Nat
      BY <1>1, <1>2, <2>1, NatProduct
    <3> QED
      BY <1>1, <1>2, <3>1
  <2> QED
    BY <1>2, <2>1
<1>5. ASSUME NEW n \in Nat, n * Unit < B PROVE n + 1 <= -q
  <2>1. CASE -q <= n
    <3>1. (-q) * Unit <= n * Unit
      BY <1>1, <1>2, <2>1, ProductMonotone
    <3>2. (-q) * Unit = -(q * Unit)
      BY <1>1, <1>2
    <3>3. n * Unit \in Int /\ q * Unit \in Int
      BY <1>1, <1>2, IntProduct
    <3> QED
      BY <1>1, <1>2, <1>5, <3>1, <3>2, <3>3
  <2> QED
    BY <1>2, <2>1
<1> QED
  BY <1>2, <1>3, <1>4, <1>5 DEF B

\* What a usable sliding-window Config makes of a window: its length is the
\* one computed from the Config, not an overflow of it.
LEMMA WindowFits ==
  ASSUME NEW cfg, Usable(cfg), cfg.Algorithm = AlgorithmSlidingWindow,
         NEW s \in SlidingWindows, BuiltFrom(s, cfg)
  PROVE  /\ WindowOf(cfg) \in Nat \ {0} /\ 2 * WindowOf(cfg) <= MaxDuration
         /\ s.window = WindowOf(cfg) /\ s.limit = cfg.Burst
         /\ Wrap(2 * WindowOf(cfg)) = 2 * WindowOf(cfg)
         /\ \A e \in 0 .. WindowOf(cfg) - 1 :
              Wrap(WindowOf(cfg) - e) = WindowOf(cfg) - e
<1> DEFINE w == WindowOf(cfg)
<1>1. cfg.RPS \in Int /\ cfg.RPS > 0 /\ cfg.Burst \in Int
  BY DEF Usable, Validate
<1>2. w \in Int
  BY <1>1 DEF WindowOf
<1>3. w >= 1 /\ 2 * w <= MaxDuration
  BY DEF Usable
<1>4. s.window = ToDuration(w) /\ s.limit = cfg.Burst
  BY DEF BuiltFrom, SlidingWindows, WindowOf
<1> HIDE DEF w
<1>5. MaxDuration \in Nat
  BY DurationAssumption
<1>6. ToDuration(w) = w
  BY <1>2, <1>3, <1>5 DEF ToDuration
<1>7. 2 * w \in Duration /\ \A e \in 0 .. w - 1 : w - e \in Duration
  BY <1>2, <1>3, <1>5 DEF Duration, MinDuration
<1>8. Wrap(2 * w) = 2 * w /\ \A e \in 0 .. w - 1 : Wrap(w - e) = w - e
  BY <1>7, WrapInRange
<1> QED
  BY <1>2, <1>3, <1>4, <1>6, <1>8 DEF w

\* Rolling a window that is not of the future leaves one that covers now
\* (slidingwindow.go:104-126), and keeps what it has paid for: a window that
\* ends has let through at most its limit.
LEMMA RollPays ==
  ASSUME NEW cfg, Usable(cfg), cfg.Algorithm = AlgorithmSlidingWindow,
         NEW s \in SlidingWindows, BuiltFrom(s, cfg),
         NEW start \in Nat, NEW used \in Nat, NEW held \in Nat, NEW now \in Nat,
         PaidWindow(cfg, s, start, used, held, now)
  PROVE  /\ Roll(s, now) \in SlidingWindows /\ BuiltFrom(Roll(s, now), cfg)
         /\ PaidWindow(cfg, Roll(s, now), start, used, held, now)
         /\ now - Roll(s, now).windowStart \in 0 .. WindowOf(cfg) - 1
<1> DEFINE w == WindowOf(cfg)
           n == PerWindow(cfg)
           elapsed == now - s.windowStart
           r == Roll(s, now)
<1>1. /\ w \in Nat \ {0} /\ s.window = w /\ Wrap(2 * w) = 2 * w
  BY WindowFits
<1>2. n \in Nat
  <2>1. cfg.Burst \in Int /\ cfg.Burst > 0
    BY UnitAssumption DEF Usable, Validate
  <2> QED
    BY <2>1, CeilingFits
<1>3. s.windowStart \in Int /\ s.currentCount \in Nat /\ elapsed \in Int
  BY DEF SlidingWindows
<1>4. PICK k \in Nat : /\ start + k * w <= s.windowStart
                        /\ used <= held + k * n + s.currentCount
  BY DEF PaidWindow
<1>5. s.windowStart <= now /\ s.currentCount <= n
  BY DEF PaidWindow
<1>6. r \in SlidingWindows /\ BuiltFrom(r, cfg)
  <2>1. r \in SlidingWindows /\ SameLimits(r, s)
    BY RollType
  <2> QED
    BY <2>1, SameLimitsBuilt
<1>7. (k + 1) * w = k * w + w /\ (k + 1) * n = k * n + n /\ k + 1 \in Nat
  BY <1>1, <1>2
<1>8. k * w \in Int /\ k * n \in Int
  BY <1>1, <1>2, IntProduct
<1>9. CASE elapsed >= 2 * w
  <2>1. r = [s EXCEPT !.currentCount = 0, !.previousCount = 0, !.windowStart = now]
    BY <1>1, <1>9 DEF Roll
  <2>2. r.windowStart = now /\ r.currentCount = 0
    BY <2>1 DEF SlidingWindows
  <2> HIDE DEF r, w, n
  <2>3. start + (k + 1) * w <= now
    BY <1>1, <1>3, <1>4, <1>7, <1>8, <1>9
  <2>4. used <= held + (k + 1) * n + 0
    BY <1>2, <1>3, <1>4, <1>5, <1>7, <1>8
  <2>5. PaidWindow(cfg, r, start, used, held, now)
    BY <1>2, <1>7, <2>2, <2>3, <2>4 DEF PaidWindow, w, n
  <2>6. now - r.windowStart \in 0 .. w - 1
    BY <1>1, <2>2
  <2> QED
    BY <1>6, <2>5, <2>6 DEF r, w
<1>10. CASE elapsed < 2 * w /\ elapsed >= w
  <2>1. r = [s EXCEPT !.previousCount = s.currentCount, !.currentCount = 0,
                      !.windowStart = @ + w]
    BY <1>1, <1>3, <1>10 DEF Roll
  <2>2. r.windowStart = s.windowStart + w /\ r.currentCount = 0
    BY <2>1 DEF SlidingWindows
  <2> HIDE DEF r, w, n
  <2>3. start + (k + 1) * w <= s.windowStart + w /\ s.windowStart + w <= now
    BY <1>1, <1>3, <1>4, <1>7, <1>8, <1>10
  <2>4. used <= held + (k + 1) * n + 0
    BY <1>2, <1>3, <1>4, <1>5, <1>7, <1>8
  <2>5. PaidWindow(cfg, r, start, used, held, now)
    BY <1>2, <1>7, <2>2, <2>3, <2>4 DEF PaidWindow, w, n
  <2>6. now - r.windowStart \in 0 .. w - 1
    BY <1>1, <1>3, <1>10, <2>2
  <2> QED
    BY <1>6, <2>5, <2>6 DEF r, w
<1>11. CASE elapsed < w
  <2>1. r = s
    BY <1>1, <1>3, <1>11 DEF Roll
  <2> HIDE DEF r, w
  <2>2. now - s.windowStart \in 0 .. w - 1
    BY <1>1, <1>3, <1>5, <1>11
  <2> QED
    BY <1>6, <2>1, <2>2 DEF r, w
<1> QED
  BY <1>1, <1>3, <1>9, <1>10, <1>11

\* A window lets a request through only while its count, let alone its estimate,
\* is below the limit (slidingwindow.go:128-141).
LEMMA BelowLimitFits ==
  ASSUME NEW cfg, Usable(cfg), cfg.Algorithm = AlgorithmSlidingWindow,
         NEW s \in SlidingWindows, BuiltFrom(s, cfg), NEW now \in Nat,
         now - s.windowStart \in 0 .. WindowOf(cfg) - 1, BelowLimit(s, now)
  PROVE  s.currentCount + 1 <= PerWindow(cfg)
<1> DEFINE w     == WindowOf(cfg)
           e     == now - s.windowStart
           faded == s.previousCount * (w - e)
           cur   == s.currentCount
           B     == cfg.Burst
<1>1. /\ w \in Nat \ {0} /\ s.window = w /\ s.limit = B /\ Wrap(w - e) = w - e
  BY WindowFits
<1>2. s.previousCount \in Nat /\ cur \in Nat /\ e \in 0 .. w - 1
  BY DEF SlidingWindows
<1>3. Estimated(s, now) = faded + cur * w /\ Length(s) = w
  BY <1>1 DEF Estimated, Length, elapsedInCurrent
<1>4. (faded + cur * w) * Unit < B * w
  BY <1>1, <1>3 DEF BelowLimit
<1>5. B \in Int /\ B > 0 /\ Unit \in Nat
  BY UnitAssumption DEF Usable, Validate
<1> HIDE DEF w, e, B, cur
<1>6. faded \in Nat
  <2>1. w - e \in Nat
    BY <1>1, <1>2
  <2> QED
    BY <1>2, <2>1, NatProduct
<1> HIDE DEF faded
<1>7. cur * Unit < B
  <2>1. CASE B <= cur * Unit
    <3>1. cur * w \in Nat /\ cur * Unit \in Int
      BY <1>1, <1>2, <1>5, NatProduct, IntProduct
    <3>2. B * w <= (cur * Unit) * w
      BY <1>1, <1>5, <2>1, <3>1, ProductMonotone
    <3>3. (cur * w) * Unit <= (faded + cur * w) * Unit
      BY <1>5, <1>6, <3>1, ProductMonotone
    <3>4. (cur * w) * Unit = (cur * Unit) * w
      BY <1>1, <1>2, <1>5
    <3>5. /\ B * w \in Int /\ (cur * w) * Unit \in Int
          /\ (faded + cur * w) * Unit \in Int
      BY <1>1, <1>5, <1>6, <3>1, IntProduct
    <3> QED
      BY <1>4, <3>2, <3>3, <3>4, <3>5
  <2> QED
    BY <1>2, <1>5, <2>1, IntProduct
<1> QED
  BY <1>2, <1>5, <1>7, CeilingFits DEF B, cur

\* One Allow of a window pays for the request it lets through.
LEMMA WindowPays ==
  ASSUME NEW cfg, Usable(cfg), cfg.Algorithm = AlgorithmSlidingWindow,
         NEW s \in SlidingWindows, BuiltFrom(s, cfg),
         NEW start \in Nat, NEW used \in Nat, NEW held \in Nat, NEW now \in Nat,
         PaidWindow(cfg, s, start, used, held, now)
  PROVE  LET result == SlidingWindowAllow(s, now)
         IN  PaidWindow(cfg, result.limiter, start,
                        IF result.decision.Allowed THEN used + 1 ELSE used, held, now)
<1> DEFINE r    == Roll(s, now)
           yes  == BelowLimit(r, now)
           left == [r EXCEPT !.currentCount = @ + (IF yes THEN 1 ELSE 0)]
           more == IF yes THEN used + 1 ELSE used
<1>1. /\ r \in SlidingWindows /\ BuiltFrom(r, cfg)
      /\ PaidWindow(cfg, r, start, used, held, now)
      /\ now - r.windowStart \in 0 .. WindowOf(cfg) - 1
  BY RollPays
<1>2. /\ SlidingWindowAllow(s, now).limiter = left
      /\ SlidingWindowAllow(s, now).decision.Allowed = yes
  BY DEF SlidingWindowAllow
<1>3. yes => r.currentCount + 1 <= PerWindow(cfg)
  BY <1>1, BelowLimitFits
<1>4. yes \in BOOLEAN
  BY DEF BelowLimit
<1> HIDE DEF r, yes
<1>5. /\ left.windowStart = r.windowStart
      /\ left.currentCount = IF yes THEN r.currentCount + 1 ELSE r.currentCount
      /\ r.currentCount \in Nat /\ r.windowStart \in Int
  BY <1>1 DEF SlidingWindows
<1> HIDE DEF left
<1>6. PaidWindow(cfg, left, start, more, held, now)
  <2>1. PICK k \in Nat : /\ start + k * WindowOf(cfg) <= r.windowStart
                          /\ used <= held + k * PerWindow(cfg) + r.currentCount
    BY <1>1 DEF PaidWindow
  <2>2. /\ left.windowStart <= now /\ left.currentCount <= PerWindow(cfg)
    BY <1>1, <1>3, <1>4, <1>5 DEF PaidWindow
  <2>3. PerWindow(cfg) \in Nat
    <3>1. cfg.Burst \in Int /\ cfg.Burst > 0
      BY UnitAssumption DEF Usable, Validate
    <3> QED
      BY <3>1, CeilingFits
  <2>4. k * PerWindow(cfg) \in Int
    BY <2>3, IntProduct
  <2>5. more <= held + k * PerWindow(cfg) + left.currentCount
    BY <1>4, <1>5, <2>1, <2>3, <2>4
  <2> HIDE DEF more
  <2> QED
    BY <1>5, <2>1, <2>2, <2>5 DEF PaidWindow
<1> QED
  BY <1>2, <1>6

\* One Allow of a bucket pays for the request it lets through
\* (tokenbucket.go:90-123): what it refills is in the allowance, what it takes is
\* a token it had.
LEMMA BucketPays ==
  ASSUME NEW cfg, Usable(cfg), cfg.Algorithm = AlgorithmTokenBucket,
         NEW b \in TokenBuckets, BuiltFrom(b, cfg),
         NEW start \in Nat, NEW used \in Nat, NEW held \in Nat, NEW now \in Nat,
         PaidBucket(cfg, b, start, used, held, now)
  PROVE  LET result == TokenBucketAllow(b, now)
         IN  PaidBucket(cfg, result.limiter, start,
                        IF result.decision.Allowed THEN used + 1 ELSE used, held, now)
<1> DEFINE gain == (now - b.lastRefill) * cfg.RPS
           most == MinOf(cfg.Burst, b.tokens + gain)
           full == Refill(b, now)
           yes  == most >= Unit
           left == IF yes THEN [full EXCEPT !.tokens = @ - Unit] ELSE full
           more == IF yes THEN used + 1 ELSE used
           rest == IF yes THEN most - Unit ELSE most
<1>1. /\ cfg.RPS \in Nat /\ cfg.Burst \in Int /\ cfg.Burst > 0
      /\ Unit \in Nat /\ Unit > 0
  BY UnitAssumption DEF Usable, Validate
<1>2. /\ b.tokens \in Int /\ b.lastRefill \in Nat
      /\ b.capacity = cfg.Burst /\ b.refillRate = cfg.RPS
  BY DEF TokenBuckets, BuiltFrom
<1>3. /\ b.tokens >= 0 /\ b.lastRefill <= now
      /\ used * Unit + b.tokens
           <= cfg.Burst + (b.lastRefill - start) * cfg.RPS + held * Unit
  BY DEF PaidBucket
<1>4. gain \in Nat
  <2>1. now - b.lastRefill \in Nat
    BY <1>2, <1>3
  <2> QED
    BY <1>1, <2>1, NatProduct
<1>5. (now - start) * cfg.RPS = (b.lastRefill - start) * cfg.RPS + gain
  <2>1. now - start = (b.lastRefill - start) + (now - b.lastRefill)
    BY <1>2
  <2> QED
    BY <1>1, <1>2, <2>1, ProductOfSum
<1> HIDE DEF gain
<1>6. full = [b EXCEPT !.tokens = most, !.lastRefill = now]
  BY <1>2 DEF Refill, gain
<1>7. most \in Int /\ most >= 0 /\ most <= b.tokens + gain
  BY <1>1, <1>2, <1>3, <1>4 DEF MinOf
<1> HIDE DEF most, full
<1>8. full.tokens = most /\ full.lastRefill = now /\ full \in TokenBuckets
  BY <1>2, <1>6, <1>7 DEF TokenBuckets
<1>9. /\ TokenBucketAllow(b, now).limiter = left
      /\ TokenBucketAllow(b, now).decision.Allowed = yes
  BY <1>8 DEF TokenBucketAllow, full
<1>10. left.tokens = rest /\ left.lastRefill = now
  BY <1>8 DEF TokenBuckets
<1> HIDE DEF left
<1>11. (used + 1) * Unit = used * Unit + Unit /\ used * Unit \in Int /\ held * Unit \in Int
  BY <1>1, IntProduct, ProductOfSum
<1>12. rest \in Int /\ rest >= 0
  BY <1>1, <1>7
<1> DEFINE earned == (b.lastRefill - start) * cfg.RPS
<1>13. earned \in Int
  BY <1>1, <1>2, IntProduct
<1>14. more * Unit + rest <= cfg.Burst + (now - start) * cfg.RPS + held * Unit
  <2>1. more * Unit + rest = used * Unit + most
    BY <1>1, <1>7, <1>11
  <2>2. used * Unit + b.tokens <= cfg.Burst + earned + held * Unit
    BY <1>3
  <2>3. (now - start) * cfg.RPS = earned + gain
    BY <1>5
  <2> HIDE DEF more, rest, earned
  <2> QED
    BY <1>1, <1>2, <1>4, <1>7, <1>11, <1>13, <2>1, <2>2, <2>3
<1> HIDE DEF more, rest
<1>15. PaidBucket(cfg, left, start, more, held, now)
  BY <1>10, <1>12, <1>14 DEF PaidBucket
<1> QED
  BY <1>9, <1>15 DEF more

\* The same through the Limiter interface.
LEMMA AllowPays ==
  ASSUME NEW cfg, Usable(cfg), NEW lim \in Limiters, BuiltFrom(lim, cfg),
         NEW start \in Nat, NEW used \in Nat, NEW held \in Nat, NEW now \in Nat,
         Paid(cfg, lim, start, used, held, now)
  PROVE  LET result == LimiterAllow(lim, now)
         IN  Paid(cfg, result.limiter, start,
                  IF result.decision.Allowed THEN used + 1 ELSE used, held, now)
<1>1. AlgorithmSlidingWindow # AlgorithmTokenBucket /\ lim.type = cfg.Algorithm
  BY DEF AlgorithmSlidingWindow, AlgorithmTokenBucket, BuiltFrom
<1>2. CASE lim \in SlidingWindows
  <2>1. lim.type = AlgorithmSlidingWindow
    BY <1>2 DEF SlidingWindows
  <2>2. LimiterAllow(lim, now) = SlidingWindowAllow(lim, now)
    BY <2>1 DEF LimiterAllow
  <2> QED
    BY <1>1, <1>2, <2>1, <2>2, WindowPays DEF Paid
<1>3. CASE lim \in TokenBuckets
  <2>1. lim.type = AlgorithmTokenBucket
    BY <1>3 DEF TokenBuckets
  <2>2. LimiterAllow(lim, now) = TokenBucketAllow(lim, now)
    BY <1>1, <2>1 DEF LimiterAllow
  <2> QED
    BY <1>1, <1>3, <2>1, <2>2, BucketPays DEF Paid
<1> QED
  BY <1>2, <1>3 DEF Limiters

\* A limiter just made has its Burst to give, and pays for that.
LEMMA NewLimiterPays ==
  ASSUME NEW cfg, Usable(cfg),
         NEW start \in Nat, NEW used \in Nat, NEW held \in Nat, NEW now \in Nat,
         start <= now, used <= held
  PROVE  Paid(cfg, newLimiter(cfg, now), start, used, held, now)
<1>1. /\ cfg.RPS \in Nat /\ cfg.Burst \in Int /\ cfg.Burst > 0
      /\ Unit \in Nat /\ Unit > 0
  BY UnitAssumption DEF Usable, Validate
<1> DEFINE lim == newLimiter(cfg, now)
<1>2. CASE cfg.Algorithm = AlgorithmSlidingWindow
  <2>1. lim.windowStart = now /\ lim.currentCount = 0
    BY <1>2 DEF newLimiter, NewSlidingWindow
  <2>2. PerWindow(cfg) \in Nat
    BY <1>1, CeilingFits
  <2>3. WindowOf(cfg) \in Int
    BY <1>1 DEF WindowOf, Usable, Validate
  <2>4. 0 * PerWindow(cfg) = 0 /\ 0 * WindowOf(cfg) = 0
    BY <2>2, <2>3
  <2> HIDE DEF lim
  <2>5. /\ start + 0 * WindowOf(cfg) <= lim.windowStart
        /\ used <= held + 0 * PerWindow(cfg) + lim.currentCount
    BY <2>1, <2>4
  <2>6. PaidWindow(cfg, lim, start, used, held, now)
    BY <2>1, <2>2, <2>5 DEF PaidWindow
  <2> QED
    BY <1>2, <2>6 DEF Paid, lim
<1>3. CASE cfg.Algorithm # AlgorithmSlidingWindow
  <2>1. lim.tokens = cfg.Burst /\ lim.lastRefill = now
    BY <1>3 DEF newLimiter, NewTokenBucket
  <2> HIDE DEF lim
  <2>2. now - start \in Nat /\ (now - start) * cfg.RPS \in Nat
    BY <1>1, NatProduct
  <2>3. used * Unit <= held * Unit /\ used * Unit \in Int /\ held * Unit \in Int
    BY <1>1, ProductMonotone, IntProduct
  <2> DEFINE refill == (now - start) * cfg.RPS
  <2>4. refill \in Nat
    BY <2>2
  <2> HIDE DEF refill
  <2>5. used * Unit + cfg.Burst <= cfg.Burst + refill + held * Unit
    BY <1>1, <2>3, <2>4
  <2>6. lim.tokens >= 0 /\ lim.lastRefill <= now
    BY <1>1, <2>1
  <2>7. PaidBucket(cfg, lim, start, used, held, now)
    BY <2>1, <2>5, <2>6 DEF PaidBucket, refill
  <2> QED
    BY <1>3, <2>7 DEF Paid, lim
<1> QED
  BY <1>2, <1>3

\* What was paid stays paid as time goes by.
LEMMA PaidLater ==
  ASSUME NEW cfg, NEW lim \in Limiters, BuiltFrom(lim, cfg), NEW start, NEW used, NEW held,
         NEW now \in Nat, Paid(cfg, lim, start, used, held, now)
  PROVE  Paid(cfg, lim, start, used, held, now + 1)
<1>1. CASE lim \in SlidingWindows
  <2>1. cfg.Algorithm = AlgorithmSlidingWindow /\ lim.windowStart \in Int
    BY <1>1 DEF SlidingWindows, BuiltFrom
  <2>2. lim.windowStart <= now
    BY <2>1 DEF Paid, PaidWindow
  <2>3. lim.windowStart <= now + 1
    BY <2>1, <2>2
  <2> QED
    BY <2>1, <2>3, Zenon DEF Paid, PaidWindow
<1>2. CASE lim \in TokenBuckets
  <2>1. cfg.Algorithm # AlgorithmSlidingWindow /\ lim.lastRefill \in Nat
    BY <1>2 DEF TokenBuckets, BuiltFrom, AlgorithmSlidingWindow, AlgorithmTokenBucket
  <2>2. lim.lastRefill <= now
    BY <2>1 DEF Paid, PaidBucket
  <2>3. lim.lastRefill <= now + 1
    BY <2>1, <2>2
  <2> QED
    BY <2>1, <2>3, Zenon DEF Paid, PaidBucket
<1> QED
  BY <1>1, <1>2 DEF Limiters

\* Who has paid for some requests has paid for fewer.
LEMMA PaidLess ==
  ASSUME NEW cfg, Usable(cfg), NEW lim \in Limiters, BuiltFrom(lim, cfg), NEW start \in Nat,
         NEW used \in Nat, NEW fewer \in Nat, fewer <= used, NEW held \in Nat,
         NEW now, Paid(cfg, lim, start, used, held, now)
  PROVE  Paid(cfg, lim, start, fewer, held, now)
<1>1. /\ cfg.RPS \in Nat /\ cfg.Burst \in Int /\ cfg.Burst > 0
      /\ Unit \in Nat /\ Unit > 0
  BY UnitAssumption DEF Usable, Validate
<1>2. CASE lim \in SlidingWindows
  <2>1. cfg.Algorithm = AlgorithmSlidingWindow /\ lim.currentCount \in Nat
    BY <1>2 DEF SlidingWindows, BuiltFrom
  <2>2. PICK k \in Nat : /\ start + k * WindowOf(cfg) <= lim.windowStart
                          /\ used <= held + k * PerWindow(cfg) + lim.currentCount
    BY <2>1 DEF Paid, PaidWindow
  <2>3. PerWindow(cfg) \in Nat
    BY <1>1, CeilingFits
  <2>4. fewer <= held + k * PerWindow(cfg) + lim.currentCount
    BY <2>1, <2>2, <2>3, IntProduct
  <2> QED
    BY <2>1, <2>2, <2>4 DEF Paid, PaidWindow
<1>3. CASE lim \in TokenBuckets
  <2> DEFINE earned == (lim.lastRefill - start) * cfg.RPS
  <2>1. /\ cfg.Algorithm # AlgorithmSlidingWindow /\ lim.tokens \in Int
        /\ lim.lastRefill \in Nat
    BY <1>3 DEF TokenBuckets, BuiltFrom, AlgorithmSlidingWindow, AlgorithmTokenBucket
  <2>2. earned \in Int
    BY <1>1, <2>1, IntProduct
  <2>3. /\ lim.tokens >= 0 /\ lim.lastRefill <= now
        /\ used * Unit + lim.tokens <= cfg.Burst + earned + held * Unit
    BY <2>1 DEF Paid, PaidBucket
  <2>4. /\ fewer * Unit <= used * Unit
        /\ fewer * Unit \in Int /\ used * Unit \in Int /\ held * Unit \in Int
    BY <1>1, ProductMonotone, IntProduct
  <2> HIDE DEF earned
  <2>5. fewer * Unit + lim.tokens <= cfg.Burst + earned + held * Unit
    BY <1>1, <2>1, <2>2, <2>3, <2>4
  <2> QED
    BY <2>1, <2>3, <2>5 DEF Paid, PaidBucket, earned
<1> QED
  BY <1>2, <1>3 DEF Limiters

LEMMA AllowanceType ==
  ASSUME NEW cfg, Usable(cfg), NEW e \in Nat
  PROVE  Allowance(cfg, e) \in Int
<1>1. cfg.RPS \in Nat /\ cfg.Burst \in Int /\ cfg.RPS > 0 /\ Unit \in Nat /\ Unit > 0
  BY UnitAssumption DEF Usable, Validate
<1>2. CASE cfg.Algorithm = AlgorithmSlidingWindow
  <2> DEFINE w == cfg.Burst \div cfg.RPS
             c == (-cfg.Burst) \div Unit
             q == e \div w
  <2>1. w \in Int /\ w >= 1 /\ c \in Int
    BY <1>1, <1>2 DEF Usable, WindowOf
  <2>2. Allowance(cfg, e) = -(c * (q + 1) * Unit)
    BY <1>2 DEF Allowance
  <2> HIDE DEF w, c
  <2>3. q \in Int
    BY <2>1
  <2> HIDE DEF q
  <2> QED
    BY <1>1, <2>1, <2>2, <2>3, IntProduct
<1>3. CASE cfg.Algorithm # AlgorithmSlidingWindow
  BY <1>1, <1>3, IntProduct DEF Allowance
<1> QED
  BY <1>2, <1>3

\* What a limiter has paid for is within the allowance of its Config.
LEMMA PaidWithinAllowance ==
  ASSUME NEW cfg, Usable(cfg), NEW lim \in Limiters, BuiltFrom(lim, cfg),
         NEW start \in Nat, NEW used \in Nat, NEW held \in Nat, NEW now \in Nat,
         start <= now, Paid(cfg, lim, start, used, held, now)
  PROVE  used * Unit <= Allowance(cfg, now - start) + held * Unit
<1>1. /\ cfg.RPS \in Nat /\ cfg.Burst \in Int /\ cfg.Burst > 0
      /\ Unit \in Nat /\ Unit > 0
  BY UnitAssumption DEF Usable, Validate
<1>2. CASE lim \in SlidingWindows
  <2> DEFINE w == WindowOf(cfg)
             n == PerWindow(cfg)
             e == now - start
             q == e \div w
  <2>1. cfg.Algorithm = AlgorithmSlidingWindow
    BY <1>2 DEF SlidingWindows, BuiltFrom
  <2>2. w \in Nat \ {0} /\ n \in Nat /\ e \in Nat
    BY <1>1, <1>2, <2>1, WindowFits, CeilingFits
  <2>3. /\ lim.windowStart \in Int /\ lim.currentCount \in Nat
        /\ lim.windowStart <= now /\ lim.currentCount <= n
    BY <1>2, <2>1 DEF SlidingWindows, Paid, PaidWindow
  <2>4. PICK k \in Nat : /\ start + k * w <= lim.windowStart
                          /\ used <= held + k * n + lim.currentCount
    BY <2>1 DEF Paid, PaidWindow
  <2>5. Allowance(cfg, e) = n * (q + 1) * Unit
    <3> DEFINE c == (-cfg.Burst) \div Unit
    <3>1. Allowance(cfg, e) = -(c * (q + 1) * Unit)
      BY <2>1 DEF Allowance, WindowOf
    <3>2. n = -c /\ c \in Int /\ q \in Int
      BY <1>1, <2>2 DEF PerWindow
    <3> HIDE DEF c, q, n
    <3>3. -(c * (q + 1) * Unit) = (-c) * (q + 1) * Unit
      BY <1>1, <3>2
    <3> QED
      BY <3>1, <3>2, <3>3
  <2> HIDE DEF w, n, e
  <2>6. q \in Int /\ e < (q + 1) * w
    BY <2>2
  <2> HIDE DEF q
  <2>7. k <= q
    <3>1. CASE q + 1 <= k
      <4>1. (q + 1) * w <= k * w
        BY <2>2, <2>6, <3>1, ProductMonotone
      <4>2. (q + 1) * w \in Int /\ k * w \in Int
        BY <2>2, <2>6, IntProduct
      <4>3. start + k * w <= now
        BY <2>3, <2>4, <4>2
      <4>4. k * w <= e
        BY <4>2, <4>3 DEF e
      <4> QED
        BY <2>2, <2>6, <4>1, <4>2, <4>4
    <3> QED
      BY <2>6, <3>1
  <2>8. used <= held + (q + 1) * n
    <3>1. (k + 1) * n <= (q + 1) * n
      BY <2>2, <2>6, <2>7, ProductMonotone
    <3>2. (k + 1) * n = k * n + n
      BY <2>2
    <3>3. k * n \in Int /\ (q + 1) * n \in Int
      BY <2>2, <2>6, IntProduct
    <3> QED
      BY <2>2, <2>3, <2>4, <3>1, <3>2, <3>3
  <2>9. used * Unit <= held * Unit + n * (q + 1) * Unit
    <3> DEFINE all == (q + 1) * n
    <3>1. all \in Int /\ n * (q + 1) = all
      BY <2>2, <2>6, IntProduct
    <3> HIDE DEF all
    <3>2. used * Unit <= (held + all) * Unit
      BY <1>1, <2>8, <3>1, ProductMonotone DEF all
    <3>3. (held + all) * Unit = held * Unit + all * Unit
      BY <1>1, <3>1, ProductOfSum
    <3> QED
      BY <3>1, <3>2, <3>3
  <2>10. n * (q + 1) * Unit \in Int /\ held * Unit \in Int /\ used * Unit \in Int
    BY <1>1, <2>2, <2>6, IntProduct
  <2>11. used * Unit <= n * (q + 1) * Unit + held * Unit
    BY <2>9, <2>10
  <2> QED
    BY <2>5, <2>11 DEF e
<1>3. CASE lim \in TokenBuckets
  <2> DEFINE early == (lim.lastRefill - start) * cfg.RPS
             all   == (now - start) * cfg.RPS
  <2>1. cfg.Algorithm # AlgorithmSlidingWindow /\ lim.lastRefill \in Nat
        /\ lim.tokens \in Int
    BY <1>3 DEF TokenBuckets, BuiltFrom, AlgorithmSlidingWindow, AlgorithmTokenBucket
  <2>2. /\ lim.tokens >= 0 /\ lim.lastRefill <= now
        /\ used * Unit + lim.tokens <= cfg.Burst + early + held * Unit
    BY <2>1 DEF Paid, PaidBucket
  <2>3. early <= all /\ early \in Int /\ all \in Int
    <3>1. lim.lastRefill - start <= now - start
      BY <2>1, <2>2
    <3> QED
      BY <1>1, <2>1, <3>1, ProductMonotone, IntProduct
  <2>4. Allowance(cfg, now - start) = cfg.Burst + all
    BY <1>1, <2>1, IntProduct DEF Allowance
  <2> HIDE DEF early, all
  <2>5. used * Unit \in Int /\ held * Unit \in Int
    BY <1>1, IntProduct
  <2> QED
    BY <1>1, <2>1, <2>2, <2>3, <2>4, <2>5
<1> QED
  BY <1>2, <1>3 DEF Limiters

\* Goroutines about to ask a limiter of c that is no longer in the map.
Stale(c) == {g \in Holding(c) : call[g].lim # limiters[c]}

\* Requests of c let through since its last change, and those that may yet be by
\* a limiter that change dropped.
Used(c) == watch[c].passed + Cardinality(Stale(c))

\* AdmissionBound is not inductive: it forgets what the limiter has left to give
\* and who still holds the old one.
Account(c) ==
  /\ watch[c].start <= clock
  /\ limiters[c] = nil => Used(c) <= watch[c].held
  /\ limiters[c] # nil => Paid(ConfigOf(c), heap[limiters[c]], watch[c].start,
                               Used(c), watch[c].held, clock)

AInv == \A c \in Clients : Account(c)

LEMMA StaleFinite ==
  \A c \in Clients : IsFiniteSet(Stale(c)) /\ Cardinality(Stale(c)) \in Nat
<1> TAKE c \in Clients
<1>1. Stale(c) \subseteq Goroutines
  BY DEF Stale, Holding
<1>2. IsFiniteSet(Stale(c))
  BY <1>1, ManagerAssumption, FS_Subset
<1> QED
  BY <1>2, FS_CardinalityType

LEMMA UsableInForce ==
  ASSUME IInv, WindowsFit, NEW c \in Clients
  PROVE  Usable(ConfigOf(c))
<1>1. /\ ConfigOf(c).RPS \in Int /\ ConfigOf(c).Burst \in Int
      /\ Validate(ConfigOf(c))
  BY ConfigInForce DEF IInv
<1>2. ConfigOf(c) \in Configs \cup {DefaultConfig}
  BY DEF IInv, TypeOK, ConfigOf
<1> QED
  BY <1>1, <1>2 DEF WindowsFit, Usable

\* The account of a client implies its part of AdmissionBound.
LEMMA AccountBounds ==
  ASSUME IInv, WindowsFit, NEW c \in Clients, Account(c)
  PROVE  watch[c].passed * Unit
           <= Allowance(ConfigOf(c), clock - watch[c].start) + watch[c].held * Unit
<1> DEFINE cfg == ConfigOf(c)
           start == watch[c].start
           held == watch[c].held
           passed == watch[c].passed
           used == Used(c)
<1>1. /\ start \in Nat /\ held \in Nat /\ passed \in Nat /\ clock \in Nat
      /\ start <= clock
  BY DEF IInv, TypeOK, Account
<1>2. used \in Nat /\ passed <= used
  BY <1>1, StaleFinite DEF Used
<1>3. Usable(cfg)
  BY UsableInForce
<1>4. Unit \in Nat
  BY UnitAssumption
<1> DEFINE all == Allowance(cfg, clock - start) + held * Unit
<1>5. used * Unit <= all
  <2>1. CASE limiters[c] = nil
    <3> DEFINE fresh == newLimiter(cfg, clock)
    <3>1. used <= held
      BY <2>1 DEF Account
    <3>2. Paid(cfg, fresh, start, used, held, clock)
      BY <1>1, <1>2, <1>3, <3>1, NewLimiterPays
    <3>3. fresh \in Limiters /\ BuiltFrom(fresh, cfg)
      BY <1>1, <1>3, NewLimiterType DEF Usable
    <3> HIDE DEF fresh, cfg, start, held, used
    <3>4. used * Unit <= Allowance(cfg, clock - start) + held * Unit
      BY <1>1, <1>2, <1>3, <3>2, <3>3, PaidWithinAllowance
    <3> QED
      BY <3>4 DEF cfg, start, held, used
  <2>2. CASE limiters[c] # nil
    <3> DEFINE lim == heap[limiters[c]]
    <3>1. lim \in Limiters /\ BuiltFrom(lim, cfg)
      BY <2>2 DEF IInv, Links, LimiterMatchesConfig
    <3>2. Paid(cfg, lim, start, used, held, clock)
      BY <2>2 DEF Account
    <3> HIDE DEF lim, cfg, start, held, used
    <3>3. used * Unit <= Allowance(cfg, clock - start) + held * Unit
      BY <1>1, <1>2, <1>3, <3>1, <3>2, PaidWithinAllowance
    <3> QED
      BY <3>3 DEF cfg, start, held, used
  <2> QED
    BY <2>1, <2>2
<1>6. all \in Int
  <2>1. clock - start \in Nat
    BY <1>1
  <2>2. Allowance(cfg, clock - start) \in Int
    BY <1>3, <2>1, AllowanceType
  <2> QED
    BY <1>1, <1>4, <2>2, IntProduct
<1> HIDE DEF used, all
<1>7. passed * Unit <= used * Unit /\ passed * Unit \in Int /\ used * Unit \in Int
  BY <1>1, <1>2, <1>4, ProductMonotone, IntProduct
<1>8. passed * Unit <= all
  BY <1>5, <1>6, <1>7
<1> QED
  BY <1>8 DEF all

\* An action keeps the account of a client it does not concern.
LEMMA AccountKept ==
  ASSUME NEW c \in Clients, Account(c),
         UNCHANGED <<configs, clock>>, limiters'[c] = limiters[c], watch'[c] = watch[c],
         limiters[c] # nil => heap'[limiters[c]] = heap[limiters[c]],
         Stale(c)' = Stale(c)
  PROVE  Account(c)'
<1>1. Used(c)' = Used(c) /\ ConfigOf(c)' = ConfigOf(c)
  BY DEF Used, ConfigOf
<1> QED
  BY <1>1 DEF Account

\* A change closes the account and opens one in which the requests holding the
\* old limiter are all that is owed.
LEMMA ChangeKeepsAccounts ==
  ASSUME IInv, AInv, NEW c \in Clients, NEW cfg,
         configs' = [configs EXCEPT ![c] = cfg], Discard(c), NewEpoch(c),
         UNCHANGED <<heap, pc, call, clock>>
  PROVE  AInv'
<1>0. TypeOK /\ Links
  BY DEF IInv
<1>1. /\ limiters' = [limiters EXCEPT ![c] = nil]
      /\ watch' = [watch EXCEPT ![c] = [start |-> clock,
                                        held |-> Cardinality(Holding(c)), passed |-> 0]]
  BY DEF Discard, NewEpoch
<1>2. \A d \in Clients : Holding(d)' = Holding(d)
  BY DEF Holding
<1>3. Account(c)'
  <2>1. Stale(c)' = Holding(c)
    BY <1>0, <1>1, <1>2 DEF Stale, Holding, Links, TypeOK
  <2>2. /\ limiters'[c] = nil /\ watch'[c].start = clock /\ watch'[c].passed = 0
        /\ watch'[c].held = Cardinality(Holding(c))
    BY <1>0, <1>1 DEF TypeOK
  <2>3. Cardinality(Holding(c)) \in Nat /\ clock \in Nat
    BY <1>0, ManagerAssumption, FS_Subset, FS_CardinalityType DEF Holding, TypeOK
  <2>4. Used(c)' = Cardinality(Holding(c))
    BY <2>1, <2>2, <2>3 DEF Used
  <2> QED
    BY <2>2, <2>3, <2>4 DEF Account
<1>4. ASSUME NEW d \in Clients, d # c PROVE Account(d)'
  <2>1. limiters'[d] = limiters[d] /\ watch'[d] = watch[d] /\ configs'[d] = configs[d]
    BY <1>0, <1>1, <1>4 DEF TypeOK
  <2>2. Stale(d)' = Stale(d)
    BY <1>2, <2>1 DEF Stale
  <2>3. Used(d)' = Used(d) /\ ConfigOf(d)' = ConfigOf(d)
    BY <2>1, <2>2 DEF Used, ConfigOf
  <2> QED
    BY <2>1, <2>3 DEF AInv, Account
<1> QED
  BY <1>3, <1>4 DEF AInv

\* Making a limiter: everyone who held one for this client holds an old one.
LEMMA CreateKeepsAccounts ==
  ASSUME IInv, AInv, WindowsFit, NEW g \in Goroutines,
         NEW a \in Addresses \ Reachable, Create(g, a)
  PROVE  AInv'
<1>c. PICK c \in Clients : c = call[g].client
  BY DEF IInv, Create, Absent, Links
<1> DEFINE fresh == newLimiter(ConfigOf(c), clock)
<1>0. TypeOK /\ Links /\ c \in Clients /\ a # nil
  BY ManagerAssumption DEF IInv
<1>1. /\ heap' = [heap EXCEPT ![a] = fresh]
      /\ limiters[c] = nil /\ limiters' = [limiters EXCEPT ![c] = a]
      /\ call' = [call EXCEPT ![g].lim = a]
      /\ pc[g] = "lookup" /\ pc' = [pc EXCEPT ![g] = "decide"]
      /\ UNCHANGED <<configs, clock, watch>>
  BY <1>c DEF Create, Absent
<1> HIDE DEF fresh
<1>2. /\ \A d \in Clients : limiters[d] # a
      /\ \A h \in Goroutines : call[h].lim # a
  BY DEF Reachable
<1>3. \A d \in Clients : Stale(d)' = Stale(d)
  <2> TAKE d \in Clients
  <2>1. ASSUME NEW h \in Goroutines PROVE h \in Stale(d)' <=> h \in Stale(d)
    <3>1. CASE h = g
      BY <1>c, <1>0, <1>1, <3>1 DEF Stale, Holding, TypeOK
    <3>2. CASE h # g
      BY <1>0, <1>1, <1>2, <3>2 DEF Stale, Holding, TypeOK, Links
    <3> QED
      BY <3>1, <3>2
  <2> QED
    BY <2>1 DEF Stale, Holding
<1>4. Account(c)'
  <2>1. Usable(ConfigOf(c)) /\ ConfigOf(c)' = ConfigOf(c) /\ Used(c)' = Used(c)
    BY <1>0, <1>1, <1>3, UsableInForce DEF ConfigOf, Used
  <2>2. /\ watch[c].start \in Nat /\ watch[c].held \in Nat /\ watch[c].passed \in Nat
        /\ clock \in Nat /\ Cardinality(Stale(c)) \in Nat
    BY <1>0, StaleFinite DEF TypeOK
  <2>3. Used(c) \in Nat /\ Used(c) <= watch[c].held /\ watch[c].start <= clock
    BY <1>0, <1>1, <2>2 DEF AInv, Account, Used
  <2>4. Paid(ConfigOf(c), fresh, watch[c].start, Used(c), watch[c].held, clock)
    BY <2>1, <2>2, <2>3, NewLimiterPays DEF fresh
  <2>5. limiters'[c] = a /\ heap'[a] = fresh
    BY <1>0, <1>1 DEF TypeOK
  <2> QED
    BY <1>0, <1>1, <2>1, <2>3, <2>4, <2>5 DEF Account
<1>5. ASSUME NEW d \in Clients, d # c PROVE Account(d)'
  <2>1. limiters'[d] = limiters[d]
    BY <1>0, <1>1, <1>5 DEF TypeOK
  <2>2. limiters[d] # nil => heap'[limiters[d]] = heap[limiters[d]]
    BY <1>0, <1>1, <1>2 DEF TypeOK
  <2>3. Account(d) /\ Stale(d)' = Stale(d)
    BY <1>3 DEF AInv
  <2> QED
    BY <1>1, <2>1, <2>2, <2>3, AccountKept
<1> QED
  BY <1>4, <1>5 DEF AInv

\* A decision is paid for by the limiter in the map, or by the request itself if
\* it came with an older one.
LEMMA DecideKeepsAccounts ==
  ASSUME IInv, EInv, AInv, WindowsFit, NEW g \in Goroutines, Decide(g)
  PROVE  AInv'
<1>c. PICK c \in Clients, lim \in Addresses : c = call[g].client /\ lim = call[g].lim
  BY DEF IInv, Decide, Links, TypeOK
<1> DEFINE left == LimiterAllow(heap[lim], clock).limiter
           yes  == LimiterAllow(heap[lim], clock).decision.Allowed
<1>0. /\ TypeOK /\ Links /\ c \in Clients /\ lim \in Addresses /\ lim # nil
      /\ heap[lim] \in Limiters /\ clock \in Nat
  BY <1>c DEF IInv, Decide, Links, TypeOK
<1>1. yes \in BOOLEAN
  BY <1>0, AllowType
<1>2. /\ heap' = [heap EXCEPT ![lim] = left]
      /\ call' = [call EXCEPT ![g].allowed = yes]
      /\ pc[g] = "decide"
      /\ pc' = [pc EXCEPT ![g] = "record"]
      /\ watch' = [watch EXCEPT ![c].passed = IF yes THEN @ + 1 ELSE @]
      /\ UNCHANGED <<configs, limiters, clock>>
  BY <1>c DEF Decide
<1>3. \A d \in Clients : d # c => limiters[d] # lim
  <2> SUFFICES ASSUME NEW d \in Clients, limiters[d] = lim PROVE d = c
    OBVIOUS
  <2>1. made[lim] = [client |-> d, epoch |-> epoch[d]]
    BY <1>0 DEF EInv, OneLimiterPerEpoch
  <2>2. made[lim].client = c
    BY <1>c, <1>0 DEF EInv, OneLimiterPerEpoch
  <2> QED
    BY <2>1, <2>2
<1>4. \A d \in Clients : Stale(d)' = Stale(d) \ {g}
  BY <1>c, <1>0, <1>2 DEF Stale, Holding, TypeOK
<1>5. \A d \in Clients : g \in Stale(d) <=> d = c /\ limiters[c] # lim
  BY <1>c, <1>0, <1>2 DEF Stale, Holding
<1>6. ASSUME NEW d \in Clients, d # c PROVE Account(d)'
  <2>1. Stale(d)' = Stale(d)
    BY <1>4, <1>5, <1>6
  <2>2. watch'[d] = watch[d] /\ limiters'[d] = limiters[d]
    BY <1>0, <1>2, <1>6 DEF TypeOK
  <2>3. limiters[d] # nil => heap'[limiters[d]] = heap[limiters[d]]
    BY <1>0, <1>2, <1>3, <1>6 DEF TypeOK
  <2>4. Account(d)
    BY DEF AInv
  <2> HIDE DEF left, yes
  <2> QED
    BY <1>2, <2>1, <2>2, <2>3, <2>4, AccountKept
<1> DEFINE w == watch[c]
           used == Used(c)
           more == IF yes THEN used + 1 ELSE used
<1>7. /\ w.start \in Nat /\ w.held \in Nat /\ w.passed \in Nat
      /\ Cardinality(Stale(c)) \in Nat /\ IsFiniteSet(Stale(c))
      /\ used = w.passed + Cardinality(Stale(c)) /\ used \in Nat
  BY <1>0, StaleFinite DEF TypeOK, Used
<1>8. /\ watch'[c].start = w.start /\ watch'[c].held = w.held
      /\ watch'[c].passed = IF yes THEN w.passed + 1 ELSE w.passed
  BY <1>0, <1>2 DEF TypeOK
<1>9. ConfigOf(c)' = ConfigOf(c) /\ Usable(ConfigOf(c)) /\ Account(c)
  BY <1>0, <1>2, UsableInForce DEF ConfigOf, AInv
<1>10. ASSUME limiters[c] = lim PROVE Account(c)'
  <2>1. Stale(c)' = Stale(c)
    BY <1>0, <1>4, <1>5, <1>10
  <2>2. Used(c)' = more
    BY <1>1, <1>7, <1>8, <2>1 DEF Used
  <2>3. BuiltFrom(heap[lim], ConfigOf(c))
    BY <1>0, <1>10 DEF IInv, LimiterMatchesConfig
  <2>4. Paid(ConfigOf(c), heap[lim], w.start, used, w.held, clock)
    BY <1>0, <1>9, <1>10 DEF Account
  <2>5. Paid(ConfigOf(c), left, w.start, more, w.held, clock)
    BY <1>0, <1>7, <1>9, <2>3, <2>4, AllowPays
  <2>6. heap'[lim] = left
    BY <1>0, <1>2 DEF TypeOK
  <2> HIDE DEF left, yes, more, used
  <2> QED
    BY <1>0, <1>2, <1>8, <1>9, <1>10, <2>2, <2>5, <2>6 DEF Account
<1>11. ASSUME limiters[c] # lim PROVE Account(c)'
  <2>1. Cardinality(Stale(c) \ {g}) = Cardinality(Stale(c)) - 1
    BY <1>0, <1>5, <1>7, <1>11, FS_RemoveElement
  <2>2. Stale(c)' = Stale(c) \ {g}
    BY <1>0, <1>4
  <2>3. Used(c)' \in Nat /\ Used(c)' <= used
    <3>1. Cardinality(Stale(c) \ {g}) \in Nat
      BY <1>7, FS_RemoveElement, FS_CardinalityType
    <3> HIDE DEF yes, used, w
    <3> QED
      BY <1>1, <1>7, <1>8, <2>1, <2>2, <3>1 DEF Used
  <2>4. limiters[c] # nil => heap'[limiters[c]] = heap[limiters[c]]
    BY <1>0, <1>2, <1>11 DEF TypeOK
  <2>5. limiters[c] = nil => Used(c)' <= w.held
    BY <1>7, <1>9, <2>3 DEF Account
  <2>6. limiters[c] # nil =>
          Paid(ConfigOf(c), heap[limiters[c]], w.start, Used(c)', w.held, clock)
    <3> HAVE limiters[c] # nil
    <3> DEFINE old  == heap[limiters[c]]
               next == Used(c)'
    <3>1. old \in Limiters /\ BuiltFrom(old, ConfigOf(c))
      BY <1>0 DEF IInv, Links, LimiterMatchesConfig
    <3>2. Paid(ConfigOf(c), old, w.start, used, w.held, clock)
      BY <1>9 DEF Account
    <3>3. next \in Nat /\ next <= used
      BY <2>3
    <3> HIDE DEF old, next, used, w
    <3>4. Paid(ConfigOf(c), old, w.start, next, w.held, clock)
      BY <1>7, <1>9, <3>1, <3>2, <3>3, PaidLess
    <3> QED
      BY <3>4 DEF old, next
  <2> QED
    BY <1>2, <1>8, <1>9, <2>4, <2>5, <2>6 DEF Account
<1> QED
  BY <1>6, <1>10, <1>11 DEF AInv

\* An action that decides nothing, makes nothing and drops nothing, and leaves
\* everyone who is about to ask an old limiter where he is, keeps all accounts.
LEMMA NothingSpent ==
  ASSUME IInv, AInv, UNCHANGED <<configs, limiters, heap, watch>>,
         \/ clock' = clock
         \/ clock' = clock + 1,
         \A g \in Goroutines :
           \/ pc'[g] = "decide" /\ pc[g] = "decide"
                /\ call'[g].client = call[g].client /\ call'[g].lim = call[g].lim
           \/ pc'[g] # "decide" /\ pc[g] # "decide"
           \/ /\ pc[g] # "decide" /\ call'[g].client \in Clients
              /\ call'[g].lim = limiters[call'[g].client]
  PROVE  AInv'
<1> SUFFICES ASSUME NEW c \in Clients PROVE Account(c)'
  BY DEF AInv
<1>1. Stale(c)' = Stale(c)
  BY DEF Stale, Holding
<1>2. Used(c)' = Used(c) /\ ConfigOf(c)' = ConfigOf(c) /\ Account(c)
  BY <1>1 DEF Used, ConfigOf, AInv
<1>3. CASE clock' = clock
  BY <1>2, <1>3 DEF Account
<1>4. CASE clock' = clock + 1
  <2>1. clock \in Nat /\ watch[c].start \in Nat
    BY DEF IInv, TypeOK
  <2>2. watch[c].start <= clock'
    BY <1>2, <1>4, <2>1 DEF Account
  <2>3. limiters[c] # nil => heap[limiters[c]] \in Limiters
                             /\ BuiltFrom(heap[limiters[c]], ConfigOf(c))
    BY DEF IInv, Links, LimiterMatchesConfig
  <2>4. limiters[c] # nil => Paid(ConfigOf(c), heap[limiters[c]], watch[c].start,
                                  Used(c), watch[c].held, clock')
    BY <1>2, <1>4, <2>1, <2>3, PaidLater DEF Account
  <2> QED
    BY <1>2, <2>2, <2>4 DEF Account
<1> QED
  BY <1>3, <1>4

LEMMA InitAInv == Init => AInv
<1> SUFFICES ASSUME Init, NEW c \in Clients PROVE Account(c)
  BY DEF AInv
<1>1. Stale(c) = {}
  BY DEF Init, Stale, Holding
<1>2. Cardinality({}) = 0
  BY FS_EmptySet
<1> QED
  BY <1>1, <1>2 DEF Init, Account, Used

\* Every action keeps the accounts.
LEMMA StepAInv == WindowsFit /\ IInv /\ EInv /\ AInv /\ [Next]_vars => AInv'
<1> SUFFICES ASSUME WindowsFit, IInv, EInv, AInv, [Next]_vars PROVE AInv'
  OBVIOUS
<1>0. TypeOK /\ Links
  BY DEF IInv
<1>1. ASSUME NEW g \in Goroutines, NEW c \in Clients, Arrive(g, c) PROVE AInv'
  BY <1>0, <1>1, NothingSpent DEF Arrive, TypeOK
<1>2. ASSUME NEW g \in Goroutines, Get(g) PROVE AInv'
  <2>1. /\ call' = [call EXCEPT ![g].lim = limiters[call[g].client]]
        /\ pc[g] = "lookup" /\ pc' = [pc EXCEPT ![g] = "decide"]
        /\ UNCHANGED <<configs, limiters, heap, watch, clock>>
    BY <1>2 DEF Get, observers
  <2>2. call[g].client \in Clients
    BY <1>0, <2>1 DEF Links
  <2> QED
    BY <1>0, <2>1, <2>2, NothingSpent DEF TypeOK
<1>3. ASSUME NEW g \in Goroutines, NEW a \in Addresses \ Reachable, Create(g, a)
      PROVE  AInv'
  BY <1>3, CreateKeepsAccounts
<1>4. ASSUME NEW g \in Goroutines, Decide(g) PROVE AInv'
  BY <1>4, DecideKeepsAccounts
<1>5. ASSUME NEW g \in Goroutines, Record(g) PROVE AInv'
  BY <1>0, <1>5, NothingSpent DEF Record, TypeOK, observers
<1>6. ASSUME NEW c \in Clients, NEW cfg \in Configs, SetConfig(c, cfg) PROVE AInv'
  BY <1>6, ChangeKeepsAccounts DEF SetConfig
<1>7. ASSUME NEW c \in Clients, RemoveClient(c) PROVE AInv'
  BY <1>7, ChangeKeepsAccounts DEF RemoveClient
<1>8. CASE Tick
  BY <1>8, NothingSpent DEF Tick, observers
<1>9. CASE UNCHANGED vars
  BY <1>9, NothingSpent DEF vars
<1> QED
  BY <1>1, <1>2, <1>3, <1>4, <1>5, <1>6, <1>7, <1>8, <1>9 DEF Next, Step

\* The rate limit for any number of goroutines sharing a client's limiter, and
\* across any configuration changes: since its last change a client gets through
\* what its Config allows and the requests that held its old limiter.  For
\* windows the code can represent; beyond them it does not hold.
THEOREM Admissions == WindowsFit /\ Spec => []AdmissionBound
<1>1. WindowsFit /\ IInv /\ AInv => AdmissionBound
  <2> SUFFICES ASSUME WindowsFit, IInv, AInv, NEW c \in Clients
               PROVE  watch[c].passed * Unit
                        <= Allowance(ConfigOf(c), clock - watch[c].start)
                             + watch[c].held * Unit
    BY DEF AdmissionBound
  <2>1. Account(c)
    BY DEF AInv
  <2> QED
    BY <2>1, AccountBounds
<1>2. SUFFICES ASSUME WindowsFit PROVE Spec => []AdmissionBound
  OBVIOUS
<1>3. AInv /\ IInv /\ EInv /\ [Next]_vars => AInv'
  BY <1>2, StepAInv
<1>4. IInv /\ AInv => AdmissionBound
  BY <1>1, <1>2
<1> QED
  BY InitIInv, StepIInv, InitEInv, StepEInv, InitAInv, <1>3, <1>4, PTL DEF Spec

-----------------------------------------------------------------------------
\* Arithmetic of a lazily refilled bucket, a tick or an Allow later.
LEMMA BucketFinds ==
  ASSUME NEW b \in TokenBuckets, NEW C \in Int, NEW R \in Nat,
         b.capacity = C, b.refillRate = R, NEW now \in Nat
  PROVE  /\ Refill(b, now).tokens \in Int
         /\ Refill(b, now + 1).tokens = MinOf(C, Refill(b, now).tokens + R)
         /\ Refill(LimiterAllow(b, now).limiter, now).tokens =
              Refill(b, now).tokens - (IF Refill(b, now).tokens >= Unit THEN Unit ELSE 0)
         /\ LimiterAllow(b, now).decision.Allowed = (Refill(b, now).tokens >= Unit)
<1>0. /\ b.tokens \in Int /\ b.lastRefill \in Nat /\ b.type = AlgorithmTokenBucket
      /\ Unit \in Nat /\ AlgorithmSlidingWindow # AlgorithmTokenBucket
  BY UnitAssumption DEF TokenBuckets, AlgorithmSlidingWindow, AlgorithmTokenBucket
<1> PICK gain \in Int : gain = (now - b.lastRefill) * R
  BY <1>0, IntProduct
<1>1. ((now + 1) - b.lastRefill) * R = gain + R
  <2> PICK k \in Int : k = now - b.lastRefill
    BY <1>0
  <2>1. (now + 1) - b.lastRefill = k + 1
    BY <1>0
  <2>2. (k + 1) * R = k * R + 1 * R /\ 1 * R = R
    BY ProductOfSum
  <2> QED
    BY <2>1, <2>2
<1> DEFINE most == MinOf(C, b.tokens + gain)
           full == Refill(b, now)
           yes  == most >= Unit
           left == IF yes THEN [full EXCEPT !.tokens = @ - Unit] ELSE full
           rest == most - (IF yes THEN Unit ELSE 0)
<1>2. most \in Int /\ most <= C
  BY <1>0 DEF MinOf
<1>3. full = [b EXCEPT !.tokens = most, !.lastRefill = now]
  BY DEF Refill
<1>4. Refill(b, now + 1).tokens = MinOf(C, b.tokens + (gain + R))
  <2>1. Refill(b, now + 1) =
          [b EXCEPT !.tokens = MinOf(b.capacity, b.tokens + ((now + 1) - b.lastRefill) * b.refillRate),
                    !.lastRefill = now + 1]
    BY DEF Refill
  <2> QED
    BY <1>1, <2>1 DEF TokenBuckets
<1>5. MinOf(C, b.tokens + (gain + R)) = MinOf(C, most + R)
  BY <1>0 DEF MinOf
<1> HIDE DEF most, full
<1>6. full \in TokenBuckets /\ full.tokens = most /\ full.lastRefill = now
      /\ full.capacity = C /\ full.refillRate = R
  BY <1>0, <1>2, <1>3 DEF TokenBuckets
<1>7. /\ LimiterAllow(b, now).limiter = left
      /\ LimiterAllow(b, now).decision.Allowed = yes
  BY <1>0, <1>6 DEF LimiterAllow, TokenBucketAllow, full
<1>8. /\ left.tokens = rest /\ left.lastRefill = now
      /\ left.capacity = C /\ left.refillRate = R
  BY <1>0, <1>2, <1>6 DEF TokenBuckets
<1>9. rest \in Int /\ rest <= C
  BY <1>0, <1>2
<1> HIDE DEF left, yes, rest
<1>10. Refill(left, now).tokens = rest
  <2>1. (now - now) * R = 0
    OBVIOUS
  <2>2. left \in TokenBuckets
    BY <1>0, <1>6, <1>7, AllowType DEF left, TokenBuckets
  <2>3. MinOf(C, rest + 0) = rest
    BY <1>9 DEF MinOf
  <2>4. Refill(left, now) = [left EXCEPT !.tokens = MinOf(C, rest + 0), !.lastRefill = now]
    BY <1>8, <2>1 DEF Refill
  <2> QED
    BY <2>2, <2>3, <2>4 DEF TokenBuckets
<1> QED
  BY <1>4, <1>5, <1>6, <1>7, <1>10, <1>2 DEF full, yes, rest

\* The tokens a client finds depend on its own limiter and the time only.
LEMMA InHandKept ==
  ASSUME clock' = clock, limiters'[Watched] = limiters[Watched],
         limiters[Watched] # nil => heap'[limiters[Watched]] = heap[limiters[Watched]]
  PROVE  InHand' = InHand
<1>1. CASE limiters[Watched] = nil
  BY <1>1 DEF InHand
<1>2. CASE limiters[Watched] # nil
  BY <1>2, Zenon DEF InHand
<1> QED
  BY <1>1, <1>2

\* The Config that is watched, while it is in force, and the limiter that goes
\* with it.
LEMMA GivenBucket ==
  ASSUME IInv, Watched \in Clients, ConfigOf(Watched) = Given,
         Given.Algorithm = AlgorithmTokenBucket
  PROVE  /\ Given.Burst \in Nat /\ Given.RPS \in Nat
         /\ limiters[Watched] # nil =>
              LET b == heap[limiters[Watched]]
              IN  /\ limiters[Watched] \in Addresses
                  /\ b \in TokenBuckets /\ b.capacity = Given.Burst /\ b.refillRate = Given.RPS
<1>1. Given.RPS \in Int /\ Given.Burst \in Int /\ Validate(Given)
  BY ConfigInForce DEF IInv
<1>2. Given.Burst \in Nat /\ Given.RPS \in Nat
  BY <1>1, UnitAssumption DEF Validate
<1>3. ASSUME limiters[Watched] # nil
      PROVE  LET b == heap[limiters[Watched]]
             IN  /\ limiters[Watched] \in Addresses
                 /\ b \in TokenBuckets /\ b.capacity = Given.Burst /\ b.refillRate = Given.RPS
  <2>1. limiters[Watched] \in Addresses
    BY <1>3 DEF IInv, TypeOK
  <2>2. PICK b : b = heap[limiters[Watched]]
    OBVIOUS
  <2>3. b \in Limiters /\ BuiltFrom(b, Given)
    BY <1>3, <2>2 DEF IInv, Links, LimiterMatchesConfig
  <2>4. b.type = AlgorithmTokenBucket /\ b.capacity = Given.Burst /\ b.refillRate = Given.RPS
    BY <2>3 DEF BuiltFrom
  <2>5. b \in TokenBuckets
    BY <2>3, <2>4 DEF Limiters, SlidingWindows, AlgorithmSlidingWindow, AlgorithmTokenBucket
  <2> QED
    BY <2>1, <2>2, <2>4, <2>5
<1> QED
  BY <1>2, <1>3

\* At most one goroutine decides in a step.
LEMMA OneDecides ==
  ASSUME TypeOK, NEW g \in Goroutines, NEW h \in Goroutines, Decide(g), Decide(h)
  PROVE  g = h
<1>1. pc' = [pc EXCEPT ![g] = "record"] /\ pc' = [pc EXCEPT ![h] = "record"] /\ pc[h] = "decide"
  BY DEF Decide
<1> QED
  BY <1>1 DEF TypeOK

\* The limiter in the map answers: it admits exactly when a token is there, and
\* takes it.
LEMMA DecisionMeans ==
  ASSUME IInv, Watched \in Clients, ConfigOf(Watched) = Given,
         Given.Algorithm = AlgorithmTokenBucket,
         NEW g \in Goroutines, Decide(g), call[g].lim = limiters[Watched]
  PROVE  /\ clock' = clock /\ epoch' = epoch /\ InHand \in Int
         /\ \/ InHand >= Unit /\ InHand' = InHand - Unit /\ Answers(TRUE)
            \/ ~(InHand >= Unit) /\ InHand' = InHand /\ ~Answers(TRUE) /\ Answers(FALSE)
<1> DEFINE a == limiters[Watched]
           b == heap[a]
<1>0. TypeOK /\ clock \in Nat /\ a # nil
  BY DEF IInv, TypeOK, Links, Decide
<1>1. /\ Given.Burst \in Int /\ Given.RPS \in Nat /\ a \in Addresses
      /\ b \in TokenBuckets /\ b.capacity = Given.Burst /\ b.refillRate = Given.RPS
  BY <1>0, GivenBucket
<1>2. PICK r : r = LimiterAllow(b, clock)
  OBVIOUS
<1>3. PICK k : k = Refill(b, clock).tokens
  OBVIOUS
<1>4. PICK yes : yes = r.decision.Allowed
  OBVIOUS
<1>5. /\ heap' = [heap EXCEPT ![a] = r.limiter] /\ limiters' = limiters
      /\ clock' = clock /\ epoch' = epoch
      /\ call' = [call EXCEPT ![g].allowed = yes]
  BY <1>2, <1>4 DEF Decide
<1> HIDE DEF b
<1>6. /\ k \in Int /\ yes = (k >= Unit)
      /\ Refill(r.limiter, clock).tokens = k - (IF k >= Unit THEN Unit ELSE 0)
  BY <1>0, <1>1, <1>2, <1>3, <1>4, BucketFinds
<1>7. InHand = k
  BY <1>0, <1>3 DEF InHand, b
<1>8. InHand' = Refill(r.limiter, clock).tokens
  <2>1. limiters'[Watched] = a /\ heap'[a] = r.limiter
    BY <1>0, <1>1, <1>5 DEF TypeOK
  <2> QED
    BY <1>0, <1>5, <2>1, Zenon DEF InHand
<1>9. call'[g].allowed = yes
  BY <1>0, <1>5 DEF TypeOK
<1>10. \A h \in Goroutines : Decide(h) => h = g
  BY <1>0, OneDecides
<1>11. \A given : Answers(given) <=> given = yes
  BY <1>9, <1>10, Zenon DEF Answers
<1>12. CASE k >= Unit
  <2>1. yes = TRUE /\ Refill(r.limiter, clock).tokens = k - Unit
    BY <1>6, <1>12
  <2> QED
    BY <1>5, <1>6, <1>7, <1>8, <1>11, <1>12, <2>1
<1>13. CASE ~(k >= Unit)
  <2>0. yes \in BOOLEAN
    BY <1>0, <1>1, <1>2, <1>4, AllowType DEF Limiters
  <2>1. yes = FALSE
    BY <1>6, <1>13, <2>0
  <2>2. Refill(r.limiter, clock).tokens = k - 0 /\ k - 0 = k
    BY <1>6, <1>13
  <2> QED
    BY <1>5, <1>6, <1>7, <1>8, <1>11, <1>13, <2>1, <2>2
<1> QED
  BY <1>12, <1>13

LEMMA TickMeans ==
  ASSUME IInv, Watched \in Clients, ConfigOf(Watched) = Given,
         Given.Algorithm = AlgorithmTokenBucket, Tick
  PROVE  /\ clock' = clock + 1 /\ epoch' = epoch /\ InHand \in Int
         /\ InHand' = MinOf(Given.Burst, InHand + Given.RPS)
         /\ \A yes : ~Answers(yes)
<1>0. TypeOK /\ clock \in Nat
  BY DEF IInv, TypeOK
<1>1. clock' = clock + 1 /\ UNCHANGED <<heap, limiters, epoch>>
  BY DEF Tick, observers
<1>2. \A yes : ~Answers(yes)
  <2>1. clock' # clock
    BY <1>0, <1>1
  <2> QED
    BY <2>1, Zenon DEF Answers, Decide
<1>3. Given.Burst \in Nat /\ Given.RPS \in Nat
  BY GivenBucket
<1>4. CASE limiters[Watched] = nil
  <2>1. InHand = Given.Burst /\ InHand' = Given.Burst
    BY <1>1, <1>4 DEF InHand
  <2> QED
    BY <1>1, <1>2, <1>3, <2>1 DEF MinOf
<1>5. CASE limiters[Watched] # nil
  <2>1. PICK b : b = heap[limiters[Watched]]
    OBVIOUS
  <2>2. b \in TokenBuckets /\ b.capacity = Given.Burst /\ b.refillRate = Given.RPS
    BY <1>5, <2>1, GivenBucket
  <2>3. InHand = Refill(b, clock).tokens
    BY <1>5, <2>1 DEF InHand
  <2>4. InHand' = Refill(b, clock + 1).tokens
    BY <1>1, <1>5, <2>1, Zenon DEF InHand
  <2> QED
    BY <1>0, <1>1, <1>2, <1>3, <2>2, <2>3, <2>4, BucketFinds
<1> QED
  BY <1>4, <1>5

\* Whatever else happens, a new limiter for the client included, the client finds
\* the tokens it would have found.
LEMMA OthersMean ==
  ASSUME IInv, EInv, Watched \in Clients, ConfigOf(Watched) = Given,
         Given.Algorithm = AlgorithmTokenBucket,
         Next, ~Tick, ~Changed,
         \A g \in Goroutines : Decide(g) => call[g].lim # limiters[Watched]
  PROVE  clock' = clock /\ InHand' = InHand
<1>0. TypeOK /\ Links /\ clock \in Nat
  BY DEF IInv, TypeOK
<1>1. ASSUME UNCHANGED <<heap, limiters, clock>> PROVE clock' = clock /\ InHand' = InHand
  BY <1>1, InHandKept
<1>2. ASSUME NEW g \in Goroutines, NEW c \in Clients, Arrive(g, c)
      PROVE  clock' = clock /\ InHand' = InHand
  BY <1>1, <1>2 DEF Arrive
<1>3. ASSUME NEW g \in Goroutines, Get(g) \/ Record(g)
      PROVE  clock' = clock /\ InHand' = InHand
  BY <1>1, <1>3 DEF Get, Record
<1>4. ASSUME NEW g \in Goroutines, NEW a \in Addresses \ Reachable, Create(g, a)
      PROVE  clock' = clock /\ InHand' = InHand
  <2> DEFINE c == call[g].client
  <2>1. PICK new : new = newLimiter(ConfigOf(c), clock)
    OBVIOUS
  <2>2. /\ limiters[c] = nil /\ clock' = clock
        /\ heap' = [heap EXCEPT ![a] = new] /\ limiters' = [limiters EXCEPT ![c] = a]
    BY <1>4, <2>1 DEF Create, Absent
  <2>3. c \in Clients
    BY <1>0, <1>4 DEF Links, Create
  <2>4. CASE c = Watched
    <3>1. limiters'[Watched] = a /\ heap'[a] = new /\ a # nil
      BY <1>0, <2>2, <2>3, <2>4, ManagerAssumption DEF TypeOK
    <3>2. InHand = Given.Burst
      BY <2>2, <2>4 DEF InHand
    <3>3. InHand' = Refill(new, clock).tokens
      BY <2>2, <3>1, Zenon DEF InHand
    <3>4. new = NewTokenBucket(Given.Burst, Given.RPS, clock)
      BY <2>1, <2>4 DEF newLimiter, AlgorithmSlidingWindow, AlgorithmTokenBucket
    <3>5. Given.Burst \in Nat /\ Given.RPS \in Nat
      BY GivenBucket
    <3>6. Refill(new, clock).tokens = MinOf(Given.Burst, Given.Burst + (clock - clock) * Given.RPS)
      BY <3>4 DEF Refill, NewTokenBucket
    <3>7. (clock - clock) * Given.RPS = 0
      BY <1>0, <3>5
    <3>8. MinOf(Given.Burst, Given.Burst + 0) = Given.Burst
      BY <3>5 DEF MinOf
    <3> QED
      BY <2>2, <3>2, <3>3, <3>6, <3>7, <3>8
  <2>5. CASE c # Watched
    <3>1. limiters'[Watched] = limiters[Watched]
      BY <1>0, <2>2, <2>5 DEF TypeOK
    <3>2. limiters[Watched] # a
      BY DEF Reachable
    <3>3. limiters[Watched] # nil => heap'[limiters[Watched]] = heap[limiters[Watched]]
      BY <1>0, <2>2, <3>2 DEF TypeOK
    <3> QED
      BY <2>2, <3>1, <3>3, InHandKept
  <2> QED
    BY <2>4, <2>5
<1>5. ASSUME NEW g \in Goroutines, Decide(g)
      PROVE  clock' = clock /\ InHand' = InHand
  <2>1. PICK lim : lim = call[g].lim /\ lim # limiters[Watched]
    BY <1>5
  <2>2. \E new : heap' = [heap EXCEPT ![lim] = new]
    BY <1>5, <2>1 DEF Decide
  <2>3. UNCHANGED <<limiters, clock>>
    BY <1>5 DEF Decide
  <2>4. limiters[Watched] # nil => heap'[limiters[Watched]] = heap[limiters[Watched]]
    BY <1>0, <2>1, <2>2 DEF TypeOK
  <2> QED
    BY <2>3, <2>4, InHandKept
<1>6. ASSUME NEW c \in Clients, Discard(c), NewEpoch(c), UNCHANGED <<heap, clock>>
      PROVE  clock' = clock /\ InHand' = InHand
  <2>1. c # Watched
    <3>1. epoch[c] \in Nat /\ epoch'[c] = epoch[c] + 1
      BY <1>0, <1>6 DEF NewEpoch, TypeOK
    <3>2. epoch'[c] # epoch[c]
      BY <3>1
    <3> QED
      BY <3>2 DEF Changed
  <2>2. limiters'[Watched] = limiters[Watched]
    BY <1>0, <1>6, <2>1 DEF Discard, TypeOK
  <2> QED
    BY <1>6, <2>2, InHandKept
<1>7. ASSUME NEW c \in Clients, NEW cfg \in Configs, SetConfig(c, cfg)
      PROVE  clock' = clock /\ InHand' = InHand
  BY <1>6, <1>7 DEF SetConfig
<1>8. ASSUME NEW c \in Clients, RemoveClient(c)
      PROVE  clock' = clock /\ InHand' = InHand
  BY <1>6, <1>8 DEF RemoveClient
<1> QED
  BY <1>2, <1>3, <1>4, <1>5, <1>7, <1>8 DEF Next, Step

-----------------------------------------------------------------------------
\* Given is a token-bucket Config, Watched one of the clients.
Watchable == Watched \in Clients /\ Given.Algorithm = AlgorithmTokenBucket

\* What the observer has noted is a number of requests and a time not yet to come.
Noted == admitted \in Nat /\ begun \in Nat /\ begun <= clock

\* The clock of a step, and that a change is one of the client's epoch.
LEMMA ClockRuns ==
  ASSUME TypeOK, [Next]_vars
  PROVE  /\ clock' = clock \/ clock' = clock + 1
         /\ Changed => clock' = clock /\ \A yes : ~Answers(yes)
<1>1. ASSUME NEW g \in Goroutines, Decide(g) PROVE clock' = clock /\ ~Changed
  BY <1>1 DEF Decide, Changed
<1>2. \A yes : Changed => ~Answers(yes)
  BY <1>1 DEF Answers
<1>3. CASE Tick
  BY <1>2, <1>3 DEF Tick, observers, Changed
<1>4. CASE ~Tick
  BY <1>2, <1>4, Zenon DEF Next, Step, Arrive, Get, Create, Decide, Record, SetConfig, RemoveClient, vars
<1> QED
  BY <1>3, <1>4

LEMMA StepNoted ==
  ASSUME TypeOK, Noted, [ContractNext]_contractVars
  PROVE  Noted'
<1> PICK t \in Nat : t = clock
  BY DEF TypeOK
<1> PICK n, b \in Nat : n = admitted /\ b = begun /\ b <= t
  BY DEF Noted
<1>0. t <= t /\ b <= t + 1
  OBVIOUS
<1>1. CASE Look
  <2>1. admitted' = 0 /\ begun' = t /\ clock' = t
    BY <1>1 DEF Look, vars
  <2> QED
    BY <1>0, <2>1 DEF Noted
<1>2. CASE Next /\ Hear
  <2>1. clock' = t \/ clock' = t + 1
    BY <1>2, ClockRuns
  <2>2. admitted' \in {0, n, n + 1}
    BY <1>2 DEF Hear
  <2>3. begun' = b \/ (begun' = t /\ clock' = t)
    BY <1>2, ClockRuns DEF Hear
  <2>4. b <= clock' /\ begun' \in Nat /\ begun' <= clock'
    BY <1>0, <2>1, <2>3
  <2> QED
    BY <2>2, <2>4 DEF Noted
<1>3. CASE UNCHANGED contractVars
  BY <1>3 DEF contractVars, vars, Noted
<1> QED
  BY <1>1, <1>2, <1>3 DEF ContractNext

\* A Config comes into force with a full bucket.
LEMMA ChangeStarts ==
  ASSUME TypeOK, Watched \in Clients, Changed, [ContractNext]_contractVars
  PROVE  Contract!Init'
<1>1. Next /\ Hear
  BY DEF Changed, ContractNext, Look, contractVars, vars
<1>2. \A yes : ~Answers(yes)
  BY <1>1, ClockRuns
<1>3. heard' = "none" /\ admitted' = 0 /\ begun' = clock /\ clock' = clock /\ clock \in Nat
  BY <1>1, <1>2, ClockRuns DEF Hear, TypeOK
<1>4. clock' - begun' = 0
  <2>1. clock - clock = 0
    BY <1>3
  <2> QED
    BY <1>3, <2>1
<1>5. limiters'[Watched] = nil
  <2>1. ASSUME NEW c \in Clients, Discard(c), NewEpoch(c) PROVE limiters'[Watched] = nil
    <3>1. epoch' = [epoch EXCEPT ![c] = @ + 1] /\ limiters' = [limiters EXCEPT ![c] = nil]
      BY <2>1 DEF Discard, NewEpoch
    <3>2. c = Watched
      BY <3>1 DEF Changed, TypeOK
    <3> QED
      BY <3>1, <3>2 DEF TypeOK
  <2>2. \/ \E c \in Clients : Discard(c) /\ NewEpoch(c)
        \/ epoch' = epoch
    BY <1>1, Zenon DEF Next, Step, Arrive, Get, Create, Decide, Record, Tick, observers,
       SetConfig, RemoveClient
  <2> QED
    BY <2>1, <2>2 DEF Changed
<1>6. InHand' = Given.Burst
  BY <1>5, Zenon DEF InHand
<1> QED
  BY <1>3, <1>4, <1>6 DEF Contract!Init

\* Until the next change, every step of the Store is one of the contract or none
\* of its business.
LEMMA StepContract ==
  ASSUME Watchable, IInv, EInv, Noted, ConfigOf(Watched) = Given, ~Changed,
         [ContractNext]_contractVars
  PROVE  [Contract!Next]_(Contract!vars)
<1>0. Watched \in Clients /\ Given.Algorithm = AlgorithmTokenBucket
  BY DEF Watchable
<1> PICK t \in Nat : t = clock
  BY DEF IInv, TypeOK
<1> PICK n, b \in Nat : n = admitted /\ b = begun /\ b <= t
  BY DEF Noted
<1>1. CASE Look
  <2>1. UNCHANGED <<limiters, heap, clock>> /\ heard' = heard /\ admitted' = 0 /\ begun' = t
    BY <1>1 DEF Look, vars
  <2>2. clock' - begun' = 0
    <3>1. t - t = 0
      OBVIOUS
    <3> QED
      BY <2>1, <3>1
  <2>3. InHand' = InHand
    BY <2>1, InHandKept
  <2> QED
    BY <2>1, <2>2, <2>3 DEF Contract!Next, Contract!Observe
<1>2. ASSUME Next, Hear, NEW g \in Goroutines, Decide(g), call[g].lim = limiters[Watched]
      PROVE  Contract!Next
  <2>1. clock' = t /\ begun' = b
    BY <1>0, <1>2, DecisionMeans DEF Hear
  <2>2. clock' - begun' = clock - begun
    BY <2>1
  <2>3. CASE InHand >= Unit /\ InHand' = InHand - Unit /\ Answers(TRUE)
    <3>1. heard' = "allow" /\ admitted' = admitted + 1
      BY <1>2, <2>3 DEF Hear
    <3> QED
      BY <2>2, <2>3, <3>1 DEF Contract!Next, Contract!Admit
  <2>4. CASE ~(InHand >= Unit) /\ InHand' = InHand /\ ~Answers(TRUE) /\ Answers(FALSE)
    <3>1. heard' = "deny" /\ admitted' = admitted
      BY <1>2, <2>4 DEF Hear
    <3>2. InHand < Unit
      <4> PICK c \in Int : c = InHand
        BY <1>0, <1>2, DecisionMeans
      <4> QED
        BY <2>4, UnitAssumption
    <3> QED
      BY <2>2, <2>4, <3>1, <3>2 DEF Contract!Next, Contract!Refuse
  <2> QED
    BY <1>0, <1>2, <2>3, <2>4, DecisionMeans
<1>3. ASSUME Hear, Tick PROVE Contract!Next
  <2>1. /\ clock' = t + 1 /\ begun' = b /\ admitted' = admitted /\ heard' = "none"
        /\ InHand \in Int /\ InHand' = MinOf(Given.Burst, InHand + Given.RPS)
    <3>1. t + 1 # t
      OBVIOUS
    <3> QED
      BY <1>0, <1>3, <3>1, TickMeans DEF Hear
  <2>2. PICK s1, s \in Nat : s1 = clock' - begun' /\ s = clock - begun /\ s1 - s = 1 /\ s1 > s
    <3>1. (t + 1) - b \in Nat /\ t - b \in Nat /\ ((t + 1) - b) - (t - b) = 1 /\ (t + 1) - b > t - b
      OBVIOUS
    <3> QED
      BY <2>1, <3>1
  <2>3. PICK B, R \in Nat : B = Given.Burst /\ R = Given.RPS
    BY <1>0, GivenBucket
  <2>4. PICK c \in Int : c = InHand
    BY <2>1
  <2>5. InHand' = Contract!Capped(InHand + (s1 - s) * Given.RPS)
    <3>1. InHand' = IF c + R <= B THEN c + R ELSE B
      BY <2>1, <2>3, <2>4 DEF MinOf
    <3>2. Contract!Capped(c + R) = IF c + R <= B THEN c + R ELSE B
      BY <2>3 DEF Contract!Capped
    <3>3. (s1 - s) * R = R
      BY <2>2, <2>3
    <3> QED
      BY <2>3, <2>4, <3>1, <3>2, <3>3
  <2>6. Contract!Accrue
    BY <2>1, <2>2, <2>5, Zenon DEF Contract!Accrue
  <2> QED
    BY <2>6 DEF Contract!Next
<1>4. ASSUME Next, Hear, ~Tick,
             \A g \in Goroutines : Decide(g) => call[g].lim # limiters[Watched]
      PROVE  UNCHANGED Contract!vars
  <2>1. clock' = clock /\ InHand' = InHand
    BY <1>0, <1>4, OthersMean
  <2>2. \A yes : ~Answers(yes)
    BY <1>4 DEF Answers
  <2>3. heard' = heard /\ admitted' = admitted /\ begun' = begun
    BY <1>4, <2>1, <2>2 DEF Hear
  <2> QED
    BY <2>1, <2>3 DEF Contract!vars
<1>5. ASSUME UNCHANGED contractVars PROVE UNCHANGED Contract!vars
  <2>1. UNCHANGED <<limiters, heap, clock, heard, admitted, begun>>
    BY <1>5 DEF contractVars, vars
  <2>2. InHand' = InHand
    BY <2>1, InHandKept
  <2> QED
    BY <2>1, <2>2 DEF Contract!vars
<1> QED
  BY <1>1, <1>2, <1>3, <1>4, <1>5 DEF ContractNext

LEMMA InitContract ==
  ASSUME ContractInit
  PROVE  IInv /\ EInv /\ Noted /\ (Watched \in Clients => Contract!Init)
<1>1. IInv /\ EInv
  BY InitIInv, InitEInv DEF ContractInit
<1>2. Noted
  BY DEF ContractInit, Init, Noted
<1>3. ASSUME Watched \in Clients PROVE Contract!Init
  BY <1>3 DEF ContractInit, Init, Contract!Init, InHand
<1> QED
  BY <1>1, <1>2, <1>3

LEMMA StepAll ==
  IInv /\ EInv /\ Noted /\ [ContractNext]_contractVars => (IInv /\ EInv /\ Noted)'
<1>1. [ContractNext]_contractVars => [Next]_vars
  BY DEF ContractNext, contractVars, Look
<1>2. IInv => TypeOK
  BY DEF IInv
<1> QED
  BY <1>1, <1>2, StepIInv, StepEInv, StepNoted

\* A client under a token-bucket Config has one bucket of that Config
\* (manager.go:18-35, 108-123): full when the Config comes into force, then an
\* eager bucket until the next change, for any number of goroutines, clients and
\* changes.  A limiter that was dropped and still answers does not disturb it.
THEOREM OneBucketPerConfig == Watchable => (ContractSpec => ImplementsContract)
<1> SUFFICES ASSUME Watchable PROVE ContractSpec => ImplementsContract
  OBVIOUS
<1>1. ContractInit => (ConfigOf(Watched) = Given => Contract!Init)
  BY InitContract DEF Watchable
<1>2. IInv /\ EInv /\ Noted /\ [ContractNext]_contractVars
        => [Changed => Contract!Init']_contractVars
  BY ChangeStarts DEF IInv, Watchable
<1>3. IInv /\ EInv /\ Noted /\ [ContractNext]_contractVars
        => [ConfigOf(Watched) = Given /\ ~Changed => [Contract!Next]_(Contract!vars)]_contractVars
  BY StepContract
<1> QED
  BY <1>1, <1>2, <1>3, InitContract, StepAll, PTL DEF ContractSpec, ImplementsContract

\* A client whose Config was never changed has none of its own.
Unconfigured == epoch[Watched] = 0 => configs[Watched] = NoConfig

LEMMA StepUnconfigured ==
  ASSUME Watched \in Clients, TypeOK, Unconfigured, [Next]_vars
  PROVE  Unconfigured'
<1>1. ASSUME NEW c \in Clients, NewEpoch(c),
             NEW cfg, configs' = [configs EXCEPT ![c] = cfg]
      PROVE  Unconfigured'
  <2>1. epoch[c] \in Nat /\ epoch' = [epoch EXCEPT ![c] = epoch[c] + 1]
    BY <1>1 DEF NewEpoch, TypeOK
  <2>2. CASE c = Watched
    <3>1. epoch[c] + 1 # 0
      BY <2>1
    <3>2. epoch'[Watched] = epoch[c] + 1
      BY <2>1, <2>2 DEF TypeOK
    <3> QED
      BY <3>1, <3>2 DEF Unconfigured
  <2>3. CASE c # Watched
    BY <1>1, <2>1, <2>3 DEF Unconfigured, TypeOK
  <2> QED
    BY <2>2, <2>3
<1>2. ASSUME NEW c \in Clients, NEW cfg \in Configs, SetConfig(c, cfg) PROVE Unconfigured'
  BY <1>1, <1>2 DEF SetConfig
<1>3. ASSUME NEW c \in Clients, RemoveClient(c) PROVE Unconfigured'
  BY <1>1, <1>3 DEF RemoveClient
<1>4. ASSUME UNCHANGED <<configs, epoch>> PROVE Unconfigured'
  BY <1>4 DEF Unconfigured
<1>5. ASSUME Next, \A c \in Clients : ~RemoveClient(c) /\ \A cfg \in Configs : ~SetConfig(c, cfg)
      PROVE  UNCHANGED <<configs, epoch>>
  BY <1>5, Zenon DEF Next, Step, Arrive, Get, Create, Decide, Record, Tick, observers
<1> QED
  BY <1>2, <1>3, <1>4, <1>5, Zenon DEF vars

\* A client whose Config is never changed has one bucket of the default Config
\* from the start.
THEOREM OneDefaultBucket ==
  Watchable /\ Given = DefaultConfig =>
    (ContractSpec /\ NeverConfigured => Contract!Spec)
<1> SUFFICES ASSUME Watchable, Given = DefaultConfig
             PROVE  ContractSpec /\ NeverConfigured => Contract!Spec
  OBVIOUS
<1>1. epoch[Watched] = 0 /\ (epoch[Watched] = 0)' => ~Changed
  BY DEF Changed
<1>2. Unconfigured /\ epoch[Watched] = 0 => ConfigOf(Watched) = Given
  BY DEF Unconfigured, ConfigOf
<1>3. ContractInit => Unconfigured /\ (Watched \in Clients => Contract!Init)
  BY InitContract DEF ContractInit, Init, Unconfigured, Watchable
<1>4. IInv /\ Unconfigured /\ [ContractNext]_contractVars => Unconfigured'
  BY StepUnconfigured DEF IInv, Watchable, ContractNext, contractVars, Look
<1>5. IInv /\ EInv /\ Noted /\ [ContractNext]_contractVars
        => (ConfigOf(Watched) = Given /\ ~Changed => [Contract!Next]_(Contract!vars))
  BY StepContract
<1>6. Watched \in Clients
  BY DEF Watchable
<1> QED
  BY <1>1, <1>2, <1>3, <1>4, <1>5, <1>6, InitContract, StepAll, PTL
  DEF ContractSpec, Contract!Spec, NeverConfigured

-----------------------------------------------------------------------------
ContractTheory == INSTANCE RateContractProofs
                    WITH Capacity <- Given.Burst, Rate <- Given.RPS,
                         credit <- InHand, outcome <- heard,
                         since <- admitted, span <- clock - begun

\* Without a change the Config in force stays.
LEMMA ConfigStays ==
  ASSUME Watched \in Clients, TypeOK, [Next]_vars, ~Changed
  PROVE  (ConfigOf(Watched))' = ConfigOf(Watched)
<1>1. ASSUME NEW c \in Clients, NewEpoch(c),
             NEW cfg, configs' = [configs EXCEPT ![c] = cfg]
      PROVE  configs'[Watched] = configs[Watched]
  <2>1. epoch[c] \in Nat /\ epoch'[c] = epoch[c] + 1
    BY <1>1 DEF NewEpoch, TypeOK
  <2>2. c # Watched
    BY <2>1 DEF Changed
  <2> QED
    BY <1>1, <2>2 DEF TypeOK
<1>2. ASSUME NEW c \in Clients, NEW cfg \in Configs, SetConfig(c, cfg)
      PROVE  configs'[Watched] = configs[Watched]
  BY <1>1, <1>2 DEF SetConfig
<1>3. ASSUME NEW c \in Clients, RemoveClient(c)
      PROVE  configs'[Watched] = configs[Watched]
  BY <1>1, <1>3 DEF RemoveClient
<1>4. ASSUME Next, \A c \in Clients : ~RemoveClient(c) /\ \A cfg \in Configs : ~SetConfig(c, cfg)
      PROVE  configs' = configs
  BY <1>4, Zenon DEF Next, Step, Arrive, Get, Create, Decide, Record, Tick
<1>5. configs'[Watched] = configs[Watched]
  BY <1>2, <1>3, <1>4, Zenon DEF vars
<1> QED
  BY <1>5, Zenon DEF ConfigOf

\* The contract's invariant carries over: it holds when the Config comes into
\* force and every step until the next change is one of the contract.
THEOREM WatchedRate == Watchable => (ContractSpec => []WatchedRateBound)
<1> SUFFICES ASSUME Watchable PROVE ContractSpec => []WatchedRateBound
  OBVIOUS
<1> DEFINE InForce == ConfigOf(Watched) = Given
<1>0. Watched \in Clients /\ Given.Algorithm = AlgorithmTokenBucket
  BY DEF Watchable
<1>1. [ContractNext]_contractVars => [Next]_vars
  BY DEF ContractNext, contractVars, Look
<1>2. CASE ContractTheory!ContractAssumption
  <2>1. Contract!Init => ContractTheory!IInv
    BY <1>2, ContractTheory!InitPurse DEF Contract!Init, ContractTheory!Init
  <2>2. ContractTheory!IInv /\ [Contract!Next]_(Contract!vars) => ContractTheory!IInv'
    <3>1. [Contract!Next]_(Contract!vars) => [ContractTheory!Next]_(ContractTheory!vars)
      BY DEF Contract!Next, ContractTheory!Next, Contract!vars, ContractTheory!vars,
         Contract!Accrue, ContractTheory!Accrue, Contract!Capped, ContractTheory!Capped,
         Contract!Admit, ContractTheory!Admit, Contract!Refuse, ContractTheory!Refuse,
         Contract!Forfeit, ContractTheory!Forfeit, Contract!Observe, ContractTheory!Observe
    <3> QED
      BY <1>2, <3>1, ContractTheory!StepPurse
  <2>3. ContractInit => (InForce => ContractTheory!IInv)
    BY <1>0, <2>1, InitContract
  <2>4. IInv /\ [ContractNext]_contractVars /\ Changed => Contract!Init'
    BY <1>0, ChangeStarts DEF IInv
  <2>5. IInv /\ [ContractNext]_contractVars /\ ~Changed /\ InForce' => InForce
    BY <1>0, <1>1, ConfigStays DEF IInv
  <2>6. IInv /\ EInv /\ Noted /\ [ContractNext]_contractVars /\ InForce /\ ~Changed
          => [Contract!Next]_(Contract!vars)
    BY StepContract
  <2>7. (InForce => ContractTheory!IInv) => WatchedRateBound
    BY DEF ContractTheory!IInv, ContractTheory!RateBound, WatchedRateBound
  <2> HIDE DEF InForce
  <2> QED
    BY <2>1, <2>2, <2>3, <2>4, <2>5, <2>6, <2>7, InitContract, StepAll, PTL DEF ContractSpec
<1>3. CASE ~ContractTheory!ContractAssumption
  <2>1. IInv => WatchedRateBound
    <3>1. IInv /\ InForce => ContractTheory!ContractAssumption
      BY <1>0, GivenBucket, ConfigInForce, UnitAssumption
      DEF IInv, Validate, ContractTheory!ContractAssumption
    <3> QED
      BY <1>3, <3>1 DEF WatchedRateBound
  <2> QED
    BY <2>1, InitContract, StepAll, PTL DEF ContractSpec
<1> QED
  BY <1>2, <1>3
=============================================================================
