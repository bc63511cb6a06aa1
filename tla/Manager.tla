------------------------------ MODULE Manager ------------------------------
(***************************************************************************)
(* The in-memory Store (internal/limiter/manager.go) under concurrent      *)
(* requests and configuration changes.                                     *)
(*                                                                         *)
(* A goroutine serving a request runs Allow in three critical sections:    *)
(* the get-or-create under mu, the limiter's own Allow under the limiter's *)
(* mutex, and recordDecision under statsMu.  Between them anything may     *)
(* happen: the limiter a goroutine holds may have been dropped from the    *)
(* map by then.  So limiters are objects with an address, and an address   *)
(* is reused only when neither the map nor a goroutine refers to it.       *)
(***************************************************************************)
EXTENDS Limiter, FiniteSets

CONSTANTS
  Clients, Goroutines, Addresses,
  Configs,        \* what administrators submit, valid or not
  DefaultConfig,  \* manager.go:10
  NoConfig, nil,  \* no entry in the configs map, in the limiters map
  MaxClock,       \* bound: the clock stops here
  MaxRequests,    \* bound: requests that arrive
  MaxChanges      \* bound: configuration changes per client

ASSUME ConfigAssumption ==
  /\ \A cfg \in Configs \cup {DefaultConfig} :
       cfg.RPS \in Int /\ cfg.Burst \in Int
  /\ Validate(DefaultConfig)
  /\ NoConfig \notin Configs

ASSUME ManagerAssumption ==
  /\ nil \notin Addresses /\ nil \notin Clients
  /\ IsFiniteSet(Goroutines)
  /\ MaxClock \in Nat /\ MaxRequests \in Nat /\ MaxChanges \in Nat

VARIABLES
  configs,   \* client -> its stored Config
  limiters,  \* client -> address of its limiter
  heap,      \* address -> the limiter object there
  counts,    \* client -> its ClientStats
  pc,        \* goroutine -> the critical section it enters next
  call,      \* goroutine -> the locals of its Allow
  clock,     \* time.Now
  arrived,   \* observer: requests so far
  epoch,     \* observer: client -> configuration changes so far
  made,      \* observer: address -> client and epoch its limiter was made for
  decided,   \* observer: client -> decisions taken so far, by outcome
  watch      \* observer: client -> what happened since its last change

observers == <<arrived, epoch, made, decided, watch>>
vars == <<configs, limiters, heap, counts, pc, call, clock,
          arrived, epoch, made, decided, watch>>

NoCall == [client |-> nil, lim |-> nil, allowed |-> FALSE, epoch |-> 0]
NoStats == [Allowed |-> 0, Denied |-> 0]

\* One more decision in a client's statistics.
Counted(stats, allowed) ==
  IF allowed THEN [stats EXCEPT !.Allowed = @ + 1]
             ELSE [stats EXCEPT !.Denied = @ + 1]

\* The Config in force for c.
ConfigOf(c) == IF configs[c] = NoConfig THEN DefaultConfig ELSE configs[c]

\* Goroutines that hold a limiter for c and have not run its Allow yet.
Holding(c) == {g \in Goroutines : pc[g] = "decide" /\ call[g].client = c}

\* Addresses something still refers to; the collector may reuse the others.
Reachable == {limiters[c] : c \in Clients} \cup {call[g].lim : g \in Goroutines}

\* c has no limiter, as seen in the critical section that then makes one.
\* Mutant: as seen in an earlier one.
AbsentBefore(c) == TRUE
Absent(c) == limiters[c] = nil

\* c's limiter is dropped from the map.  Mutant: it stays.
Keep(c) == UNCHANGED limiters
Discard(c) == limiters' = [limiters EXCEPT ![c] = nil]

\* A change of c's configuration opens a new epoch.
NewEpoch(c) ==
  /\ epoch[c] < MaxChanges
  /\ epoch' = [epoch EXCEPT ![c] = @ + 1]
  /\ watch' = [watch EXCEPT ![c] = [start  |-> clock,
                                    held   |-> Cardinality(Holding(c)),
                                    passed |-> 0]]

Init ==
  /\ configs = [c \in Clients |-> NoConfig]
  /\ limiters = [c \in Clients |-> nil]
  /\ heap = [a \in Addresses |-> nil]
  /\ counts = [c \in Clients |-> NoStats]
  /\ pc = [g \in Goroutines |-> "idle"]
  /\ call = [g \in Goroutines |-> NoCall]
  /\ clock = 0
  /\ arrived = 0
  /\ epoch = [c \in Clients |-> 0]
  /\ made = [a \in Addresses |-> [client |-> nil, epoch |-> 0]]
  /\ decided = [c \in Clients |-> NoStats]
  /\ watch = [c \in Clients |-> [start |-> 0, held |-> 0, passed |-> 0]]
-----------------------------------------------------------------------------
\* A request for c reaches goroutine g, which calls Allow.
Arrive(g, c) ==
  /\ pc[g] = "idle"
  /\ arrived < MaxRequests
  /\ arrived' = arrived + 1
  /\ pc' = [pc EXCEPT ![g] = "lookup"]
  /\ call' = [call EXCEPT ![g] = [NoCall EXCEPT !.client = c, !.epoch = epoch[c]]]
  /\ UNCHANGED <<configs, limiters, heap, counts, clock, epoch, made, decided, watch>>

\* Allow under mu: the client has a limiter ...
Get(g) ==
  LET c == call[g].client
  IN  /\ pc[g] = "lookup"
      /\ limiters[c] # nil
      /\ call' = [call EXCEPT ![g].lim = limiters[c]]
      /\ pc' = [pc EXCEPT ![g] = "decide"]
      /\ UNCHANGED <<configs, limiters, heap, counts, clock, observers>>

\* ... or it has none and one is made at a from the Config in force.
Create(g, a) ==
  LET c == call[g].client
  IN  /\ pc[g] = "lookup"
      /\ Absent(c)
      /\ heap' = [heap EXCEPT ![a] = newLimiter(ConfigOf(c), clock)]
      /\ limiters' = [limiters EXCEPT ![c] = a]
      /\ call' = [call EXCEPT ![g].lim = a]
      /\ pc' = [pc EXCEPT ![g] = "decide"]
      /\ made' = [made EXCEPT ![a] = [client |-> c, epoch |-> epoch[c]]]
      /\ UNCHANGED <<configs, counts, clock, arrived, epoch, decided, watch>>

\* lim.Allow(), under the limiter's own mutex, on the limiter g holds.
Decide(g) ==
  LET c      == call[g].client
      lim    == call[g].lim
      result == LimiterAllow(heap[lim], clock)
      yes    == result.decision.Allowed
  IN  /\ pc[g] = "decide"
      /\ heap' = [heap EXCEPT ![lim] = result.limiter]
      /\ call' = [call EXCEPT ![g].allowed = yes]
      /\ pc' = [pc EXCEPT ![g] = "record"]
      /\ decided' = [decided EXCEPT ![c] = Counted(@, yes)]
      /\ watch' = [watch EXCEPT ![c].passed = IF yes THEN @ + 1 ELSE @]
      /\ UNCHANGED <<configs, limiters, counts, clock, arrived, epoch, made>>

\* recordDecision under statsMu; then Allow returns and the request is answered.
Record(g) ==
  LET c == call[g].client
  IN  /\ pc[g] = "record"
      /\ counts' = [counts EXCEPT ![c] = Counted(@, call[g].allowed)]
      /\ pc' = [pc EXCEPT ![g] = "idle"]
      /\ call' = [call EXCEPT ![g] = NoCall]
      /\ UNCHANGED <<configs, limiters, heap, clock, observers>>

\* An invalid Config is refused before anything is touched.
SetConfig(c, cfg) ==
  /\ Validate(cfg)
  /\ configs' = [configs EXCEPT ![c] = cfg]
  /\ Discard(c)
  /\ NewEpoch(c)
  /\ UNCHANGED <<heap, counts, pc, call, clock, arrived, made, decided>>

\* Mutant: the statistics go as well.
RemoveForgetsStats(c) ==
  /\ configs' = [configs EXCEPT ![c] = NoConfig]
  /\ Discard(c)
  /\ counts' = [counts EXCEPT ![c] = NoStats]
  /\ NewEpoch(c)
  /\ UNCHANGED <<heap, pc, call, clock, arrived, made, decided>>

RemoveClient(c) ==
  /\ configs' = [configs EXCEPT ![c] = NoConfig]
  /\ Discard(c)
  /\ NewEpoch(c)
  /\ UNCHANGED <<heap, counts, pc, call, clock, arrived, made, decided>>

Tick ==
  /\ clock < MaxClock
  /\ clock' = clock + 1
  /\ UNCHANGED <<configs, limiters, heap, counts, pc, call, observers>>

Step(g) ==
  \/ Get(g)
  \/ \E a \in Addresses \ Reachable : Create(g, a)
  \/ Decide(g)
  \/ Record(g)

Next ==
  \/ \E g \in Goroutines, c \in Clients : Arrive(g, c)
  \/ \E g \in Goroutines : Step(g)
  \/ \E c \in Clients, cfg \in Configs : SetConfig(c, cfg)
  \/ \E c \in Clients : RemoveClient(c)
  \/ Tick

Spec == Init /\ [][Next]_vars
-----------------------------------------------------------------------------
TokenBuckets ==
  [type : {AlgorithmTokenBucket}, tokens : Int, lastRefill : Nat,
   capacity : Int, refillRate : Int]

SlidingWindows ==
  [type : {AlgorithmSlidingWindow}, limit : Int, window : Int,
   windowStart : Int, currentCount : Nat, previousCount : Nat]

ClientStats == [Allowed : Nat, Denied : Nat]

\* Type invariant.
TypeOK ==
  /\ configs \in [Clients -> Configs \cup {NoConfig}]
  /\ limiters \in [Clients -> Addresses \cup {nil}]
  /\ heap \in [Addresses -> TokenBuckets \cup SlidingWindows \cup {nil}]
  /\ counts \in [Clients -> ClientStats]
  /\ pc \in [Goroutines -> {"idle", "lookup", "decide", "record"}]
  /\ call \in [Goroutines -> [client : Clients \cup {nil}, lim : Addresses \cup {nil},
                              allowed : BOOLEAN, epoch : Nat]]
  /\ clock \in Nat /\ arrived \in Nat
  /\ epoch \in [Clients -> Nat]
  /\ made \in [Addresses -> [client : Clients \cup {nil}, epoch : Nat]]
  /\ decided \in [Clients -> ClientStats]
  /\ watch \in [Clients -> [start : Nat, held : Nat, passed : Nat]]

\* lim enforces cfg: the algorithm, and the limits it was built with.
BuiltFrom(lim, cfg) ==
  /\ lim.type = cfg.Algorithm
  /\ lim.type = AlgorithmTokenBucket =>
       lim.capacity = cfg.Burst /\ lim.refillRate = cfg.RPS
  /\ lim.type = AlgorithmSlidingWindow =>
       lim.limit = cfg.Burst /\ lim.window = ToDuration(cfg.Burst \div cfg.RPS)

\* The limiter in the map enforces the Config in force (manager.go:71-76): a
\* change always discards the old one, whoever is using it at that moment, and
\* only ever a valid Config is in force (manager.go:78).
LimiterMatchesConfig ==
  \A c \in Clients :
    /\ Validate(ConfigOf(c))
    /\ limiters[c] # nil => BuiltFrom(heap[limiters[c]], ConfigOf(c))

\* manager.go:112-115: two goroutines never create two limiters for the same
\* client.  Those that looked a client up in one epoch hold the same limiter,
\* and no limiter serves two clients.
OneLimiterPerEpoch ==
  /\ \A a, b \in Reachable \ {nil} : made[a] = made[b] => a = b
  /\ \A c \in Clients : limiters[c] # nil =>
       made[limiters[c]] = [client |-> c, epoch |-> epoch[c]]
  /\ \A g \in Goroutines : call[g].lim # nil =>
       made[call[g].lim].client = call[g].client

\* A request that arrives after a change was stored is never decided by a
\* limiter made before it (README: "a client always starts clean under new
\* limits").
ChangeTakesEffect ==
  \A g \in Goroutines : pc[g] \in {"decide", "record"} =>
    made[call[g].lim].epoch >= call[g].epoch

\* What cfg lets through in a stretch of time: a full bucket and its refill, or
\* the limit (rounded up) in each window that can have been started.
Allowance(cfg, elapsed) ==
  IF cfg.Algorithm = AlgorithmSlidingWindow
    THEN -((-cfg.Burst) \div Unit) * (elapsed \div (cfg.Burst \div cfg.RPS) + 1) * Unit
    ELSE cfg.Burst + cfg.RPS * elapsed

\* The rate limit across goroutines and configuration changes: since the last
\* change a client got through what its Config allows and no more than the
\* requests that held its old limiter at the moment of the change.
AdmissionBound ==
  \A c \in Clients :
    watch[c].passed * Unit
      <= Allowance(ConfigOf(c), clock - watch[c].start) + watch[c].held * Unit

\* Statistics lose nothing and count nothing twice (stats.go:9-13): a client's
\* counts are the decisions taken for it but for those not recorded yet, and
\* survive configuration changes and RemoveClient.
StatsExact ==
  \A c \in Clients :
    LET pending(yes) == {g \in Goroutines : /\ pc[g] = "record"
                                            /\ call[g].client = c
                                            /\ call[g].allowed = yes}
    IN  /\ counts[c].Allowed + Cardinality(pending(TRUE)) = decided[c].Allowed
        /\ counts[c].Denied + Cardinality(pending(FALSE)) = decided[c].Denied
=============================================================================
