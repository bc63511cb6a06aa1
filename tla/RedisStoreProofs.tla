-------------------------- MODULE RedisStoreProofs --------------------------
(***************************************************************************)
(* What holds of RedisStore for every number of processes, every skew,     *)
(* delay and TTL, every Config and any number of faults.                   *)
(***************************************************************************)
EXTENDS RedisContract, Arithmetic, FiniteSetTheorems

Points == {"idle", "config", "clock", "script", "record", "expire", "store", "drop", "remove"}
Known == Configs \cup {DefaultConfig}
CallRecords == [cfg : Known \cup {NoConfig}, now : Int, allowed : BOOLEAN, failed : BOOLEAN]

\* Which Config a command carries.
Fits(at, c) ==
  /\ at \in {"clock", "script"} => c.cfg \in Known
  /\ at \in {"store", "drop"} => c.cfg \in Configs

Calls ==
  /\ pc \in [Processes -> Points]
  /\ call \in [Processes -> CallRecords]
  /\ \A p \in Processes : Fits(pc[p], call[p])

TypeInv == TypeOK /\ Calls

Moves(p, at, c) ==
  /\ pc' = [pc EXCEPT ![p] = at]
  /\ call' = [call EXCEPT ![p] = c]

\* A process that goes on with a command whose Config fits leaves all calls
\* well-formed.
LEMMA MoveCalls ==
  ASSUME Calls, NEW p \in Processes, NEW at \in Points, NEW c \in CallRecords,
         Fits(at, c), Moves(p, at, c)
  PROVE  Calls'
<1>1. pc' \in [Processes -> Points] /\ call' \in [Processes -> CallRecords]
  BY DEF Calls, Moves
<1>2. ASSUME NEW q \in Processes PROVE Fits(pc'[q], call'[q])
  <2>1. CASE q = p
    BY <2>1 DEF Calls, Moves
  <2>2. CASE q # p
    BY <2>2 DEF Calls, Moves
  <2> QED
    BY <2>1, <2>2
<1> QED
  BY <1>1, <1>2 DEF Calls, Fits

\* What a call may become.
LEMMA CallFields ==
  ASSUME Calls, NEW p \in Processes
  PROVE  /\ NoCall \in CallRecords /\ Fits("idle", NoCall)
         /\ call[p] \in CallRecords /\ Fits(pc[p], call[p])
         /\ \A cfg \in Known : /\ [call[p] EXCEPT !.cfg = cfg] \in CallRecords
                               /\ [call[p] EXCEPT !.cfg = cfg].cfg = cfg
         /\ \A cfg \in Known : \A f \in BOOLEAN :
              LET one == [call[p] EXCEPT !.cfg = cfg]
              IN  [one EXCEPT !.failed = f] \in CallRecords /\ [one EXCEPT !.failed = f].cfg = cfg
         /\ \A t \in Int : /\ [call[p] EXCEPT !.now = t] \in CallRecords
                           /\ [call[p] EXCEPT !.now = t].cfg = call[p].cfg
         /\ \A yes \in BOOLEAN : [call[p] EXCEPT !.allowed = yes] \in CallRecords
<1>1. NoCall \in CallRecords /\ Fits("idle", NoCall)
  BY DEF NoCall, CallRecords, Fits
<1>2. call[p] \in CallRecords /\ Fits(pc[p], call[p])
  BY DEF Calls
<1>3. \A c \in CallRecords : \A cfg \in Known :
        [c EXCEPT !.cfg = cfg] \in CallRecords /\ [c EXCEPT !.cfg = cfg].cfg = cfg
  BY DEF CallRecords
<1>4. \A c \in CallRecords : \A f \in BOOLEAN :
        [c EXCEPT !.failed = f] \in CallRecords /\ [c EXCEPT !.failed = f].cfg = c.cfg
  BY DEF CallRecords
<1>5. \A c \in CallRecords : \A t \in Int :
        [c EXCEPT !.now = t] \in CallRecords /\ [c EXCEPT !.now = t].cfg = c.cfg
  BY DEF CallRecords
<1>6. \A c \in CallRecords : \A yes \in BOOLEAN : [c EXCEPT !.allowed = yes] \in CallRecords
  BY DEF CallRecords
<1> HIDE DEF CallRecords
<1>7. \A cfg \in Known : \A f \in BOOLEAN :
        LET one == [call[p] EXCEPT !.cfg = cfg]
        IN  [one EXCEPT !.failed = f] \in CallRecords /\ [one EXCEPT !.failed = f].cfg = cfg
  <2> TAKE cfg \in Known
  <2> TAKE f \in BOOLEAN
  <2> DEFINE one == [call[p] EXCEPT !.cfg = cfg]
  <2>1. one \in CallRecords /\ one.cfg = cfg
    BY <1>2, <1>3
  <2> HIDE DEF one
  <2>2. [one EXCEPT !.failed = f] \in CallRecords /\ [one EXCEPT !.failed = f].cfg = cfg
    BY <1>4, <2>1
  <2> QED
    BY <2>2 DEF one
<1> QED
  BY <1>1, <1>2, <1>3, <1>5, <1>6, <1>7
-----------------------------------------------------------------------------
\* Every step leaves well-formed calls behind: no command is sent with a Config
\* that was never read or submitted (redisstore.go:149-159, 305-315).
LEMMA StepCalls == TypeInv /\ [Next]_vars => Calls'
<1> SUFFICES ASSUME TypeInv, [Next]_vars PROVE Calls'
  OBVIOUS
<1>0. Calls /\ clock \in Nat /\ config \in Configs \cup {NoConfig}
  BY DEF TypeInv, TypeOK
<1>1. ASSUME NEW p \in Processes, pc' = [pc EXCEPT ![p] = "idle"],
             call' = [call EXCEPT ![p] = NoCall]
      PROVE  Calls'
  <2>1. Moves(p, "idle", NoCall) /\ "idle" \in Points
    BY <1>1 DEF Moves, Points
  <2> QED
    BY <1>0, <2>1, CallFields, MoveCalls
<1>2. ASSUME NEW p \in Processes, NEW at \in Points \ {"clock", "script", "store", "drop"},
             pc' = [pc EXCEPT ![p] = at], call' = call
      PROVE  Calls'
  <2>1. Moves(p, at, call[p])
    BY <1>0, <1>2 DEF Moves, Calls
  <2>2. call[p] \in CallRecords /\ Fits(at, call[p])
    BY <1>0, <1>2, CallFields DEF Fits
  <2> QED
    BY <1>0, <2>1, <2>2, MoveCalls
<1>3. ASSUME pc' = pc, call' = call PROVE Calls'
  BY <1>0, <1>3 DEF Calls, Fits
<1>4. ASSUME NEW p \in Processes, NEW yes \in BOOLEAN, Decide(p, yes) PROVE Calls'
  <2> DEFINE c == [call[p] EXCEPT !.allowed = yes]
  <2>1. Moves(p, "record", c)
    BY <1>4 DEF Decide, Goto, Moves
  <2>2. c \in CallRecords /\ "record" \in Points
    BY <1>0, CallFields DEF Points
  <2>3. Fits("record", c)
    BY DEF Fits
  <2> HIDE DEF c
  <2> QED
    BY <1>0, <2>1, <2>2, <2>3, MoveCalls
<1> SUFFICES ASSUME NEW p \in Processes,
                    \/ Arrive(p) \/ Step(p) \/ removeClient(p) \/ Crash(p)
                    \/ \E cfg \in Configs : setClientConfig(p, cfg)
             PROVE  Calls'
  <2>1. CASE Tick \/ Observe \/ UNCHANGED vars
    BY <1>3, <2>1 DEF Tick, Observe, vars, redis
  <2> QED
    BY <2>1 DEF Next
<1>5. CASE Arrive(p)
  BY <1>2, <1>5 DEF Arrive, Goto, Points
<1>6. CASE ReadConfig(p)
  <2>1. InForce \in Known /\ DefaultConfig \in Known /\ "clock" \in Points
    BY <1>0 DEF InForce, Known, Points
  <2>2. ASSUME NEW c \in CallRecords, c.cfg \in Known, Moves(p, "clock", c) PROVE Calls'
    BY <1>0, <2>1, <2>2, MoveCalls DEF Fits
  <2>3. CASE call' = [call EXCEPT ![p].cfg = InForce]
    <3> DEFINE c == [call[p] EXCEPT !.cfg = InForce]
    <3>1. c \in CallRecords /\ c.cfg = InForce
      BY <1>0, <2>1, CallFields
    <3>2. Moves(p, "clock", c)
      BY <1>6, <2>3 DEF ReadConfig, Goto, Moves
    <3> HIDE DEF c
    <3> QED
      BY <2>1, <2>2, <3>1, <3>2
  <2>4. CASE call' = [call EXCEPT ![p].cfg = DefaultConfig, ![p].failed = TRUE]
    <3> DEFINE one == [call[p] EXCEPT !.cfg = DefaultConfig]
    <3>1. /\ [one EXCEPT !.failed = TRUE] \in CallRecords
          /\ [one EXCEPT !.failed = TRUE].cfg = DefaultConfig
      BY <1>0, <2>1, CallFields
    <3>2. Moves(p, "clock", [one EXCEPT !.failed = TRUE])
      BY <1>0, <1>6, <2>4 DEF ReadConfig, Goto, Moves, Calls
    <3> QED
      BY <2>1, <2>2, <3>1, <3>2
  <2> QED
    BY <1>6, <2>3, <2>4 DEF ReadConfig
<1>7. CASE ReadClock(p)
  <2> DEFINE t == clock + Skew[p]
             c == [call[p] EXCEPT !.now = t]
  <2>1. t \in Int
    BY <1>0, RedisAssumption
  <2>2. Moves(p, "script", c) /\ pc[p] = "clock"
    BY <1>7 DEF ReadClock, Goto, Moves
  <2> HIDE DEF t
  <2>3. c \in CallRecords /\ c.cfg = call[p].cfg /\ Fits(pc[p], call[p])
    BY <1>0, <2>1, CallFields
  <2>4. Fits("script", c) /\ "script" \in Points
    BY <2>2, <2>3 DEF Fits, Points
  <2> QED
    BY <1>0, <2>2, <2>3, <2>4, MoveCalls
<1>8. CASE RunScript(p)
  <2> DEFINE yes == tokenBucketLua(bucket, call[p].cfg, call[p].now).allowed
  <2>1. yes \in BOOLEAN
    BY DEF tokenBucketLua
  <2>2. Decide(p, yes) \/ Resend(p) \/ Decide(p, FALSE)
    BY <1>8 DEF RunScript, FailClosed
  <2> HIDE DEF yes
  <2> QED
    BY <1>3, <1>4, <2>1, <2>2 DEF Resend
<1>9. CASE ScriptFails(p)
  BY <1>4, <1>9 DEF ScriptFails, FailClosed
<1>10. CASE Record(p)
  BY <1>1, <1>2, <1>3, <1>10 DEF Record, Replied, LostReply, Return, Goto, Points
<1>11. CASE RefreshTTL(p)
  BY <1>1, <1>11 DEF RefreshTTL, Return, Goto
<1>12. CASE Store(p)
  <2>1. CASE Replied(p, "drop")
    <3>1. Moves(p, "drop", call[p])
      BY <1>0, <2>1 DEF Replied, Goto, Moves, Calls
    <3>2. Fits("drop", call[p]) /\ call[p] \in CallRecords /\ "drop" \in Points
      BY <1>0, <1>12, CallFields DEF Store, Fits, Points
    <3> QED
      BY <1>0, <3>1, <3>2, MoveCalls
  <2> QED
    BY <1>1, <1>3, <1>12, <2>1 DEF Store, LostReply, Return, Goto
<1>13. CASE Drop(p)
  BY <1>1, <1>3, <1>13 DEF Drop, Returned, LostReply, Return, Goto
<1>14. CASE Remove(p)
  BY <1>1, <1>3, <1>14 DEF Remove, Returned, LostReply, Return, Goto
<1>15. CASE CommandFails(p) \/ Crash(p)
  BY <1>1, <1>15 DEF CommandFails, Crash, Return, Goto
<1>16. CASE removeClient(p)
  BY <1>2, <1>16 DEF removeClient, Goto, Points
<1>17. ASSUME NEW cfg \in Configs, setClientConfig(p, cfg) PROVE Calls'
  <2> DEFINE c == [call[p] EXCEPT !.cfg = cfg]
  <2>1. c \in CallRecords /\ c.cfg = cfg
    BY <1>0, CallFields DEF Known
  <2>2. Moves(p, "store", c)
    BY <1>17 DEF setClientConfig, Goto, Moves
  <2>3. Fits("store", c) /\ "store" \in Points
    BY <2>1 DEF Fits, Points
  <2> QED
    BY <1>0, <2>1, <2>2, <2>3, MoveCalls
<1> QED
  BY <1>5, <1>6, <1>7, <1>8, <1>9, <1>10, <1>11, <1>12, <1>13, <1>14, <1>15, <1>16, <1>17
  DEF Step
-----------------------------------------------------------------------------
\* The script stores whole units, whatever time it is given, and no more than
\* the Burst less a token unless it refuses.
LEMMA LuaType ==
  ASSUME NEW b \in Buckets \cup {nil}, NEW cfg \in Known, NEW now \in Int
  PROVE  LET r == tokenBucketLua(b, cfg, now)
         IN  /\ r.tokens \in Int /\ r.ts = now /\ r.allowed \in BOOLEAN
             /\ r.tokens < Unit \/ r.tokens <= cfg.Burst - Unit
<1>1. cfg.RPS \in Int /\ cfg.Burst \in Int /\ Unit \in Int
  BY RedisAssumption, UnitAssumption DEF Known
<1> DEFINE tokens == IF b = nil THEN cfg.Burst
                     ELSE MinOf(cfg.Burst, b.tokens + (now - b.ts) * cfg.RPS)
<1>3. tokens \in Int /\ tokens <= cfg.Burst
  <2>1. CASE b = nil
    BY <1>1, <2>1
  <2>2. CASE b # nil
    <3>1. PICK held \in Int : held = b.tokens + (now - b.ts) * cfg.RPS
      <4>1. b.tokens \in Int /\ now - b.ts \in Int
        BY <2>2 DEF Buckets
      <4>2. (now - b.ts) * cfg.RPS \in Int
        BY <1>1, <4>1, IntProduct
      <4> QED
        BY <4>1, <4>2
    <3> QED
      BY <1>1, <2>2, <3>1 DEF MinOf
  <2> QED
    BY <2>1, <2>2
<1>4. tokenBucketLua(b, cfg, now)
        = [tokens |-> IF tokens >= Unit THEN tokens - Unit ELSE tokens, ts |-> now,
           allowed |-> tokens >= Unit]
  BY DEF tokenBucketLua
<1> HIDE DEF tokens
<1>5. /\ (IF tokens >= Unit THEN tokens - Unit ELSE tokens) \in Int
      /\ \/ (IF tokens >= Unit THEN tokens - Unit ELSE tokens) < Unit
         \/ (IF tokens >= Unit THEN tokens - Unit ELSE tokens) <= cfg.Burst - Unit
  BY <1>1, <1>3
<1> QED
  BY <1>4, <1>5

StatsRecords == [counts : [Allowed : Nat, Denied : Nat], expires : Nat \cup {Never}]

\* Counting a decision keeps the counters' type.
LEMMA CountedType ==
  ASSUME NEW s \in [Allowed : Nat, Denied : Nat], NEW yes \in BOOLEAN
  PROVE  Counted(s, yes) \in [Allowed : Nat, Denied : Nat]
BY DEF Counted

\* The type invariant is kept.
LEMMA StepType == TypeInv /\ [Next]_vars => TypeInv'
<1> SUFFICES ASSUME TypeInv, [Next]_vars PROVE TypeInv'
  OBVIOUS
<1> DEFINE Marked == [granted : Nat, clock : Nat, strays : Nat]
<1>0. /\ Calls /\ config \in Configs \cup {NoConfig}
      /\ bucket \in Buckets \cup {nil} /\ (bucket # nil => Capped(bucket))
      /\ stats \in StatsRecords \cup {nil}
      /\ clock \in Nat /\ arrived \in Nat /\ changes \in Nat /\ faults \in Nat
      /\ granted \in Nat /\ mark \in [granted : Nat, clock : Nat, strays : Nat]
      /\ decided \in [Allowed : Nat, Denied : Nat]
      /\ built \in Known
      /\ told \in [alone : BOOLEAN, cfg : Configs \cup {NoConfig, nil}]
      /\ TTL \in Nat /\ clock + TTL \in Nat
  BY RedisAssumption DEF TypeInv, TypeOK, StatsRecords, Known
<1>1. Calls'
  BY StepCalls
<1>2. ASSUME NEW p \in Processes, RunScript(p)
      PROVE  LET r == tokenBucketLua(bucket, call[p].cfg, call[p].now)
             IN  /\ r.tokens \in Int /\ r.ts \in Int /\ r.allowed \in BOOLEAN
                 /\ call[p].cfg \in Known
                 /\ r.tokens < Unit \/ r.tokens <= call[p].cfg.Burst - Unit
  <2>1. call[p].cfg \in Known /\ call[p].now \in Int
    BY <1>0, <1>2 DEF RunScript, Calls, Fits, CallRecords
  <2> QED
    BY <1>0, <2>1, LuaType
<1>3. ASSUME NEW p \in Processes, NEW yes \in BOOLEAN, Decide(p, yes)
      PROVE  decided' \in [Allowed : Nat, Denied : Nat]
  BY <1>0, <1>3, CountedType DEF Decide
<1>4. config' \in Configs \cup {NoConfig}
  <2>1. ASSUME NEW p \in Processes, Store(p) PROVE config' \in Configs
    BY <1>0, <2>1 DEF Store, Calls, Fits
  <2> QED
    BY <1>0, <2>1 DEF Next, vars, redis, Step, Arrive, ReadConfig, ReadClock, RunScript,
       ScriptFails, Record, RefreshTTL, Drop, Remove, CommandFails, removeClient, Crash, setClientConfig,
       Tick, Observe
<1>5. bucket' \in Buckets \cup {nil} /\ (bucket' # nil => Capped(bucket'))
  <2>1. ASSUME NEW p \in Processes, RunScript(p) PROVE bucket' \in Buckets /\ Capped(bucket')
    <3> DEFINE r == tokenBucketLua(bucket, call[p].cfg, call[p].now)
    <3>1. bucket' = [tokens |-> r.tokens, ts |-> r.ts, expires |-> clock + TTL]
      BY <2>1 DEF RunScript, Deadline
    <3>2. /\ r.tokens \in Int /\ r.ts \in Int /\ call[p].cfg \in Known
          /\ r.tokens < Unit \/ r.tokens <= call[p].cfg.Burst - Unit
      BY <1>2, <2>1
    <3> HIDE DEF r
    <3>3. bucket'.tokens = r.tokens
      BY <3>1
    <3> QED
      BY <1>0, <3>1, <3>2, <3>3 DEF Buckets, Capped, Known
  <2>2. \/ bucket' = bucket \/ bucket' = nil
        \/ \E p \in Processes : RunScript(p)
    BY Zenon DEF Next, vars, redis, Step, Arrive, ReadConfig, ReadClock,
       ScriptFails, Record, RefreshTTL, Store, Drop, DelBucket, Remove, CommandFails,
       removeClient, Crash, setClientConfig, Tick, Observe
  <2> QED
    BY <1>0, <2>1, <2>2
<1>6. stats' \in StatsRecords \cup {nil}
  <2>1. ASSUME NEW p \in Processes, Record(p) PROVE stats' \in StatsRecords
    <3> DEFINE s == IF stats = nil THEN [counts |-> NoStats, expires |-> Never] ELSE stats
    <3>1. s \in StatsRecords
      BY <1>0 DEF StatsRecords, NoStats
    <3>2. call[p].allowed \in BOOLEAN
      BY <1>0 DEF Calls, CallRecords
    <3>3. stats' = [s EXCEPT !.counts = Counted(s.counts, call[p].allowed)]
      BY <2>1 DEF Record, HIncrBy
    <3> HIDE DEF s
    <3> DEFINE more == Counted(s.counts, call[p].allowed)
    <3>4. more \in [Allowed : Nat, Denied : Nat]
      BY <3>1, <3>2, CountedType DEF StatsRecords
    <3> HIDE DEF more
    <3>5. stats' = [s EXCEPT !.counts = more]
      BY <3>3 DEF more
    <3> QED
      BY <3>1, <3>4, <3>5 DEF StatsRecords
  <2>2. ASSUME NEW p \in Processes, RefreshTTL(p) PROVE stats' \in StatsRecords \cup {nil}
    <3>1. ASSUME stats # nil PROVE [stats EXCEPT !.expires = clock + TTL] \in StatsRecords
      BY <1>0, <3>1 DEF StatsRecords
    <3> QED
      BY <1>0, <2>2, <3>1 DEF RefreshTTL, Expire, Deadline
  <2> QED
    BY <1>0, <2>1, <2>2 DEF Next, vars, redis, Step, Arrive, ReadConfig, ReadClock, RunScript,
       ScriptFails, Store, Drop, Remove, CommandFails, removeClient, Crash, setClientConfig, Tick, Observe
<1>7. ASSUME NEW p \in Processes, RunScript(p)
      PROVE  /\ clock' = clock /\ arrived' = arrived /\ changes' = changes
             /\ mark' = mark \/ mark' = [mark EXCEPT !.strays = @ + 1]
             /\ granted' = granted \/ granted' = granted + 1
             /\ faults' = faults \/ faults' = faults + 1
  <2>1. /\ clock' = clock /\ arrived' = arrived /\ changes' = changes
        /\ mark' = mark \/ mark' = [mark EXCEPT !.strays = @ + 1]
    BY <1>7, Zenon DEF RunScript
  <2>2. granted' = granted \/ granted' = granted + 1
    BY <1>7, Zenon DEF RunScript
  <2>3. faults' = faults \/ faults' = faults + 1
    BY <1>7, Zenon DEF RunScript, Fault, NoFault
  <2> QED
    BY <2>1, <2>2, <2>3
<1>8. clock' \in Nat /\ arrived' \in Nat /\ changes' \in Nat
  <2>1. /\ clock' = clock \/ clock' = clock + 1
        /\ arrived' = arrived \/ arrived' = arrived + 1
        /\ changes' = changes \/ changes' = changes + 1
    BY <1>7, Zenon DEF Next, vars, Step, Arrive, ReadConfig, ReadClock,
       ScriptFails, Record, RefreshTTL, Store, Drop, Remove, CommandFails, removeClient, Crash,
       setClientConfig, BeginChange, Tick, Observe
  <2> QED
    BY <1>0, <2>1
<1>9. faults' \in Nat
  <2>1. faults' = faults \/ faults' = faults + 1
    BY <1>7, Zenon DEF Next, vars, Step, Arrive, ReadConfig, ReadClock,
       ScriptFails, Record, RefreshTTL, Store, Drop, Remove, CommandFails, removeClient, Crash,
       setClientConfig, Tick, Observe, Fault, NoFault, Replied, Returned, LostReply
  <2> QED
    BY <1>0, <2>1
<1>10. granted' \in Nat /\ mark' \in Marked
  <2>1. \/ granted' = granted /\ mark' = [granted |-> granted, clock |-> clock, strays |-> 0]
        \/ /\ mark' = mark \/ mark' = [mark EXCEPT !.strays = @ + 1]
           /\ granted' = granted \/ granted' = granted + 1
    BY <1>7, Zenon DEF Next, vars, observers, Step, Arrive, ReadConfig, ReadClock,
       ScriptFails, Record, RefreshTTL, Store, Drop, Remove, CommandFails, removeClient, Crash,
       setClientConfig, Tick, Observe, WatchAnew
  <2>2. [mark EXCEPT !.strays = @ + 1] \in Marked
    BY <1>0
  <2> QED
    BY <1>0, <2>1, <2>2
<1>11. decided' \in [Allowed : Nat, Denied : Nat]
  <2>1. ASSUME NEW p \in Processes, RunScript(p)
        PROVE  decided' \in [Allowed : Nat, Denied : Nat]
    BY <1>0, <1>2, <1>3, <2>1 DEF RunScript, Resend, FailClosed
  <2>2. ASSUME NEW p \in Processes, ScriptFails(p)
        PROVE  decided' \in [Allowed : Nat, Denied : Nat]
    BY <1>3, <2>2 DEF ScriptFails, FailClosed
  <2> QED
    BY <1>0, <2>1, <2>2 DEF Next, vars, observers, Step, Arrive, ReadConfig, ReadClock,
       Record, RefreshTTL, Store, Drop, Remove, CommandFails, removeClient, Crash, setClientConfig, Tick,
       Observe
<1>12. built' \in Known
  <2>1. ASSUME NEW p \in Processes, RunScript(p) PROVE built' \in Known
    BY <1>0, <1>2, <2>1 DEF RunScript
  <2> QED
    BY <1>0, <2>1 DEF Next, vars, observers, Step, Arrive, ReadConfig, ReadClock, ScriptFails,
       Record, RefreshTTL, Store, Drop, Remove, CommandFails, removeClient, Crash, setClientConfig, Tick,
       Observe
<1>14. told' \in [alone : BOOLEAN, cfg : Configs \cup {NoConfig, nil}]
  <2>1. ASSUME BeginChange PROVE told' \in [alone : BOOLEAN, cfg : Configs \cup {NoConfig, nil}]
    BY <2>1 DEF BeginChange
  <2>2. ASSUME NEW cfg \in Configs \cup {NoConfig}, Promise(cfg)
        PROVE  told' \in [alone : BOOLEAN, cfg : Configs \cup {NoConfig, nil}]
    BY <1>0, <2>2 DEF Promise
  <2>3. ASSUME NEW p \in Processes, Drop(p)
        PROVE  told' \in [alone : BOOLEAN, cfg : Configs \cup {NoConfig, nil}]
    <3>1. told' = told \/ Promise(call[p].cfg)
      BY <2>3, Zenon DEF Drop, NoPromise
    <3>2. call[p].cfg \in Configs
      BY <1>0, <2>3 DEF Drop, Calls, Fits
    <3> QED
      BY <1>0, <2>2, <3>1, <3>2
  <2>4. ASSUME told' = told \/ BeginChange \/ Promise(NoConfig)
        PROVE  told' \in [alone : BOOLEAN, cfg : Configs \cup {NoConfig, nil}]
    BY <1>0, <2>1, <2>2, <2>4
  <2>5. ASSUME \A p \in Processes : ~Drop(p)
        PROVE  told' = told \/ BeginChange \/ Promise(NoConfig)
    BY <2>5, Zenon DEF Next, vars, observers, Step, Arrive, ReadConfig, ReadClock, RunScript,
       ScriptFails, Record, RefreshTTL, Store, Remove, CommandFails, removeClient, Crash,
       setClientConfig, Tick, Observe, NoPromise
  <2> QED
    BY <2>3, <2>4, <2>5
<1> QED
  BY <1>1, <1>4, <1>5, <1>6, <1>8, <1>9, <1>10, <1>11, <1>12, <1>14
  DEF TypeInv, TypeOK, Calls, Points, CallRecords, StatsRecords, Known

\* Redis and the processes start in the types.
LEMMA InitType == Init => TypeInv
<1> SUFFICES ASSUME Init PROVE TypeInv
  OBVIOUS
<1>1. NoCall \in CallRecords /\ Fits("idle", NoCall) /\ "idle" \in Points
  BY DEF NoCall, CallRecords, Fits, Points
<1>2. Calls
  BY <1>1 DEF Init, Calls
<1> QED
  BY <1>2 DEF Init, TypeInv, TypeOK, Calls, Points, CallRecords, Known, NoStats

\* Every key, call and counter keeps its type, for any number of processes,
\* skews and faults.
THEOREM TypeCorrect == Spec => []TypeOK
<1>1. TypeInv => TypeOK
  BY DEF TypeInv
<1> QED
  BY <1>1, InitType, StepType, PTL DEF Spec
-----------------------------------------------------------------------------
\* A step that is not one of the script leaves what was granted and decided
\* alone, and faults are never fewer.
LEMMA OutsideScript ==
  ASSUME TypeInv, [Next]_vars,
         \A p \in Processes : ~RunScript(p) /\ ~ScriptFails(p)
  PROVE  /\ granted' = granted /\ decided' = decided
         /\ faults' = faults \/ faults' = faults + 1
<1>1. granted' = granted /\ decided' = decided
  BY Zenon DEF Next, vars, observers, Step, Arrive, ReadConfig, ReadClock, Record, RefreshTTL,
     Store, Drop, Remove, CommandFails, removeClient, Crash, setClientConfig, Tick, Observe
<1>2. faults' = faults \/ faults' = faults + 1
  BY Zenon DEF Next, vars, Step, Arrive, ReadConfig, ReadClock, Record, RefreshTTL,
     Store, Drop, Remove, CommandFails, removeClient, Crash, setClientConfig, Tick, Observe, Fault, NoFault,
     Replied, Returned, LostReply
<1> QED
  BY <1>1, <1>2

\* Each decision to allow has its token and each token lost its fault; a
\* resent script pays a second time with the fault that lost its reply.
LEMMA StepPaid == TypeInv /\ AnswersPaid /\ [Next]_vars => AnswersPaid'
<1> SUFFICES ASSUME TypeInv, AnswersPaid, [Next]_vars PROVE AnswersPaid'
  OBVIOUS
<1>0. /\ granted \in Nat /\ faults \in Nat /\ decided \in [Allowed : Nat, Denied : Nat]
      /\ decided.Allowed <= granted /\ granted <= decided.Allowed + faults
  BY DEF TypeInv, TypeOK, AnswersPaid
<1> DEFINE now(yes) == Counted(decided, yes).Allowed
<1>1. now(TRUE) = decided.Allowed + 1 /\ now(FALSE) = decided.Allowed
  BY <1>0 DEF Counted
<1> HIDE DEF now
<1> DEFINE a == decided.Allowed
<1> HIDE DEF a
<1>2. a \in Nat /\ a <= granted /\ granted <= a + faults /\ a = decided.Allowed
  BY <1>0 DEF a
<1>3. ASSUME NEW g \in Nat, NEW d \in Nat, NEW f \in Nat, d <= g, g <= d + f,
             granted' = g, decided'.Allowed = d, faults' = f
      PROVE  AnswersPaid'
  BY <1>3 DEF AnswersPaid
<1>4. ASSUME NEW p \in Processes, RunScript(p) PROVE AnswersPaid'
  <2> DEFINE yes == tokenBucketLua(bucket, call[p].cfg, call[p].now).allowed
  <2>1. yes \in BOOLEAN
    BY DEF tokenBucketLua
  <2>2. /\ granted' = IF yes THEN granted + 1 ELSE granted
        /\ \/ decided' = Counted(decided, yes) /\ faults' = faults
           \/ /\ faults' = faults + 1
              /\ decided' = decided \/ decided' = Counted(decided, FALSE)
    BY <1>4 DEF RunScript, Decide, NoFault, Fault, Resend, FailClosed
  <2> HIDE DEF yes
  <2>3. \/ granted' = granted + 1 /\ decided'.Allowed = a + 1 /\ faults' = faults
        \/ granted' = granted /\ decided'.Allowed = a /\ faults' = faults
        \/ granted' = granted + 1 /\ decided'.Allowed = a /\ faults' = faults + 1
        \/ granted' = granted /\ decided'.Allowed = a /\ faults' = faults + 1
    BY <1>1, <1>2, <2>1, <2>2 DEF now
  <2>4. CASE granted' = granted + 1 /\ decided'.Allowed = a + 1 /\ faults' = faults
    <3>1. granted + 1 \in Nat /\ a + 1 \in Nat /\ a + 1 <= granted + 1
          /\ granted + 1 <= (a + 1) + faults
      BY <1>0, <1>2
    <3> QED
      BY <1>0, <1>3, <2>4, <3>1
  <2>5. CASE granted' = granted /\ decided'.Allowed = a /\ faults' = faults
    BY <1>0, <1>2, <1>3, <2>5
  <2>6. CASE granted' = granted + 1 /\ decided'.Allowed = a /\ faults' = faults + 1
    <3>1. granted + 1 \in Nat /\ faults + 1 \in Nat /\ a <= granted + 1
          /\ granted + 1 <= a + (faults + 1)
      BY <1>0, <1>2
    <3> QED
      BY <1>2, <1>3, <2>6, <3>1
  <2>7. CASE granted' = granted /\ decided'.Allowed = a /\ faults' = faults + 1
    <3>1. faults + 1 \in Nat /\ granted <= a + (faults + 1)
      BY <1>0, <1>2
    <3> QED
      BY <1>0, <1>2, <1>3, <2>7, <3>1
  <2> QED
    BY <2>3, <2>4, <2>5, <2>6, <2>7
<1>5. ASSUME NEW p \in Processes, ScriptFails(p) PROVE AnswersPaid'
  <2>1. granted' = granted /\ faults' = faults + 1 /\ decided'.Allowed = a
    BY <1>1, <1>2, <1>5 DEF ScriptFails, FailClosed, Decide, Fault, now
  <2>2. faults + 1 \in Nat /\ granted <= a + (faults + 1)
    BY <1>0, <1>2
  <2> QED
    BY <1>0, <1>2, <1>3, <2>1, <2>2
<1>6. CASE \A p \in Processes : ~RunScript(p) /\ ~ScriptFails(p)
  <2>1. granted' = granted /\ decided' = decided /\ (faults' = faults \/ faults' = faults + 1)
    BY <1>6, OutsideScript
  <2> QED
    BY <1>0, <2>1 DEF AnswersPaid
<1> QED
  BY <1>4, <1>5, <1>6

\* Nobody is let through without a token, and no token is lost without a
\* fault, whatever replies are lost and scripts resent (redisstore.go:160-188).
THEOREM AnswersArePaid == Spec => []AnswersPaid
<1>1. Init => AnswersPaid
  BY DEF Init, AnswersPaid, NoStats
<1> QED
  BY <1>1, InitType, StepType, StepPaid, PTL DEF Spec
-----------------------------------------------------------------------------
\* Only Configs that Validate accepts are stored, read and run with: SetConfig
\* refuses the others (redisstore.go:306).
Validated ==
  /\ config # NoConfig => Validate(config)
  /\ \A p \in Processes :
       pc[p] \in {"clock", "script", "store", "drop"} => Validate(call[p].cfg)

LEMMA MoveValidated ==
  ASSUME Calls, Validated, NEW p \in Processes, NEW at, NEW c, Moves(p, at, c),
         at \in {"clock", "script", "store", "drop"} => Validate(c.cfg),
         config' # NoConfig => Validate(config')
  PROVE  Validated'
<1>1. ASSUME NEW q \in Processes, pc'[q] \in {"clock", "script", "store", "drop"}
      PROVE  Validate(call'[q].cfg)
  <2>1. CASE q = p
    BY <1>1, <2>1 DEF Calls, Moves
  <2>2. CASE q # p
    BY <1>1, <2>2 DEF Calls, Moves, Validated
  <2> QED
    BY <2>1, <2>2
<1> QED
  BY <1>1 DEF Validated

LEMMA StepValidated == TypeInv /\ Validated /\ [Next]_vars => Validated'
<1> SUFFICES ASSUME TypeInv, Validated, [Next]_vars PROVE Validated'
  OBVIOUS
<1>0. Calls /\ Validate(DefaultConfig) /\ (config # NoConfig => Validate(config))
  BY RedisAssumption DEF TypeInv, Validated
<1>1. ASSUME NEW p \in Processes, NEW at, pc' = [pc EXCEPT ![p] = at],
             call' = [call EXCEPT ![p] = NoCall] \/ call' = call,
             at \notin {"clock", "script", "store", "drop"},
             config' # NoConfig => Validate(config')
      PROVE  Validated'
  <2>1. call = [call EXCEPT ![p] = call[p]]
    BY <1>0 DEF Calls
  <2>2. \E c : Moves(p, at, c)
    BY <1>1, <2>1 DEF Moves
  <2> QED
    BY <1>0, <1>1, <2>2, MoveValidated
<1>2. ASSUME pc' = pc, call' = call, config' # NoConfig => Validate(config') PROVE Validated'
  BY <1>2 DEF Validated
<1>3. ASSUME NEW p \in Processes, NEW yes, Decide(p, yes), config' = config PROVE Validated'
  <2>1. Moves(p, "record", [call[p] EXCEPT !.allowed = yes])
    BY <1>3 DEF Decide, Goto, Moves
  <2> QED
    BY <1>0, <1>3, <2>1, MoveValidated
<1> SUFFICES ASSUME NEW p \in Processes,
                    \/ Arrive(p) \/ Step(p) \/ removeClient(p) \/ Crash(p)
                    \/ \E cfg \in Configs : setClientConfig(p, cfg)
             PROVE  Validated'
  <2>1. ASSUME Tick \/ Observe \/ UNCHANGED vars PROVE Validated'
    BY <1>0, <1>2, <2>1 DEF Tick, Observe, vars, redis
  <2> QED
    BY <2>1 DEF Next
<1>4. CASE Arrive(p)
  BY <1>0, <1>1, <1>4 DEF Arrive, Goto, redis
<1>5. CASE ReadConfig(p)
  <2>1. PICK c : Moves(p, "clock", c) /\ Validate(c.cfg)
    <3>1. call[p] \in CallRecords
      BY <1>0, CallFields
    <3>2. CASE call' = [call EXCEPT ![p].cfg = InForce]
      <4>1. [call[p] EXCEPT !.cfg = InForce].cfg = InForce /\ Validate(InForce)
        BY <1>0, <3>1 DEF CallRecords, InForce
      <4> QED
        BY <1>5, <3>2, <4>1 DEF ReadConfig, Goto, Moves
    <3>3. CASE call' = [call EXCEPT ![p].cfg = DefaultConfig, ![p].failed = TRUE]
      <4> DEFINE one == [call[p] EXCEPT !.cfg = DefaultConfig]
                 two == [one EXCEPT !.failed = TRUE]
      <4>1. one \in CallRecords /\ one.cfg = DefaultConfig
        BY <1>0, CallFields DEF Known
      <4>2. call' = [call EXCEPT ![p] = two]
        BY <1>0, <3>3 DEF Calls
      <4> HIDE DEF one
      <4>3. two.cfg = DefaultConfig
        BY <4>1 DEF CallRecords
      <4> QED
        BY <1>0, <1>5, <4>2, <4>3 DEF ReadConfig, Goto, Moves
    <3> QED
      BY <1>5, <3>2, <3>3 DEF ReadConfig
  <2> QED
    BY <1>0, <1>5, <2>1, MoveValidated DEF ReadConfig, redis
<1>6. CASE ReadClock(p)
  <2> DEFINE c == [call[p] EXCEPT !.now = clock + Skew[p]]
  <2>1. Moves(p, "script", c)
    BY <1>6 DEF ReadClock, Goto, Moves
  <2>2. c.cfg = call[p].cfg
    BY <1>0, CallFields DEF CallRecords
  <2>3. Validate(call[p].cfg)
    BY <1>6 DEF ReadClock, Validated
  <2> HIDE DEF c
  <2> QED
    BY <1>0, <1>6, <2>1, <2>2, <2>3, MoveValidated DEF ReadClock, redis
<1>7. CASE RunScript(p)
  <2>1. config' = config /\ (UNCHANGED <<pc, call>> \/ \E yes : Decide(p, yes))
    BY <1>7, Zenon DEF RunScript, Resend, FailClosed
  <2> QED
    BY <1>0, <1>2, <1>3, <2>1
<1>8. CASE ScriptFails(p)
  BY <1>3, <1>8 DEF ScriptFails, FailClosed, redis
<1>9. CASE Record(p) \/ RefreshTTL(p) \/ Remove(p) \/ CommandFails(p)
  <2>1. /\ config' = config \/ config' = NoConfig
        /\ \/ UNCHANGED <<pc, call>>
           \/ \E at \in {"expire", "idle"} :
                /\ pc' = [pc EXCEPT ![p] = at]
                /\ call' = [call EXCEPT ![p] = NoCall] \/ call' = call
    BY <1>9 DEF Record, RefreshTTL, Remove, CommandFails, Replied, Returned, LostReply, Return,
                Goto, redis
  <2> QED
    BY <1>0, <1>1, <1>2, <2>1
<1>10. CASE Store(p)
  <2>1. config' = call[p].cfg /\ Validate(call[p].cfg)
    BY <1>10 DEF Store, Validated
  <2>2. CASE Replied(p, "drop")
    <3>1. Moves(p, "drop", call[p])
      BY <1>0, <2>2 DEF Replied, Goto, Moves, Calls
    <3> QED
      BY <1>0, <2>1, <3>1, MoveValidated
  <2>3. CASE LostReply(p)
    BY <1>1, <1>2, <2>1, <2>3 DEF LostReply, Return, Goto
  <2> QED
    BY <1>10, <2>2, <2>3 DEF Store
<1>11. CASE Drop(p)
  <2>1. config' = config
    BY <1>11 DEF Drop
  <2> QED
    BY <1>0, <1>1, <1>2, <1>11, <2>1 DEF Drop, Returned, LostReply, Return, Goto
<1>12. CASE removeClient(p)
  BY <1>0, <1>1, <1>12 DEF removeClient, Goto, redis
<1>13. CASE Crash(p)
  BY <1>0, <1>1, <1>13 DEF Crash, Return, Goto, redis
<1>14. ASSUME NEW cfg \in Configs, setClientConfig(p, cfg) PROVE Validated'
  <2> DEFINE c == [call[p] EXCEPT !.cfg = cfg]
  <2>1. Moves(p, "store", c) /\ Validate(cfg)
    BY <1>14 DEF setClientConfig, Goto, Moves
  <2>2. c.cfg = cfg
    BY <1>0, CallFields DEF Known
  <2> HIDE DEF c
  <2> QED
    BY <1>0, <1>14, <2>1, <2>2, MoveValidated DEF setClientConfig, redis
<1> QED
  BY <1>4, <1>5, <1>6, <1>7, <1>8, <1>9, <1>10, <1>11, <1>12, <1>13, <1>14 DEF Step
-----------------------------------------------------------------------------
\* The constants of a usable Config.
LEMMA ConfigFacts ==
  ASSUME NEW cfg \in Known, Validate(cfg)
  PROVE  /\ cfg.Burst \in Nat /\ Unit \in Nat \ {0} /\ Unit <= cfg.Burst /\ cfg.RPS \in Nat \ {0}
         /\ Spread \in Nat /\ MaxDelay \in Nat /\ TTL \in Nat \ {0} /\ Slack = Spread + MaxDelay
         /\ Slack \in Nat /\ Slack * cfg.RPS \in Nat
         /\ FullPurse(cfg) \in Nat /\ FullPurse(cfg) = cfg.Burst + Slack * cfg.RPS
<1>1. /\ cfg.Burst \in Int /\ Unit \in Nat \ {0} /\ Unit <= cfg.Burst /\ cfg.RPS \in Nat \ {0}
      /\ Spread \in Nat /\ MaxDelay \in Nat /\ TTL \in Nat \ {0}
  BY RedisAssumption, UnitAssumption DEF Known, Validate
<1>2. Slack \in Nat /\ Slack = Spread + MaxDelay
  BY <1>1 DEF Slack
<1>3. PICK more \in Nat : more = Slack * cfg.RPS
  BY <1>1, <1>2, NatProduct
<1>4. cfg.Burst \in Nat
  BY <1>1
<1> QED
  BY <1>1, <1>2, <1>3, <1>4 DEF FullPurse

LEMMA PurseType ==
  ASSUME NEW cfg \in Known, Validate(cfg), NEW b \in Buckets \cup {nil}, NEW t \in Nat
  PROVE  /\ Purse(b, t, cfg) \in Int
         /\ b # nil => Purse(b, t + 1, cfg) = Purse(b, t, cfg) + cfg.RPS
<1>1. CASE b = nil
  BY <1>1, ConfigFacts DEF Purse
<1>2. CASE b # nil
  <2>1. PICK k, s \in Int : k = b.tokens /\ s = b.ts
    BY <1>2 DEF Buckets
  <2>2. PICK R \in Int : R = cfg.RPS
    BY ConfigFacts
  <2>3. PICK d \in Int : d = t + Spread - s /\ (t + 1) + Spread - s = d + 1
    BY ConfigFacts
  <2>4. PICK gain \in Int : gain = d * R
    BY <2>2, <2>3, IntProduct
  <2>5. (d + 1) * R = gain + R
    <3>1. (d + 1) * R = d * R + 1 * R /\ 1 * R = R
      BY <2>2, <2>3, ProductOfSum
    <3> QED
      BY <2>4, <3>1
  <2>6. Purse(b, t, cfg) = k + gain /\ Purse(b, t + 1, cfg) = k + (gain + R)
    BY <1>2, <2>1, <2>2, <2>3, <2>4, <2>5 DEF Purse
  <2> QED
    BY <1>2, <2>2, <2>6
<1> QED
  BY <1>1, <1>2

\* What a script does whose time is at most MaxDelay late and at most Spread
\* early: it finds the purse less what its time lacks, and takes a token if there
\* is one (redisstore.go:52-79).
LEMMA ScriptEffect ==
  ASSUME NEW cfg \in Known, Validate(cfg), NEW b \in Buckets \cup {nil}, NEW t \in Nat,
         NEW now \in Int, t <= now + MaxDelay, now <= t + Spread,
         NEW r, r = tokenBucketLua(b, cfg, now),
         NEW b2, b2 = [tokens |-> r.tokens, ts |-> r.ts, expires |-> t + TTL]
  PROVE  /\ b2 \in Buckets /\ b2 # nil /\ b2.expires = t + TTL /\ b2.ts = now
         /\ \E back \in 0 .. Slack * cfg.RPS, found \in Int :
              /\ found = MinOf(cfg.Burst, Purse(b, t, cfg) - back)
              /\ r.allowed <=> found >= Unit
              /\ b2.tokens = IF r.allowed THEN found - Unit ELSE found
              /\ Purse(b2, t, cfg) = b2.tokens + back
<1>1. /\ cfg.Burst \in Nat /\ Unit \in Nat \ {0} /\ cfg.RPS \in Nat \ {0}
      /\ Spread \in Nat /\ MaxDelay \in Nat /\ TTL \in Nat \ {0} /\ Slack = Spread + MaxDelay
      /\ Slack * cfg.RPS \in Nat /\ FullPurse(cfg) = cfg.Burst + Slack * cfg.RPS
  BY ConfigFacts
<1>2. PICK R \in Nat, B \in Nat, more \in Nat :
        R = cfg.RPS /\ B = cfg.Burst /\ more = Slack * R
  BY <1>1
<1>3. PICK d \in Nat : d = t + Spread - now /\ d <= Slack
  BY <1>1
<1>4. PICK back \in Nat : back = d * R /\ back <= more
  <2>1. d * R \in Nat /\ d * R <= Slack * R
    BY <1>1, <1>2, <1>3, NatProduct, ProductMonotone
  <2> QED
    BY <1>2, <2>1
<1>5. PICK found \in Int : found = IF b = nil THEN B ELSE MinOf(B, b.tokens + (now - b.ts) * R)
  <2>1. CASE b = nil
    BY <2>1
  <2>2. CASE b # nil
    <3>1. b.tokens \in Int /\ now - b.ts \in Int
      BY <2>2 DEF Buckets
    <3>2. PICK gain \in Int : gain = (now - b.ts) * R
      BY <1>2, <3>1, IntProduct
    <3> QED
      BY <1>2, <2>2, <3>1, <3>2 DEF MinOf
  <2> QED
    BY <2>1, <2>2
<1>6. found = MinOf(B, Purse(b, t, cfg) - back)
  <2>1. CASE b = nil
    <3>1. Purse(b, t, cfg) = B + more
      BY <1>1, <1>2, <2>1 DEF Purse
    <3>2. B <= (B + more) - back
      BY <1>2, <1>4
    <3> QED
      BY <1>5, <2>1, <3>1, <3>2 DEF MinOf
  <2>2. CASE b # nil
    <3>1. PICK k, s \in Int : k = b.tokens /\ s = b.ts
      BY <2>2 DEF Buckets
    <3>2. PICK e \in Int : e = now - s /\ t + Spread - s = e + d
      BY <1>1, <1>3
    <3>3. PICK gain \in Int : gain = e * R
      BY <1>2, <3>2, IntProduct
    <3>4. (e + d) * R = gain + back
      BY <1>2, <1>3, <1>4, <3>2, <3>3, ProductOfSum
    <3>5. Purse(b, t, cfg) = k + (gain + back)
      BY <1>2, <2>2, <3>1, <3>2, <3>4 DEF Purse
    <3>6. found = MinOf(B, k + gain)
      BY <1>5, <2>2, <3>1, <3>2, <3>3
    <3>7. k + gain = (k + (gain + back)) - back
      BY <1>4, <3>1, <3>3
    <3> QED
      BY <3>5, <3>6, <3>7
  <2> QED
    BY <2>1, <2>2
<1>7. PICK yes \in BOOLEAN : yes <=> found >= Unit
  OBVIOUS
<1>8. PICK left \in Int : left = IF yes THEN found - Unit ELSE found
  <2>1. found - Unit \in Int
    BY <1>1
  <2> QED
    BY <2>1, Zenon
<1>9. r = [tokens |-> left, ts |-> now, allowed |-> yes]
  <2>1. yes = (found >= Unit)
    BY <1>7
  <2>2. r = [tokens |-> IF found >= Unit THEN found - Unit ELSE found, ts |-> now,
             allowed |-> found >= Unit]
    BY <1>2, <1>5 DEF tokenBucketLua
  <2>3. left = IF found >= Unit THEN found - Unit ELSE found
    BY <1>7, <1>8
  <2> QED
    BY <2>1, <2>2, <2>3
<1>10. r.tokens = left /\ r.ts = now /\ r.allowed = yes
  BY <1>9
<1>11. b2 = [tokens |-> left, ts |-> now, expires |-> t + TTL]
  BY <1>10
<1>12. b2 \in Buckets /\ b2.tokens = left /\ b2.ts = now /\ b2.expires = t + TTL
  BY <1>1, <1>11 DEF Buckets
<1>13. b2 # nil
  BY <1>12, RedisAssumption DEF Buckets
<1>14. Purse(b2, t, cfg) = left + back
  BY <1>2, <1>3, <1>4, <1>12, <1>13 DEF Purse
<1>15. back \in 0 .. Slack * cfg.RPS
  BY <1>2, <1>4
<1> QED
  BY <1>2, <1>6, <1>7, <1>8, <1>10, <1>12, <1>13, <1>14, <1>15

-----------------------------------------------------------------------------
Marks == [granted : Nat, clock : Nat, strays : Nat]

\* Tokens handed out since the mark m, in units, and what they may be at t.
Spent(g, m) == (g - m.granted) * Unit

Total(t, m, cfg) ==
  FullPurse(cfg) + m.strays * (FullPurse(cfg) + Unit) + (t - m.clock) * cfg.RPS

\* RateBound is not inductive: what was spent and what is left come from one
\* purse, and a key does not expire before it is as good as full.
Sound(b, t, g, m, cfg) ==
  /\ m.granted <= g /\ m.clock <= t
  /\ b # nil => t < b.expires
  /\ TTLCovers(cfg) =>
       /\ Spent(g, m) + MinOf(FullPurse(cfg), Purse(b, t, cfg)) <= Total(t, m, cfg)
       /\ b # nil => Spent(g, m) + FullPurse(cfg) <= Total(b.expires, m, cfg)
       /\ Spent(g, m) <= Total(t, m, cfg)

\* How old the time is that a script brings.
InTime ==
  \A p \in Processes :
    pc[p] = "script" => /\ clock + Skew[p] - call[p].now <= MaxDelay
                        /\ call[p].now <= clock + Skew[p]

RateInv == InTime /\ Validated /\ Sound(bucket, clock, granted, mark, InForce)

\* One token more or none at all.
LEMMA SpentFacts ==
  ASSUME NEW g \in Nat, NEW m \in Marks, m.granted <= g
  PROVE  /\ Spent(g, m) \in Int /\ Spent(g + 1, m) = Spent(g, m) + Unit
         /\ g = m.granted => Spent(g, m) = 0
<1> DEFINE d == g - m.granted
<1>1. d \in Int /\ (g + 1) - m.granted = d + 1 /\ Unit \in Int
  BY UnitAssumption DEF Marks
<1>2. d * Unit \in Int /\ (d + 1) * Unit = d * Unit + Unit
  BY <1>1, IntProduct, ProductOfSum
<1>3. g = m.granted => d * Unit = 0
  BY <1>1
<1>4. Spent(g, m) = d * Unit /\ Spent(g + 1, m) = (d + 1) * Unit
  BY <1>1 DEF Spent
<1> HIDE DEF d
<1> QED
  BY <1>2, <1>3, <1>4

\* What an interval may spend grows by the refill of the time it lasts and by a
\* purse and a token for a stray script.
LEMMA TotalFacts ==
  ASSUME NEW cfg \in Known, Validate(cfg), NEW m \in Marks, NEW t \in Int, NEW a \in Int
  PROVE  /\ Total(t, m, cfg) \in Int /\ a * cfg.RPS \in Int
         /\ Total(t + a, m, cfg) = Total(t, m, cfg) + a * cfg.RPS
         /\ Total(t, [m EXCEPT !.strays = @ + 1], cfg) = Total(t, m, cfg) + (FullPurse(cfg) + Unit)
         /\ m.strays = 0 /\ m.clock = t => Total(t, m, cfg) = FullPurse(cfg)
<1>1. PICK P \in Int, u \in Int, R \in Int : P = FullPurse(cfg) /\ u = P + Unit /\ R = cfg.RPS
  BY ConfigFacts
<1>2. PICK s \in Int, d \in Int : s = m.strays /\ d = t - m.clock /\ (t + a) - m.clock = d + a
  BY DEF Marks
<1>3. PICK su \in Int, dr \in Int, ar \in Int : su = s * u /\ dr = d * R /\ ar = a * R
  BY <1>1, <1>2, IntProduct
<1>4. (d + a) * R = dr + ar
  <2>1. (d + a) * R = d * R + a * R
    BY <1>1, <1>2, ProductOfSum
  <2> QED
    BY <1>3, <2>1, Zenon
<1>5. (s + 1) * u = su + u
  <2>1. (s + 1) * u = s * u + 1 * u /\ 1 * u = u
    BY <1>1, <1>2, ProductOfSum
  <2> QED
    BY <1>3, <2>1
<1>6. \A e : \A n : n.strays = s /\ e - n.clock = d => Total(e, n, cfg) = P + su + dr
  BY <1>1, <1>3, Zenon DEF Total
<1>7. Total(t, m, cfg) = P + su + dr
  BY <1>2, <1>6, Zenon
<1>8. Total(t + a, m, cfg) = P + su + (dr + ar)
  <2>1. Total(t + a, m, cfg)
          = FullPurse(cfg) + m.strays * (FullPurse(cfg) + Unit) + ((t + a) - m.clock) * cfg.RPS
    BY Zenon DEF Total
  <2>2. Total(t + a, m, cfg) = P + s * u + (d + a) * R
    BY <1>1, <1>2, <2>1, Zenon
  <2> QED
    BY <1>3, <1>4, <2>2, Zenon
<1>9. Total(t, [m EXCEPT !.strays = @ + 1], cfg) = P + (su + u) + dr
  <2> DEFINE n == [m EXCEPT !.strays = @ + 1]
  <2>1. n.strays = s + 1 /\ n.clock = m.clock
    BY <1>2 DEF Marks
  <2> HIDE DEF n
  <2>2. Total(t, n, cfg)
          = FullPurse(cfg) + n.strays * (FullPurse(cfg) + Unit) + (t - n.clock) * cfg.RPS
    BY Zenon DEF Total
  <2>3. Total(t, n, cfg) = P + (s + 1) * u + d * R
    BY <1>1, <1>2, <2>1, <2>2, Zenon
  <2>4. Total(t, n, cfg) = P + (su + u) + dr
    BY <1>3, <1>5, <2>3, Zenon
  <2> QED
    BY <2>4 DEF n
<1>10. ASSUME m.strays = 0, m.clock = t PROVE Total(t, m, cfg) = P
  <2>1. s = 0 /\ d = 0 /\ 0 * u = 0 /\ 0 * R = 0
    BY <1>1, <1>2, <1>10
  <2>2. su = 0 /\ dr = 0
    BY <1>3, <2>1, Zenon
  <2> QED
    BY <1>1, <1>7, <2>2
<1>11. Total(t, m, cfg) \in Int /\ a * cfg.RPS \in Int
  BY <1>1, <1>3, <1>7
<1>12. Total(t + a, m, cfg) = Total(t, m, cfg) + a * cfg.RPS
  <2>1. P + su + (dr + ar) = (P + su + dr) + ar
    BY <1>1, <1>3
  <2> QED
    BY <1>1, <1>3, <1>7, <1>8, <2>1, Zenon
<1>13. Total(t, [m EXCEPT !.strays = @ + 1], cfg) = Total(t, m, cfg) + (FullPurse(cfg) + Unit)
  <2>1. P + (su + u) + dr = (P + su + dr) + u
    BY <1>1, <1>3
  <2> QED
    BY <1>1, <1>7, <1>9, <2>1, Zenon
<1> QED
  BY <1>1, <1>10, <1>11, <1>12, <1>13

LEMMA TotalLater ==
  ASSUME NEW cfg \in Known, Validate(cfg), NEW m \in Marks, NEW t \in Int, NEW a \in Int
  PROVE  Total(t + a, m, cfg) = Total(t, m, cfg) + a * cfg.RPS
BY TotalFacts

LEMMA TotalNow ==
  ASSUME NEW cfg \in Known, Validate(cfg), NEW m \in Marks, NEW t \in Int
  PROVE  /\ Total(t, m, cfg) \in Int
         /\ m.strays = 0 /\ m.clock = t => Total(t, m, cfg) = FullPurse(cfg)
<1>1. 0 \in Int
  OBVIOUS
<1> QED
  BY <1>1, TotalFacts

LEMMA TotalStray ==
  ASSUME NEW cfg \in Known, Validate(cfg), NEW m \in Marks, NEW t \in Int,
         NEW m2, m2 = [m EXCEPT !.strays = @ + 1]
  PROVE  Total(t, m2, cfg) = Total(t, m, cfg) + (FullPurse(cfg) + Unit)
<1>1. 0 \in Int
  OBVIOUS
<1>2. Total(t, [m EXCEPT !.strays = @ + 1], cfg) = Total(t, m, cfg) + (FullPurse(cfg) + Unit)
  BY <1>1, TotalFacts
<1> QED
  BY <1>2

\* A key that was set at t is as good as full when it expires, as the TTL outlasts
\* the refill (redisstore.go:79, 97-102).
LEMMA OutlastsRefill ==
  ASSUME NEW cfg \in Known, Validate(cfg), TTLCovers(cfg)
  PROVE  FullPurse(cfg) <= TTL * cfg.RPS
<1>1. PICK R \in Int, B \in Int : R = cfg.RPS /\ B = cfg.Burst
  BY ConfigFacts
<1>2. PICK rest \in Int : rest = TTL - Slack /\ rest + Slack = TTL /\ Slack \in Int
  BY ConfigFacts
<1>3. PICK x \in Int, y \in Int : x = rest * R /\ y = Slack * R
  BY <1>1, <1>2, IntProduct
<1>4. TTL * R = x + y
  BY <1>1, <1>2, <1>3, ProductOfSum
<1>5. B <= x
  BY <1>1, <1>2, <1>3 DEF TTLCovers
<1>6. FullPurse(cfg) = B + y
  BY <1>1, <1>3 DEF FullPurse
<1> QED
  BY <1>1, <1>3, <1>4, <1>5, <1>6

\* A script under the Config in force keeps the purse, whether it makes the bucket
\* or finds it, and allows or denies.
LEMMA ScriptSound ==
  ASSUME NEW cfg \in Known, Validate(cfg), NEW b \in Buckets \cup {nil}, NEW t \in Nat,
         NEW g \in Nat, NEW m \in Marks, Sound(b, t, g, m, cfg),
         NEW now \in Int, t <= now + MaxDelay, now <= t + Spread,
         NEW r, r = tokenBucketLua(b, cfg, now),
         NEW b2, b2 = [tokens |-> r.tokens, ts |-> r.ts, expires |-> t + TTL],
         NEW g2, g2 = IF r.allowed THEN g + 1 ELSE g
  PROVE  Sound(b2, t, g2, m, cfg)
<1>1. PICK B \in Nat, u \in Nat \ {0}, P \in Nat, more \in Nat :
        /\ B = cfg.Burst /\ u = Unit /\ P = FullPurse(cfg) /\ more = Slack * cfg.RPS
        /\ P = B + more /\ u <= B
  BY ConfigFacts
<1>2. PICK x \in Int : x = Purse(b, t, cfg)
  BY PurseType
<1>3. PICK back \in 0 .. more, found \in Int :
        /\ found = MinOf(B, x - back)
        /\ r.allowed <=> found >= u
        /\ b2.tokens = IF r.allowed THEN found - u ELSE found
        /\ Purse(b2, t, cfg) = b2.tokens + back
        /\ b2 \in Buckets /\ b2 # nil /\ b2.expires = t + TTL
  BY <1>1, <1>2, ScriptEffect
<1>4. PICK v, w, tot \in Int :
        v = Spent(g, m) /\ w = Spent(g2, m) /\ tot = Total(t, m, cfg)
  <2>1. g2 \in Nat /\ m.granted <= g2 /\ m.granted <= g /\ t \in Int
    BY DEF Sound, Marks
  <2>2. Spent(g, m) \in Int /\ Spent(g2, m) \in Int
    BY <2>1, SpentFacts
  <2>3. Total(t, m, cfg) \in Int
    BY <2>1, TotalNow
  <2> QED
    BY <2>2, <2>3
<1>5. w = v + (IF r.allowed THEN u ELSE 0)
  BY <1>1, <1>4, SpentFacts DEF Sound
<1>6. m.granted <= g2 /\ m.clock <= t /\ t < b2.expires
  <2>1. TTL \in Nat \ {0} /\ m.granted \in Nat
    BY ConfigFacts DEF Marks
  <2> QED
    BY <1>3, <2>1 DEF Sound
<1>7. ASSUME TTLCovers(cfg)
      PROVE  /\ w + MinOf(P, Purse(b2, t, cfg)) <= tot
             /\ w + P <= Total(b2.expires, m, cfg)
             /\ w <= tot
  <2>1. v + MinOf(P, x) <= tot /\ v <= tot
    BY <1>1, <1>2, <1>4, <1>7 DEF Sound
  <2> DEFINE end == Total(b2.expires, m, cfg)
  <2>0. end \in Int /\ tot + P <= end
    <3>1. t \in Int /\ TTL \in Int
      BY ConfigFacts
    <3>2. PICK gain \in Int : gain = TTL * cfg.RPS /\ P <= gain
      BY <1>1, <1>7, <3>1, OutlastsRefill, ConfigFacts, IntProduct
    <3>3. end = tot + gain
      <4>1. Total(t + TTL, m, cfg) = Total(t, m, cfg) + TTL * cfg.RPS
        BY <3>1, TotalLater, Zenon
      <4> QED
        BY <1>3, <1>4, <3>2, <4>1, Zenon
    <3> HIDE DEF end
    <3> QED
      BY <1>1, <1>4, <3>2, <3>3
  <2> HIDE DEF end
  <2>2. PICK left \in Int : left = (IF r.allowed THEN found - u ELSE found) /\ left = b2.tokens
    BY <1>1, <1>3
  <2>3. /\ found <= B /\ found <= x - back
    BY <1>1, <1>2, <1>3 DEF MinOf
  <2>4. CASE r.allowed
    <3>1. left = found - u /\ found >= u /\ w = v + u
      BY <1>3, <1>5, <2>2, <2>4
    <3>2. v + found + back <= tot
      BY <1>1, <1>2, <1>3, <1>4, <2>1, <2>3 DEF MinOf
    <3>3. w + (left + back) <= tot /\ w <= tot
      BY <1>1, <1>3, <1>4, <3>1, <3>2
    <3>4. w + MinOf(P, left + back) <= tot
      BY <1>1, <1>3, <1>4, <2>2, <3>3 DEF MinOf
    <3>5. w + P <= end
      BY <1>1, <1>4, <2>0, <3>3
    <3> QED
      BY <1>3, <2>2, <3>3, <3>4, <3>5 DEF end
  <2>5. CASE ~r.allowed
    <3>1. left = found /\ w = v
      BY <1>3, <1>4, <1>5, <2>2, <2>5
    <3>2. w + MinOf(P, left + back) <= tot /\ w <= tot
      BY <1>1, <1>2, <1>3, <1>4, <2>1, <2>3, <3>1 DEF MinOf
    <3>3. w + P <= end
      BY <1>1, <1>4, <2>0, <3>2
    <3> QED
      BY <1>3, <2>2, <3>2, <3>3 DEF end
  <2> QED
    BY <2>4, <2>5
<1> QED
  BY <1>1, <1>4, <1>6, <1>7 DEF Sound

\* A stray script makes what bucket it likes; its token and a full purse pay for it.
LEMMA StraySound ==
  ASSUME NEW cfg \in Known, Validate(cfg), NEW b \in Buckets \cup {nil}, NEW t \in Nat,
         NEW g \in Nat, NEW m \in Marks, Sound(b, t, g, m, cfg),
         NEW b2 \in Buckets, b2.expires = t + TTL, NEW g2 \in {g, g + 1},
         NEW m2, m2 = [m EXCEPT !.strays = @ + 1]
  PROVE  Sound(b2, t, g2, m2, cfg)
<1>1. PICK u \in Nat \ {0}, P \in Nat : u = Unit /\ P = FullPurse(cfg)
  BY ConfigFacts
<1>2. m2.granted = m.granted /\ m2.clock = m.clock /\ m2 \in Marks
  BY DEF Marks
<1>3. PICK v, w, tot, tot2, end, x \in Int :
        /\ v = Spent(g, m) /\ w = Spent(g2, m) /\ tot = Total(t, m, cfg)
        /\ tot2 = Total(t, m2, cfg) /\ end = Total(t + TTL, m2, cfg) /\ x = Purse(b2, t, cfg)
  <2>1. g2 \in Nat /\ m.granted <= g2 /\ t \in Int /\ t + TTL \in Int
    BY ConfigFacts DEF Sound, Marks
  <2>2. Spent(g, m) \in Int /\ Spent(g2, m) \in Int
    BY <2>1, SpentFacts DEF Sound
  <2>3. Total(t, m, cfg) \in Int /\ Total(t, m2, cfg) \in Int /\ Total(t + TTL, m2, cfg) \in Int
    BY <1>2, <2>1, TotalNow
  <2>4. Purse(b2, t, cfg) \in Int
    BY PurseType
  <2> QED
    BY <2>2, <2>3, <2>4
<1>4. w <= v + u
  BY <1>1, <1>3, SpentFacts DEF Sound
<1>5. tot2 = tot + (P + u)
  BY <1>1, <1>3, TotalStray
<1>6. w = Spent(g2, m2)
  BY <1>2, <1>3 DEF Spent
<1>7. m2.granted <= g2 /\ m2.clock <= t /\ t < b2.expires
  <2>1. TTL \in Nat \ {0} /\ m.granted \in Nat
    BY ConfigFacts DEF Marks
  <2> QED
    BY <1>2, <2>1 DEF Sound
<1>8. ASSUME TTLCovers(cfg)
      PROVE  w + MinOf(P, x) <= tot2 /\ w + P <= end /\ w <= tot2
  <2>1. v <= tot
    BY <1>3, <1>8 DEF Sound
  <2>2. w + P <= tot2
    BY <1>1, <1>3, <1>4, <1>5, <2>1
  <2>3. tot2 <= end
    <3>1. PICK gain \in Int : gain = TTL * cfg.RPS /\ P <= gain
      BY <1>1, <1>8, OutlastsRefill, ConfigFacts, IntProduct
    <3>2. t \in Int /\ TTL \in Int
      BY ConfigFacts
    <3>3. end = tot2 + gain
      BY <1>2, <1>3, <3>1, <3>2, TotalLater
    <3> QED
      BY <1>1, <1>3, <3>1, <3>3
  <2>4. MinOf(P, x) <= P /\ MinOf(P, x) \in Int /\ 0 <= P
    BY <1>1, <1>3 DEF MinOf
  <2> QED
    BY <1>1, <1>3, <2>2, <2>3, <2>4
<1> QED
  BY <1>1, <1>3, <1>6, <1>7, <1>8 DEF Sound

\* Time keeps the purse, also where the key expires.
LEMMA TickSound ==
  ASSUME NEW cfg \in Known, Validate(cfg), NEW b \in Buckets \cup {nil}, NEW t \in Nat,
         NEW g \in Nat, NEW m \in Marks, Sound(b, t, g, m, cfg),
         NEW b2, b2 = IF Expired(b, t + 1) THEN nil ELSE b
  PROVE  Sound(b2, t + 1, g, m, cfg)
<1>1. PICK P \in Nat, R \in Nat : P = FullPurse(cfg) /\ R = cfg.RPS
  BY ConfigFacts
<1>2. PICK v, tot, more, x, y \in Int :
        /\ v = Spent(g, m) /\ tot = Total(t, m, cfg) /\ more = Total(t + 1, m, cfg)
        /\ x = Purse(b, t, cfg) /\ y = Purse(b2, t + 1, cfg)
  <2>1. b2 \in Buckets \cup {nil} /\ t \in Int /\ t + 1 \in Nat /\ t + 1 \in Int
    OBVIOUS
  <2> QED
    BY <2>1, SpentFacts, TotalNow, PurseType DEF Sound
<1>3. more = tot + R
  <2>1. t \in Int /\ 1 \in Int /\ 1 * R = R
    BY <1>1
  <2>2. Total(t + 1, m, cfg) = Total(t, m, cfg) + 1 * cfg.RPS
    BY <2>1, TotalLater, Zenon
  <2> QED
    BY <1>1, <1>2, <2>1, <2>2, Zenon
<1>4. m.granted <= g /\ m.clock <= t + 1
  BY DEF Sound, Marks
<1>5. b # nil => b.expires \in Nat /\ t + 1 <= b.expires
  BY DEF Sound, Buckets
<1>6. b2 # nil => b2 = b /\ t + 1 < b2.expires
  BY <1>5 DEF Expired, Never
<1>7. ASSUME TTLCovers(cfg)
      PROVE  /\ v + MinOf(P, y) <= more
             /\ b2 # nil => v + P <= Total(b2.expires, m, cfg)
             /\ v <= more
  <2>1. v + MinOf(P, x) <= tot /\ v <= tot
    BY <1>1, <1>2, <1>7 DEF Sound
  <2>2. v <= more
    BY <1>1, <1>2, <1>3, <2>1
  <2>3. b # nil => v + P <= Total(b.expires, m, cfg)
    BY <1>1, <1>2, <1>7 DEF Sound
  <2>4. CASE b = nil
    <3>1. b2 = nil /\ x = P /\ y = P
      BY <1>1, <1>2, <2>4 DEF Purse
    <3> QED
      BY <1>1, <1>2, <1>3, <2>1, <2>2, <3>1 DEF MinOf
  <2>5. CASE b # nil /\ Expired(b, t + 1)
    <3>1. b2 = nil /\ y = P /\ b.expires = t + 1
      BY <1>1, <1>2, <1>5, <2>5 DEF Purse, Expired
    <3>2. v + P <= more
      BY <1>2, <2>3, <2>5, <3>1
    <3> QED
      BY <1>1, <1>2, <2>2, <3>1, <3>2 DEF MinOf
  <2>6. CASE b # nil /\ ~Expired(b, t + 1)
    <3>1. b2 = b /\ y = x + R
      BY <1>1, <1>2, <2>6, PurseType
    <3>2. v + MinOf(P, y) <= more
      BY <1>1, <1>2, <1>3, <2>1, <3>1 DEF MinOf
    <3> QED
      BY <2>2, <2>3, <2>6, <3>1, <3>2
  <2> QED
    BY <2>4, <2>5, <2>6
<1> QED
  BY <1>1, <1>2, <1>4, <1>6, <1>7 DEF Sound

\* An interval that begins now has spent nothing, whatever the Config.
LEMMA FreshSound ==
  ASSUME NEW cfg \in Known, Validate(cfg), NEW b \in Buckets \cup {nil}, NEW t \in Nat,
         NEW g \in Nat, b # nil => t < b.expires,
         NEW m, m = [granted |-> g, clock |-> t, strays |-> 0]
  PROVE  Sound(b, t, g, m, cfg)
<1>1. m \in Marks /\ m.granted = g /\ m.clock = t /\ m.strays = 0
  BY DEF Marks
<1>2. PICK P \in Nat, x \in Int : P = FullPurse(cfg) /\ x = Purse(b, t, cfg)
  BY ConfigFacts, PurseType
<1>3. Spent(g, m) = 0
  BY <1>1, SpentFacts
<1>4. Total(t, m, cfg) = P
  BY <1>1, <1>2, TotalNow
<1>5. ASSUME b # nil PROVE P <= Total(b.expires, m, cfg)
  <2>1. PICK d \in Nat : b.expires = t + d
    <3>1. b.expires \in Nat /\ b.expires - t \in Nat /\ b.expires = t + (b.expires - t)
      BY <1>5 DEF Buckets
    <3> QED
      BY <3>1
  <2>2. PICK gain \in Nat : gain = d * cfg.RPS
    BY ConfigFacts, NatProduct
  <2>3. Total(t + d, m, cfg) = P + gain
    <3>1. t \in Int /\ d \in Int
      OBVIOUS
    <3>2. Total(t + d, m, cfg) = Total(t, m, cfg) + d * cfg.RPS
      BY <1>1, <3>1, TotalLater, Zenon
    <3> QED
      BY <1>4, <2>2, <3>2, Zenon
  <2> QED
    BY <1>2, <2>1, <2>2, <2>3
<1>6. MinOf(P, x) <= P /\ MinOf(P, x) \in Int
  BY <1>2 DEF MinOf
<1>7. 0 + MinOf(P, x) <= P /\ (b # nil => 0 + P <= Total(b.expires, m, cfg)) /\ 0 <= P
  BY <1>2, <1>5, <1>6
<1> QED
  BY <1>1, <1>2, <1>3, <1>4, <1>7 DEF Sound

\* Who is about to send a script was so before, or has just read the clock.
LEMMA ScriptStays ==
  ASSUME TypeInv, [Next]_vars, NEW q \in Processes, pc'[q] = "script", ~ReadClock(q)
  PROVE  pc[q] = "script" /\ call'[q] = call[q]
<1>0. pc \in [Processes -> Points] /\ call \in [Processes -> CallRecords]
  BY DEF TypeInv, Calls
<1>1. ASSUME UNCHANGED <<pc, call>> PROVE pc[q] = "script" /\ call'[q] = call[q]
  BY <1>1
<1>2. ASSUME NEW p \in Processes, NEW at, at # "script" \/ p # q, pc' = [pc EXCEPT ![p] = at],
             call' = call \/ \E c : call' = [call EXCEPT ![p] = c]
      PROVE  pc[q] = "script" /\ call'[q] = call[q]
  BY <1>0, <1>2
<1>3. CASE Tick \/ Observe \/ UNCHANGED vars
  BY <1>1, <1>3 DEF Tick, Observe, vars
<1> SUFFICES ASSUME NEW p \in Processes,
                    \/ Arrive(p) \/ Step(p) \/ removeClient(p) \/ Crash(p)
                    \/ \E cfg \in Configs : setClientConfig(p, cfg)
             PROVE  pc[q] = "script" /\ call'[q] = call[q]
  BY <1>3, Zenon DEF Next
<1>4. CASE Arrive(p) \/ removeClient(p)
  BY <1>2, <1>4 DEF Arrive, removeClient, Goto
<1>5. CASE ReadConfig(p)
  <2>1. pc' = [pc EXCEPT ![p] = "clock"]
    BY <1>5 DEF ReadConfig, Goto
  <2>2. q # p
    BY <1>0, <2>1
  <2>3. pc'[q] = pc[q] /\ call'[q] = call[q]
    BY <1>0, <1>5, <2>1, <2>2 DEF ReadConfig
  <2> QED
    BY <2>3
<1>6. CASE ReadClock(p)
  <2>1. q # p /\ pc' = [pc EXCEPT ![p] = "script"]
    BY <1>6 DEF ReadClock, Goto
  <2>2. pc'[q] = pc[q] /\ call'[q] = call[q]
    BY <1>0, <1>6, <2>1 DEF ReadClock
  <2> QED
    BY <2>2
<1>7. CASE RunScript(p) \/ ScriptFails(p)
  <2>1. \/ UNCHANGED <<pc, call>>
        \/ \E yes : pc' = [pc EXCEPT ![p] = "record"] /\ call' = [call EXCEPT ![p].allowed = yes]
    BY <1>7, Zenon DEF RunScript, ScriptFails, Decide, Resend, FailClosed, Goto
  <2> QED
    BY <1>1, <1>2, <2>1
<1>8. CASE Record(p) \/ RefreshTTL(p) \/ Store(p) \/ Drop(p) \/ Remove(p) \/ CommandFails(p) \/ Crash(p)
  <2>1. \/ UNCHANGED <<pc, call>>
        \/ \E at \in {"expire", "drop", "idle"} :
             /\ pc' = [pc EXCEPT ![p] = at]
             /\ call' = call \/ call' = [call EXCEPT ![p] = NoCall]
    BY <1>8, Zenon DEF Record, RefreshTTL, Store, Drop, Remove, CommandFails, Crash, Replied,
       Returned, LostReply, Return, Goto
  <2> QED
    BY <1>1, <1>2, <2>1
<1>9. ASSUME NEW cfg \in Configs, setClientConfig(p, cfg) PROVE pc[q] = "script" /\ call'[q] = call[q]
  <2>1. pc' = [pc EXCEPT ![p] = "store"] /\ call' = [call EXCEPT ![p].cfg = cfg]
    BY <1>9 DEF setClientConfig, Goto
  <2> QED
    BY <1>2, <2>1
<1> QED
  BY <1>4, <1>5, <1>6, <1>7, <1>8, <1>9 DEF Step

\* A script is never later than MaxDelay: time does not pass before it.
LEMMA StepInTime == TypeInv /\ InTime /\ [Next]_vars => InTime'
<1> SUFFICES ASSUME TypeInv, [Next]_vars, InTime, NEW q \in Processes, pc'[q] = "script"
             PROVE  /\ clock' + Skew[q] - call'[q].now <= MaxDelay
                    /\ call'[q].now <= clock' + Skew[q]
  BY DEF InTime
<1>0. /\ pc \in [Processes -> Points] /\ call \in [Processes -> CallRecords]
      /\ clock \in Nat /\ Skew \in [Processes -> Int] /\ MaxDelay \in Nat
  BY RedisAssumption DEF TypeInv, TypeOK, Calls
<1>1. CASE Tick
  <2>1. pc' = pc /\ call' = call /\ clock' = clock + 1
        /\ clock + Skew[q] - call[q].now < MaxDelay
    BY <1>1 DEF Tick
  <2>2. call[q].now <= clock + Skew[q]
    BY <2>1 DEF InTime
  <2> DEFINE now == call[q].now
             ahead == Skew[q]
             t == clock + 1
  <2>3. now \in Int /\ ahead \in Int
    BY <1>0 DEF CallRecords
  <2> HIDE DEF now, ahead
  <2>4. t + ahead - now <= MaxDelay /\ now <= t + ahead
    BY <1>0, <2>1, <2>2, <2>3 DEF now, ahead
  <2>5. clock' = t /\ call'[q].now = now
    BY <2>1 DEF now
  <2> HIDE DEF t
  <2> QED
    BY <2>4, <2>5, Zenon DEF ahead
<1>2. CASE ReadClock(q)
  <2> DEFINE ahead == Skew[q]
             now   == clock + ahead
  <2>1. clock' = clock /\ call' = [call EXCEPT ![q].now = now]
    BY <1>2 DEF ReadClock
  <2>2. now \in Int /\ clock + ahead - now <= MaxDelay /\ now <= clock + ahead
    BY <1>0
  <2> HIDE DEF now, ahead
  <2>3. call'[q].now = now
    BY <1>0, <2>1, <2>2 DEF CallRecords
  <2> QED
    BY <2>1, <2>2, <2>3, Zenon DEF ahead
<1>3. CASE ~Tick /\ ~ReadClock(q)
  <2>1. clock' = clock
    BY <1>3, Zenon DEF Next, vars, Step, Arrive, ReadConfig, ReadClock, RunScript,
       ScriptFails, Record, RefreshTTL, Store, Drop, Remove, CommandFails, removeClient, Crash,
       setClientConfig, Observe
  <2>2. pc[q] = "script" /\ call'[q] = call[q]
    BY <1>3, ScriptStays
  <2>3. /\ clock + Skew[q] - call[q].now <= MaxDelay
        /\ call[q].now <= clock + Skew[q]
    BY <2>2 DEF InTime
  <2> QED
    BY <2>1, <2>2, <2>3, Zenon
<1> QED
  BY <1>1, <1>2, <1>3

\* The time of a script that runs now.
LEMMA ScriptInTime ==
  ASSUME TypeInv, InTime, NEW p \in Processes, pc[p] = "script"
  PROVE  /\ call[p].now \in Int /\ clock <= call[p].now + MaxDelay
         /\ call[p].now <= clock + Spread /\ call[p].cfg \in Known
<1>1. PICK now, t, ahead, late \in Int : /\ now = call[p].now /\ t = clock
                                         /\ ahead = Skew[p] /\ late = MaxDelay
  BY RedisAssumption DEF TypeInv, TypeOK, Calls, CallRecords
<1>2. t + ahead - now <= late /\ now <= t + ahead
  BY <1>1 DEF InTime
<1>3. 0 <= ahead /\ ahead <= Spread /\ Spread \in Nat
  BY <1>1, RedisAssumption
<1>4. t <= now + late /\ now <= t + Spread
  BY <1>1, <1>2, <1>3
<1>5. call[p].cfg \in Known
  BY DEF TypeInv, Calls, Fits
<1> QED
  BY <1>1, <1>4, <1>5

\* The Config in force can be used.
LEMMA InForceFacts == TypeInv /\ Validated => InForce \in Known /\ Validate(InForce)
BY RedisAssumption DEF TypeInv, TypeOK, Validated, InForce, Known

\* Scripts, time, changes and a new interval keep the purse; nothing else touches
\* it.
LEMMA StepSound == TypeInv /\ TypeInv' /\ Validated' /\ RateInv /\ [Next]_vars
                     => Sound(bucket, clock, granted, mark, InForce)'
<1> SUFFICES ASSUME TypeInv, TypeInv', Validated', RateInv, [Next]_vars
             PROVE  Sound(bucket, clock, granted, mark, InForce)'
  OBVIOUS
<1>0. /\ bucket \in Buckets \cup {nil} /\ clock \in Nat /\ granted \in Nat /\ mark \in Marks
      /\ InTime /\ Validated
  BY DEF TypeInv, TypeOK, Marks, RateInv
<1>1. ASSUME NEW b, NEW t, NEW g, NEW m, NEW cfg, Sound(b, t, g, m, cfg),
             bucket' = b, clock' = t, granted' = g, mark' = m, InForce' = cfg
      PROVE  Sound(bucket, clock, granted, mark, InForce)'
  BY <1>1 DEF Sound, Purse, Spent, Total, TTLCovers, FullPurse
<1>2. PICK cfg : cfg = InForce
  OBVIOUS
<1>3. cfg \in Known /\ Validate(cfg) /\ Sound(bucket, clock, granted, mark, cfg)
  BY <1>0, <1>2, InForceFacts DEF RateInv
<1>4. PICK cfg1 : cfg1 = InForce'
  OBVIOUS
<1>5. cfg1 \in Known /\ Validate(cfg1)
  <2>1. (InForce \in Known /\ Validate(InForce))'
    BY RedisAssumption DEF TypeInv, TypeOK, Validated, InForce, Known
  <2> QED
    BY <1>4, <2>1 DEF Validate
<1>6. config' = config => cfg1 = cfg
  BY <1>2, <1>4 DEF InForce
<1>7. ASSUME NEW b \in {bucket, nil}, bucket' = b, clock' = clock, granted' = granted, WatchAnew
      PROVE  Sound(bucket, clock, granted, mark, InForce)'
  <2>1. PICK m : m = [granted |-> granted, clock |-> clock, strays |-> 0]
    OBVIOUS
  <2>2. b # nil => clock < b.expires
    BY <1>3, <1>7 DEF Sound
  <2>3. Sound(b, clock, granted, m, cfg1)
    BY <1>0, <1>5, <2>1, <2>2, FreshSound
  <2> QED
    BY <1>1, <1>4, <1>7, <2>1, <2>3 DEF WatchAnew
<1>8. ASSUME NEW p \in Processes, RunScript(p)
      PROVE  Sound(bucket, clock, granted, mark, InForce)'
  <2>1. PICK own, now, r, b, g :
          /\ own = call[p].cfg /\ now = call[p].now /\ r = tokenBucketLua(bucket, own, now)
          /\ b = [tokens |-> r.tokens, ts |-> r.ts, expires |-> clock + TTL]
          /\ g = IF r.allowed THEN granted + 1 ELSE granted
    OBVIOUS
  <2>2. /\ bucket' = b /\ granted' = g /\ clock' = clock /\ config' = config
        /\ mark' = IF own = cfg THEN mark ELSE [mark EXCEPT !.strays = @ + 1]
    BY <1>2, <1>8, <2>1, Zenon DEF RunScript, Deadline
  <2>3. now \in Int /\ clock <= now + MaxDelay /\ now <= clock + Spread /\ own \in Known
    BY <1>0, <1>8, <2>1, ScriptInTime DEF RunScript
  <2>4. CASE own = cfg
    <3>1. Sound(b, clock, g, mark, cfg)
      BY <1>0, <1>3, <2>1, <2>3, <2>4, ScriptSound
    <3> QED
      BY <1>1, <1>4, <1>6, <2>2, <2>4, <3>1
  <2>5. CASE own # cfg
    <3>1. PICK m : m = [mark EXCEPT !.strays = @ + 1]
      OBVIOUS
    <3>2. b \in Buckets /\ b.expires = clock + TTL
      <4>1. r.tokens \in Int /\ r.ts \in Int
        BY <1>0, <2>1, <2>3, LuaType
      <4>2. clock + TTL \in Nat
        BY <1>0, RedisAssumption
      <4> QED
        BY <2>1, <4>1, <4>2 DEF Buckets
    <3>3. Sound(b, clock, g, m, cfg)
      BY <1>0, <1>3, <2>1, <3>1, <3>2, StraySound
    <3> QED
      BY <1>1, <1>4, <1>6, <2>2, <2>5, <3>1, <3>3
  <2> QED
    BY <2>4, <2>5
<1>9. CASE Tick
  <2>1. PICK t, b : t = clock + 1 /\ b = IF Expired(bucket, t) THEN nil ELSE bucket
    OBVIOUS
  <2>2. bucket' = b /\ clock' = t /\ granted' = granted /\ mark' = mark /\ config' = config
    BY <1>9, <2>1, Zenon DEF Tick, observers
  <2>3. Sound(b, t, granted, mark, cfg)
    BY <1>0, <1>3, <2>1, TickSound
  <2> QED
    BY <1>1, <1>4, <1>6, <2>2, <2>3
<1>10. CASE Observe
  BY <1>7, <1>10 DEF Observe, redis
<1>11. ASSUME NEW p \in Processes, Store(p) \/ Drop(p) \/ Remove(p)
       PROVE  Sound(bucket, clock, granted, mark, InForce)'
  BY <1>7, <1>11 DEF Store, Drop, DelBucket, Remove
<1>12. CASE /\ ~Tick /\ ~Observe
            /\ \A p \in Processes : ~RunScript(p) /\ ~Store(p) /\ ~Drop(p) /\ ~Remove(p)
  <2>1. UNCHANGED <<config, bucket, clock, granted, mark>>
    BY <1>12, Zenon DEF Next, vars, redis, observers, Step, Arrive, ReadConfig, ReadClock,
       ScriptFails, Record, RefreshTTL, CommandFails, Crash, removeClient, setClientConfig
  <2> QED
    BY <1>1, <1>3, <1>4, <1>6, <2>1
<1> QED
  BY <1>8, <1>9, <1>10, <1>11, <1>12

\* Before the first request there is no bucket and nothing is spent.
LEMMA InitRate == Init => RateInv
<1> SUFFICES ASSUME Init PROVE RateInv
  OBVIOUS
<1>1. InTime /\ Validated
  BY DEF Init, InTime, Validated
<1>2. InForce = DefaultConfig /\ DefaultConfig \in Known /\ Validate(DefaultConfig)
  BY RedisAssumption DEF Init, InForce, Known
<1>3. /\ bucket = nil /\ clock = 0 /\ granted = 0
      /\ mark = [granted |-> 0, clock |-> 0, strays |-> 0]
  BY DEF Init
<1>4. Sound(bucket, clock, granted, mark, InForce)
  BY <1>2, <1>3, FreshSound
<1> QED
  BY <1>1, <1>4 DEF RateInv

\* The rate limit that instances sharing a Redis enforce together: for any
\* number of them, any skew, delay and TTL, with lost replies, resent scripts and
\* crashes, from every change of the Config to the next, whatever requests still
\* carry another one (redisstore.go:14-30, 91-98).
THEOREM RateIsBounded == Spec => []RateBound
<1>1. Init => TypeInv /\ RateInv
  BY InitType, InitRate
<1>2. (TypeInv /\ RateInv) /\ [Next]_vars => (TypeInv /\ RateInv)'
  BY StepType, StepInTime, StepValidated, StepSound DEF RateInv
<1>3. RateInv => RateBound
  BY DEF RateInv, Sound, Spent, Total, RateBound
<1> QED
  BY <1>1, <1>2, <1>3, PTL DEF Spec
-----------------------------------------------------------------------------
\* Nobody has configured the client: every script runs under DefaultConfig.
Untouched ==
  /\ config = NoConfig
  /\ \A p \in Processes : /\ pc[p] \notin {"store", "drop", "remove"}
                          /\ pc[p] \in {"clock", "script"} => call[p].cfg = DefaultConfig

\* Where a call may go that neither reads Config or clock nor changes Config.
LEMMA OtherCalls ==
  ASSUME TypeInv, [Next]_vars, NEW q \in Processes,
         \A p \in Processes : ~ReadConfig(p) /\ ~ReadClock(p) /\ ~Store(p) /\ ~Drop(p) /\ ~Remove(p),
         \A p \in Processes : ~removeClient(p) /\ \A cfg \in Configs : ~setClientConfig(p, cfg)
  PROVE  \/ pc'[q] = pc[q] /\ call'[q] = call[q]
         \/ pc'[q] \in {"idle", "config", "record", "expire"}
<1>0. pc \in [Processes -> Points] /\ call \in [Processes -> CallRecords]
  BY DEF TypeInv, Calls
<1>1. CASE UNCHANGED <<pc, call>>
  BY <1>1
<1>2. ASSUME NEW p \in Processes, NEW at \in {"idle", "config", "record", "expire"},
             pc' = [pc EXCEPT ![p] = at],
             \/ call' = call \/ \E c : call' = [call EXCEPT ![p] = c]
      PROVE  \/ pc'[q] = pc[q] /\ call'[q] = call[q]
             \/ pc'[q] \in {"idle", "config", "record", "expire"}
  BY <1>0, <1>2
<1>3. ASSUME NEW p \in Processes, Arrive(p) PROVE pc' = [pc EXCEPT ![p] = "config"] /\ call' = call
  BY <1>3 DEF Arrive, Goto
<1>4. ASSUME NEW p \in Processes, RunScript(p) \/ ScriptFails(p)
      PROVE  \/ UNCHANGED <<pc, call>>
             \/ \E yes : /\ pc' = [pc EXCEPT ![p] = "record"]
                         /\ call' = [call EXCEPT ![p].allowed = yes]
  BY <1>4, Zenon DEF RunScript, ScriptFails, Decide, Resend, FailClosed, Goto
<1>5. ASSUME NEW p \in Processes, Record(p) \/ RefreshTTL(p) \/ CommandFails(p) \/ Crash(p)
      PROVE  \/ UNCHANGED <<pc, call>>
             \/ pc' = [pc EXCEPT ![p] = "expire"] /\ call' = call
             \/ pc' = [pc EXCEPT ![p] = "idle"] /\ call' = [call EXCEPT ![p] = NoCall]
  BY <1>5, Zenon DEF Record, RefreshTTL, CommandFails, Crash, Replied, LostReply, Return, Goto
<1>6. CASE Tick \/ Observe \/ UNCHANGED vars
  BY <1>1, <1>6 DEF Tick, Observe, vars
<1> SUFFICES ASSUME NEW p \in Processes,
                    \/ Arrive(p) \/ RunScript(p) \/ ScriptFails(p) \/ Record(p)
                    \/ RefreshTTL(p) \/ CommandFails(p) \/ Crash(p)
             PROVE  \/ pc'[q] = pc[q] /\ call'[q] = call[q]
                    \/ pc'[q] \in {"idle", "config", "record", "expire"}
  BY <1>6, Zenon DEF Next, Step
<1> QED
  BY <1>1, <1>2, <1>3, <1>4, <1>5

\* As long as nobody configures the client, every script runs under
\* DefaultConfig, a failed GetConfig included (redisstore.go:150-153).
LEMMA StepUntouched ==
  ASSUME TypeInv, [Next]_vars, changes = 0, changes' = 0, Untouched
  PROVE  /\ Untouched'
         /\ \A p \in Processes : ~Store(p) /\ ~Drop(p) /\ ~Remove(p) /\ ~removeClient(p)
         /\ \A p \in Processes, cfg \in Configs : ~setClientConfig(p, cfg)
<1>0. pc \in [Processes -> Points] /\ call \in [Processes -> CallRecords] /\ config = NoConfig
  BY DEF TypeInv, Calls, Untouched
<1>1. \A p \in Processes : ~Store(p) /\ ~Drop(p) /\ ~Remove(p)
  BY DEF Untouched, Store, Drop, Remove
<1>2. \A p \in Processes : ~removeClient(p) /\ \A cfg \in Configs : ~setClientConfig(p, cfg)
  BY DEF removeClient, setClientConfig, BeginChange
<1>3. config' = config
  BY <1>1, <1>2, Zenon DEF Next, vars, redis, Step, Arrive, ReadConfig, ReadClock, RunScript,
     ScriptFails, Record, RefreshTTL, CommandFails, Crash, Tick, Observe
<1> DEFINE Fine(q) == /\ pc'[q] \notin {"store", "drop", "remove"}
                      /\ pc'[q] \in {"clock", "script"} => call'[q].cfg = DefaultConfig
<1>4. ASSUME NEW q \in Processes, pc'[q] = pc[q], call'[q] = call[q] PROVE Fine(q)
  BY <1>4 DEF Untouched
<1>5. ASSUME NEW q \in Processes, pc'[q] \in {"idle", "config", "record", "expire"} PROVE Fine(q)
  BY <1>5
<1>6. ASSUME NEW q \in Processes, NEW p \in Processes, ReadConfig(p) PROVE Fine(q)
  <2>1. InForce = DefaultConfig
    BY <1>0 DEF InForce
  <2>2. CASE q = p
    <3>1. pc'[q] = "clock"
      BY <1>0, <1>6, <2>2 DEF ReadConfig, Goto
    <3>2. call'[q].cfg = DefaultConfig
      <4>1. CASE call' = [call EXCEPT ![p].cfg = InForce]
        BY <1>0, <2>1, <2>2, <4>1 DEF CallRecords
      <4>2. CASE call' = [call EXCEPT ![p].cfg = DefaultConfig, ![p].failed = TRUE]
        BY <1>0, <2>2, <4>2 DEF CallRecords
      <4> QED
        BY <1>6, <4>1, <4>2 DEF ReadConfig
    <3> QED
      BY <3>1, <3>2
  <2>3. CASE q # p
    <3>1. pc'[q] = pc[q] /\ call'[q] = call[q]
      BY <1>0, <1>6, <2>3 DEF ReadConfig, Goto
    <3> QED
      BY <1>4, <3>1
  <2> QED
    BY <2>2, <2>3
<1>7. ASSUME NEW q \in Processes, NEW p \in Processes, ReadClock(p) PROVE Fine(q)
  <2>1. pc[p] = "clock" /\ call[p].cfg = DefaultConfig
    BY <1>7 DEF ReadClock, Untouched
  <2>2. pc'[q] \in {pc[q], "script"} /\ call'[q].cfg = call[q].cfg /\ (q # p => pc'[q] = pc[q])
    BY <1>0, <1>7 DEF ReadClock, Goto, CallRecords
  <2> QED
    BY <2>1, <2>2 DEF Untouched
<1>8. ASSUME NEW q \in Processes PROVE Fine(q)
  BY <1>1, <1>2, <1>4, <1>5, <1>6, <1>7, <1>8, OtherCalls
<1>9. Untouched'
  BY <1>0, <1>3, <1>8 DEF Untouched
<1> QED
  BY <1>1, <1>2, <1>9
-----------------------------------------------------------------------------
\* A key is as good as full when it expires.
Refilling(b, t) ==
  b # nil => /\ t < b.expires
             /\ 0 <= Purse(b, t, DefaultConfig)
             /\ FullPurse(DefaultConfig) <= Purse(b, b.expires, DefaultConfig)

ContractInv == changes = 0 /\ Untouched /\ InTime /\ Refilling(bucket, clock)

\* What a bucket gains in a ticks.
LEMMA PurseLater ==
  ASSUME NEW b \in Buckets, b # nil, NEW t \in Nat, NEW a \in Nat
  PROVE  /\ a * DefaultConfig.RPS \in Nat
         /\ Purse(b, t + a, DefaultConfig) = Purse(b, t, DefaultConfig) + a * DefaultConfig.RPS
<1>1. PICK k, s \in Int : k = b.tokens /\ s = b.ts
  BY DEF Buckets
<1>2. PICK R \in Nat : R = DefaultConfig.RPS
  BY ConfigFacts, RedisAssumption DEF Known
<1>3. PICK d \in Int : d = t + Spread - s /\ (t + a) + Spread - s = d + a
  BY RedisAssumption
<1>4. PICK x \in Int, y \in Nat : x = d * R /\ y = a * R
  BY <1>2, <1>3, IntProduct, NatProduct
<1>5. (d + a) * R = x + y
  <2>1. (d + a) * R = d * R + a * R
    BY <1>2, <1>3, ProductOfSum
  <2> QED
    BY <1>4, <2>1, Zenon
<1>6. Purse(b, t, DefaultConfig) = k + x /\ Purse(b, t + a, DefaultConfig) = k + (x + y)
  <2>1. /\ Purse(b, t, DefaultConfig) = b.tokens + (t + Spread - b.ts) * DefaultConfig.RPS
        /\ Purse(b, t + a, DefaultConfig)
             = b.tokens + ((t + a) + Spread - b.ts) * DefaultConfig.RPS
    BY Zenon DEF Purse
  <2> QED
    BY <1>1, <1>2, <1>3, <1>4, <1>5, <2>1, Zenon
<1> QED
  BY <1>2, <1>4, <1>6

\* What a script does to the pair of buckets between which the one in Redis stays.
LEMMA ScriptBetween ==
  ASSUME TTLCovers(DefaultConfig), NEW b \in Buckets \cup {nil}, NEW t \in Nat, Refilling(b, t),
         NEW now \in Int, t <= now + MaxDelay, now <= t + Spread,
         NEW r, r = tokenBucketLua(b, DefaultConfig, now),
         NEW b2, b2 = [tokens |-> r.tokens, ts |-> r.ts, expires |-> t + TTL]
  PROVE  LET x == Purse(b, t, DefaultConfig)
             y == Purse(b2, t, DefaultConfig)
             B == DefaultConfig.Burst
             F == FullPurse(DefaultConfig)
         IN  /\ Refilling(b2, t)
             /\ x \in Int /\ y \in Int /\ B \in Nat /\ F = B + Blur /\ Blur \in Nat
             /\ r.allowed \in BOOLEAN
             /\ r.allowed =>
                  /\ MinOf(F, x) >= Unit
                  /\ MinOf(F, y) <= MinOf(F, x) - Unit
                  /\ MinOf(B, y) >= MinOf(B, x) - Unit
                  /\ MinOf(B, y) - Blur <= MinOf(F, y)
             /\ ~r.allowed => MinOf(B, x) - Blur < Unit /\ y = x
<1> PICK x, y, B, F :
      /\ x = Purse(b, t, DefaultConfig) /\ y = Purse(b2, t, DefaultConfig)
      /\ B = DefaultConfig.Burst /\ F = FullPurse(DefaultConfig)
  OBVIOUS
<1>0. DefaultConfig \in Known /\ Validate(DefaultConfig)
  BY RedisAssumption DEF Known
<1>1. /\ B \in Nat /\ Blur \in Nat /\ F = B + Blur /\ Unit <= B
      /\ TTL \in Nat /\ DefaultConfig.RPS \in Nat
  BY <1>0, ConfigFacts DEF Blur
<1>2. PICK u \in Nat \ {0}, more \in Nat, f \in Nat : u = Unit /\ more = Blur /\ f = F /\ f = B + more /\ u <= B
  BY <1>1, UnitAssumption
<1>3. x \in Int
  BY <1>0, PurseType
<1>4. PICK back \in 0 .. more, found \in Int :
        /\ found = MinOf(B, x - back)
        /\ r.allowed <=> found >= u
        /\ b2.tokens = IF r.allowed THEN found - u ELSE found
        /\ y = b2.tokens + back
        /\ b2 \in Buckets /\ b2 # nil /\ b2.expires = t + TTL
  <2>1. /\ b2 \in Buckets /\ b2 # nil /\ b2.expires = t + TTL /\ b2.ts = now
        /\ \E back \in 0 .. Slack * DefaultConfig.RPS, found \in Int :
             /\ found = MinOf(DefaultConfig.Burst, Purse(b, t, DefaultConfig) - back)
             /\ r.allowed <=> found >= Unit
             /\ b2.tokens = IF r.allowed THEN found - Unit ELSE found
             /\ Purse(b2, t, DefaultConfig) = b2.tokens + back
    BY <1>0, ScriptEffect
  <2> QED
    BY <1>2, <2>1 DEF Blur
<1>5. r.allowed \in BOOLEAN
  BY <1>0, LuaType
<1>6. 0 <= x /\ (b = nil => x = f)
  BY <1>1, <1>2 DEF Refilling, Purse
<1>7. ASSUME r.allowed
      PROVE  /\ y \in Int /\ 0 <= y
             /\ MinOf(f, x) >= u /\ MinOf(f, y) <= MinOf(f, x) - u
             /\ MinOf(B, y) >= MinOf(B, x) - u /\ MinOf(B, y) - more <= MinOf(f, y)
  <2>1. found >= u /\ y = (found - u) + back
    BY <1>4, <1>7
  <2> QED
    BY <1>1, <1>2, <1>3, <1>4, <2>1 DEF MinOf
<1>8. ASSUME ~r.allowed PROVE y = x /\ MinOf(B, x) - more < u
  <2>1. ~(found >= u) /\ y = found + back
    BY <1>4, <1>8
  <2> QED
    BY <1>1, <1>2, <1>3, <1>4, <2>1 DEF MinOf
<1>9. y \in Int /\ 0 <= y
  BY <1>3, <1>5, <1>6, <1>7, <1>8
<1>10. Refilling(b2, t)
  <2>1. PICK gain \in Int : gain = TTL * DefaultConfig.RPS /\ f <= gain
    <3>1. FullPurse(DefaultConfig) <= TTL * DefaultConfig.RPS
      BY <1>0, OutlastsRefill, Zenon
    <3>2. TTL * DefaultConfig.RPS \in Int
      BY <1>1, NatProduct
    <3> QED
      BY <1>2, <3>1, <3>2
  <2>2. Purse(b2, t + TTL, DefaultConfig) = y + gain
    <3>1. Purse(b2, t + TTL, DefaultConfig) = Purse(b2, t, DefaultConfig) + TTL * DefaultConfig.RPS
      <4>1. b2 \in Buckets /\ b2 # nil /\ TTL \in Nat
        BY <1>1, <1>4
      <4> QED
        BY <4>1, PurseLater
    <3> QED
      BY <2>1, <3>1, Zenon
  <2>3. f <= y + gain /\ t < t + TTL
    BY <1>2, <1>9, <2>1, RedisAssumption
  <2> QED
    BY <1>2, <1>4, <1>9, <2>2, <2>3 DEF Refilling
<1>11. /\ r.allowed =>
            /\ MinOf(F, x) >= Unit
            /\ MinOf(F, y) <= MinOf(F, x) - Unit
            /\ MinOf(B, y) >= MinOf(B, x) - Unit
            /\ MinOf(B, y) - Blur <= MinOf(F, y)
       /\ ~r.allowed => MinOf(B, x) - Blur < Unit /\ y = x
  BY <1>2, <1>7, <1>8, Zenon
<1> QED
  BY <1>1, <1>3, <1>5, <1>9, <1>10, <1>11, Zenon

\* What a tick does to the pair, also where the key expires.
LEMMA TickBetween ==
  ASSUME NEW b \in Buckets \cup {nil}, NEW t \in Nat, Refilling(b, t),
         NEW b2, b2 = IF Expired(b, t + 1) THEN nil ELSE b,
         NEW x, x = Purse(b, t, DefaultConfig), NEW y, y = Purse(b2, t + 1, DefaultConfig),
         NEW B, B = DefaultConfig.Burst, NEW F, F = FullPurse(DefaultConfig),
         NEW R, R = DefaultConfig.RPS
  PROVE  /\ Refilling(b2, t + 1)
         /\ MinOf(F, y) = MinOf(F, MinOf(F, x) + R)
         /\ MinOf(B, y) - Blur = MinOf(B - Blur, (MinOf(B, x) - Blur) + R)
<1>0. DefaultConfig \in Known /\ Validate(DefaultConfig)
  BY RedisAssumption DEF Known
<1>1. B \in Nat /\ Blur \in Nat /\ F = B + Blur /\ F \in Nat /\ R \in Nat
  BY <1>0, ConfigFacts DEF Blur
<1>2. PICK more \in Nat : more = Blur /\ F = B + more
  BY <1>1
<1>3. ASSUME NEW a \in Int, NEW c \in Int, c = a + R
      PROVE  /\ MinOf(F, c) = MinOf(F, MinOf(F, a) + R)
             /\ MinOf(B, c) - more = MinOf(B - more, (MinOf(B, a) - more) + R)
  BY <1>1, <1>2, <1>3 DEF MinOf
<1>4. ASSUME NEW a \in Int, a >= F
      PROVE  MinOf(F, a) = F /\ MinOf(B, a) = B
  BY <1>1, <1>2, <1>4 DEF MinOf
<1>5. CASE b = nil
  <2>1. b2 = nil /\ x = F /\ y = F /\ Refilling(b2, t + 1)
    BY <1>5 DEF Purse, Expired, Refilling
  <2>2. PICK c \in Int : c = F + R
    BY <1>1
  <2>3. MinOf(F, c) = F /\ MinOf(B, c) = B /\ MinOf(F, F) = F /\ MinOf(B, F) = B
    BY <1>1, <1>4, <2>2
  <2>4. /\ MinOf(F, c) = MinOf(F, MinOf(F, x) + R)
        /\ MinOf(B, c) - more = MinOf(B - more, (MinOf(B, x) - more) + R)
    BY <1>1, <1>3, <2>1, <2>2
  <2>5. MinOf(F, y) = MinOf(F, c) /\ MinOf(B, y) = MinOf(B, c)
    BY <2>1, <2>3
  <2> QED
    BY <1>2, <2>1, <2>4, <2>5
<1>6. CASE b # nil
  <2>1. b \in Buckets /\ b.expires \in Nat /\ t < b.expires /\ 0 <= x
        /\ F <= Purse(b, b.expires, DefaultConfig)
    BY <1>6 DEF Refilling, Buckets
  <2>2. PICK c \in Int : c = Purse(b, t + 1, DefaultConfig) /\ c = x + R /\ x \in Int
    <3>1. x \in Int
      BY <1>0, PurseType
    <3>2. Purse(b, t + 1, DefaultConfig) = x + R
      BY <1>0, <1>6, PurseType
    <3> QED
      BY <1>1, <3>1, <3>2
  <2>3. /\ MinOf(F, c) = MinOf(F, MinOf(F, x) + R)
        /\ MinOf(B, c) - more = MinOf(B - more, (MinOf(B, x) - more) + R)
    BY <1>3, <2>2
  <2>4. CASE Expired(b, t + 1)
    <3>1. b2 = nil /\ y = F /\ Refilling(b2, t + 1)
      BY <2>4 DEF Purse, Refilling
    <3>2. b.expires = t + 1
      BY <2>1, <2>4 DEF Expired
    <3>3. c >= F
      BY <1>1, <2>1, <2>2, <3>2
    <3>4. MinOf(F, c) = MinOf(F, y) /\ MinOf(B, c) = MinOf(B, y)
      <4>1. F >= F /\ F \in Int
        BY <1>1
      <4> QED
        BY <1>4, <2>2, <3>1, <3>3, <4>1
    <3> QED
      BY <1>2, <2>3, <3>1, <3>4
  <2>5. CASE ~Expired(b, t + 1)
    <3>1. b2 = b /\ y = c
      BY <2>2, <2>5
    <3>2. t + 1 < b.expires
      BY <1>6, <2>1, <2>5 DEF Expired, Never
    <3>3. 0 <= y
      BY <1>1, <2>1, <2>2, <3>1
    <3>4. Refilling(b2, t + 1)
      BY <2>1, <3>1, <3>2, <3>3 DEF Refilling
    <3> QED
      BY <1>2, <2>3, <3>1, <3>4
  <2> QED
    BY <2>4, <2>5
<1> QED
  BY <1>5, <1>6
-----------------------------------------------------------------------------
\* What each step means for the pair.
LEMMA ScriptMeans ==
  ASSUME TTLCovers(DefaultConfig), TypeInv, ContractInv, ContractNext,
         NEW p \in Processes, RunScript(p)
  PROVE  Refilling(bucket', clock') /\ (Contract!Admit \/ Contract!Refuse)
<1>0. bucket \in Buckets \cup {nil} /\ clock \in Nat /\ granted \in Nat
  BY DEF TypeInv, TypeOK
<1>1. PICK now, r, b2, g :
        /\ now = call[p].now /\ r = tokenBucketLua(bucket, DefaultConfig, now)
        /\ b2 = [tokens |-> r.tokens, ts |-> r.ts, expires |-> clock + TTL]
        /\ g = granted
  OBVIOUS
<1>2. /\ now \in Int /\ clock <= now + MaxDelay /\ now <= clock + Spread
      /\ call[p].cfg = DefaultConfig
  BY <1>1, ScriptInTime DEF ContractInv, Untouched, RunScript
<1>3. /\ bucket' = b2 /\ clock' = clock
      /\ granted' = IF r.allowed THEN g + 1 ELSE g
  BY <1>1, <1>2, Zenon DEF RunScript, Deadline
<1>4. PICK x, y, B, F, more, u :
        /\ x = Purse(bucket, clock, DefaultConfig) /\ y = Purse(b2, clock, DefaultConfig)
        /\ B = DefaultConfig.Burst /\ F = FullPurse(DefaultConfig) /\ more = Blur /\ u = Unit
  OBVIOUS
<1>5. /\ Refilling(b2, clock)
      /\ x \in Int /\ y \in Int /\ B \in Nat /\ F = B + more /\ more \in Nat
      /\ r.allowed \in BOOLEAN
      /\ r.allowed =>
           /\ MinOf(F, x) >= u
           /\ MinOf(F, y) <= MinOf(F, x) - u
           /\ MinOf(B, y) >= MinOf(B, x) - u
           /\ MinOf(B, y) - more <= MinOf(F, y)
      /\ ~r.allowed => MinOf(B, x) - more < u /\ y = x
  <2>1. Refilling(bucket, clock)
    BY DEF ContractInv
  <2>2. /\ Refilling(b2, clock)
        /\ x \in Int /\ y \in Int /\ B \in Nat /\ F = B + Blur /\ Blur \in Nat
        /\ r.allowed \in BOOLEAN
        /\ r.allowed =>
             /\ MinOf(F, x) >= Unit
             /\ MinOf(F, y) <= MinOf(F, x) - Unit
             /\ MinOf(B, y) >= MinOf(B, x) - Unit
             /\ MinOf(B, y) - Blur <= MinOf(F, y)
        /\ ~r.allowed => MinOf(B, x) - Blur < Unit /\ y = x
    BY <1>0, <1>1, <1>2, <1>4, <2>1, ScriptBetween
  <2> QED
    BY <1>4, <2>2, Zenon
<1>6. Held = x /\ Held' = y
  BY <1>3, <1>4 DEF Held
<1>7. answer' = IF granted' > granted THEN "allow" ELSE "deny"
  BY DEF ContractNext, Heard
<1>8. u \in Nat
  BY <1>4, UnitAssumption
<1>9. PICK m1, l1, m2, l2 \in Int :
        /\ m1 = MinOf(F, x) /\ l1 = MinOf(B, x) - more
        /\ m2 = MinOf(F, y) /\ l2 = MinOf(B, y) - more
  BY <1>5 DEF MinOf
<1>10. CASE r.allowed
  <2>1. granted' = g + 1 /\ g + 1 > g
    BY <1>0, <1>1, <1>3, <1>10
  <2>2. answer' = "allow"
    BY <1>1, <1>7, <2>1
  <2>3. m1 >= u /\ m2 <= m1 - u /\ l2 \in l1 - u .. m2
    BY <1>5, <1>8, <1>9, <1>10 DEF MinOf
  <2>4. Contract!Admit
    BY <1>4, <1>6, <1>9, <2>2, <2>3 DEF Contract!Admit, Blur
  <2> QED
    BY <1>3, <1>5, <2>4
<1>11. CASE ~r.allowed
  <2>1. granted' = g /\ ~(g > g)
    BY <1>0, <1>1, <1>3, <1>11
  <2>2. answer' = "deny"
    BY <1>1, <1>7, <2>1
  <2>3. l1 < u /\ y = x
    BY <1>5, <1>9, <1>11
  <2>4. Contract!Refuse
    BY <1>4, <1>6, <1>9, <2>2, <2>3 DEF Contract!Refuse, Blur
  <2> QED
    BY <1>3, <1>5, <2>4
<1> QED
  BY <1>5, <1>10, <1>11

LEMMA TickMeans ==
  ASSUME TypeInv, ContractInv, ContractNext, Tick, \A p \in Processes : ~RunScript(p)
  PROVE  Refilling(bucket', clock') /\ Contract!Accrue
<1>0. bucket \in Buckets \cup {nil} /\ clock \in Nat
  BY DEF TypeInv, TypeOK
<1>1. PICK b2, t : t = clock + 1 /\ b2 = IF Expired(bucket, t) THEN nil ELSE bucket
  OBVIOUS
<1>2. bucket' = b2 /\ clock' = t
  BY <1>1, Zenon DEF Tick
<1>3. PICK x, y, B, F, R, more :
        /\ x = Purse(bucket, clock, DefaultConfig) /\ y = Purse(b2, t, DefaultConfig)
        /\ B = DefaultConfig.Burst /\ F = FullPurse(DefaultConfig) /\ R = DefaultConfig.RPS
        /\ more = Blur
  OBVIOUS
<1>4. /\ Refilling(b2, t)
      /\ MinOf(F, y) = MinOf(F, MinOf(F, x) + R)
      /\ MinOf(B, y) - more = MinOf(B - more, (MinOf(B, x) - more) + R)
  BY <1>0, <1>1, <1>3, TickBetween DEF ContractInv
<1>5. Held = x /\ Held' = y
  BY <1>2, <1>3 DEF Held
<1>6. answer' = "none"
  <2>1. clock' # clock
    BY <1>0, <1>1, <1>2
  <2> QED
    BY <2>1 DEF ContractNext, Heard
<1>7. \A a, c : MinOf(a, c) = Contract!Lower(a, c)
  BY DEF MinOf, Contract!Lower
<1>8. F = B + more
  BY <1>3 DEF FullPurse, Blur
<1>9. Contract!Top = F /\ Contract!Bottom = B - more
  BY <1>3, <1>8 DEF Contract!Top, Contract!Bottom, Blur
<1>10. /\ MinOf(F, Held') = Contract!Lower(F, MinOf(F, Held) + R)
       /\ MinOf(B, Held') - more = Contract!Lower(B - more, (MinOf(B, Held) - more) + R)
  BY <1>4, <1>5, <1>7, Zenon
<1>11. Contract!Accrue
  BY <1>3, <1>6, <1>9, <1>10, Zenon DEF Contract!Accrue, Blur
<1> QED
  BY <1>2, <1>4, <1>11

LEMMA OthersMean ==
  ASSUME TypeInv, ContractInv, [Next]_vars, changes' = 0, ~Tick,
         \A p \in Processes : ~RunScript(p)
  PROVE  UNCHANGED <<bucket, clock>>
<1>1. changes = 0 /\ changes' = 0 /\ Untouched
  BY DEF ContractInv
<1>2. /\ \A p \in Processes : ~Store(p) /\ ~Drop(p) /\ ~Remove(p) /\ ~removeClient(p)
      /\ \A p \in Processes, cfg \in Configs : ~setClientConfig(p, cfg)
  BY <1>1, StepUntouched
<1> QED
  BY <1>2, Zenon DEF Next, vars, redis, Step, Arrive, ReadConfig, ReadClock,
     ScriptFails, Record, RefreshTTL, CommandFails, Crash, Observe

\* Every step of the Store is one of the contract, or none of its business.
LEMMA StepContract ==
  ASSUME TTLCovers(DefaultConfig), TypeInv, ContractInv, [ContractNext]_contractVars, changes' = 0
  PROVE  ContractInv' /\ [Contract!Next]_(Contract!vars)
<1>1. [Next]_vars
  BY DEF ContractNext, contractVars
<1>2. Untouched' /\ InTime'
  BY <1>1, StepUntouched, StepInTime DEF ContractInv
<1>3. ASSUME UNCHANGED <<bucket, clock, answer>>
      PROVE  Refilling(bucket', clock') /\ UNCHANGED Contract!vars
  BY <1>3 DEF ContractInv, Contract!vars, Held
<1>4. Refilling(bucket', clock') /\ [Contract!Next]_(Contract!vars)
  <2>1. CASE ContractNext /\ \E p \in Processes : RunScript(p)
    BY <2>1, ScriptMeans DEF Contract!Next
  <2>2. CASE ContractNext /\ Tick /\ \A p \in Processes : ~RunScript(p)
    BY <2>2, TickMeans DEF Contract!Next
  <2>3. CASE ContractNext /\ ~Tick /\ \A p \in Processes : ~RunScript(p)
    <3>1. UNCHANGED <<bucket, clock>>
      BY <1>1, <2>3, OthersMean
    <3>2. answer' = answer
      BY <2>3, <3>1 DEF ContractNext, Heard
    <3> QED
      BY <1>3, <3>1, <3>2
  <2>4. CASE UNCHANGED contractVars
    BY <1>3, <2>4 DEF contractVars, vars
  <2> QED
    BY <2>1, <2>2, <2>3, <2>4
<1>5. Refilling(bucket, clock)'
  BY <1>4 DEF Refilling, Purse, FullPurse
<1> QED
  BY <1>2, <1>4, <1>5 DEF ContractInv

LEMMA InitContract == ContractInit => TypeInv /\ ContractInv /\ Contract!Init
<1> SUFFICES ASSUME ContractInit PROVE TypeInv /\ ContractInv /\ Contract!Init
  OBVIOUS
<1>1. TypeInv
  BY InitType DEF ContractInit
<1>2. ContractInv
  BY DEF ContractInit, Init, Untouched, InTime, ContractInv, Refilling
<1>3. PICK B, F, more \in Nat :
        B = DefaultConfig.Burst /\ F = FullPurse(DefaultConfig) /\ more = Blur /\ F = B + more
  BY ConfigFacts, RedisAssumption DEF Known, Blur
<1>4. MinOf(F, F) = F /\ MinOf(B, F) = B
  BY <1>3 DEF MinOf
<1>5. Held = F
  BY <1>3 DEF ContractInit, Init, Held, Purse
<1>6. Contract!Top = F /\ Contract!Bottom = B - more
  BY <1>3 DEF Contract!Top, Contract!Bottom, Blur
<1>7. Contract!Init
  BY <1>3, <1>4, <1>5, <1>6 DEF ContractInit, Contract!Init
<1> QED
  BY <1>1, <1>2, <1>7

\* Instances that share one Redis are one token bucket up to the time by which
\* clocks and delays disagree (redisstore.go:14-30, 91-98): for any number of
\* them, any skew and delay, any default Config and any TTL that covers the
\* refill, with lost replies, resent scripts, failed commands and crashes, their
\* scripts admit for a client nobody configures only what the larger bucket of
\* SharedContract would, and refuse only what the smaller would.
THEOREM BetweenTwoBuckets ==
  TTLCovers(DefaultConfig) => (ContractSpec /\ NeverConfigured => ImplementsContract)
<1> SUFFICES ASSUME TTLCovers(DefaultConfig)
             PROVE  ContractSpec /\ NeverConfigured => Contract!Spec
  BY DEF ImplementsContract
<1>1. [ContractNext]_contractVars => [Next]_vars
  BY DEF ContractNext, contractVars
<1>2. TypeInv /\ ContractInv /\ [ContractNext]_contractVars /\ (changes = 0)'
        => (TypeInv /\ ContractInv)' /\ [Contract!Next]_(Contract!vars)
  BY <1>1, StepType, StepContract
<1> QED
  BY InitContract, <1>2, PTL DEF ContractSpec, Contract!Spec, NeverConfigured
-----------------------------------------------------------------------------
\* PromiseKept is not inductive: an answer is true because what the change stored
\* is still there when its last command is answered, which it is as long as it is
\* alone; and it stays true as long as no change is under way.
PInv ==
  /\ told.alone =>
       /\ \A p, q \in Changing : p = q
       /\ \A p \in Processes : pc[p] = "drop" => config = call[p].cfg
  /\ told.cfg # nil => told.alone /\ Changing = {}
  /\ (told.cfg # nil /\ (told.cfg = NoConfig => faults = 0)) => config = told.cfg

\* A step that neither begins a change nor sends one of its commands.
LEMMA PromiseStands ==
  ASSUME TypeInv, PInv, UNCHANGED <<told, config>>, faults' = faults \/ faults' = faults + 1,
         \A q \in Processes :
           /\ q \in Changing' => q \in Changing
           /\ pc'[q] = "drop" => pc[q] = "drop" /\ call'[q].cfg = call[q].cfg
  PROVE  PInv'
<1>1. faults' = 0 => faults = 0
  BY DEF TypeInv, TypeOK
<1>2. Changing' \subseteq Changing
  BY DEF Changing
<1> QED
  BY <1>1, <1>2 DEF PInv

\* The same for a step of p that is no command of a change, or ends one.
LEMMA PromiseStandsAt ==
  ASSUME TypeInv, PInv, UNCHANGED <<told, config>>, faults' = faults \/ faults' = faults + 1,
         NEW p \in Processes, NEW at \in Points \ {"store", "drop", "remove"},
         pc' = [pc EXCEPT ![p] = at], \E c : call' = [call EXCEPT ![p] = c]
  PROVE  PInv'
<1>0. pc \in [Processes -> Points] /\ call \in [Processes -> CallRecords]
  BY DEF TypeInv, Calls
<1>1. ASSUME NEW q \in Processes
      PROVE  /\ q \in Changing' => q \in Changing
             /\ pc'[q] = "drop" => pc[q] = "drop" /\ call'[q].cfg = call[q].cfg
  BY <1>0 DEF Changing
<1> QED
  BY <1>1, PromiseStands

\* p begins a change, or sends one of its commands.
Changes(p) ==
  \/ removeClient(p) \/ Store(p) \/ Drop(p) \/ Remove(p)
  \/ CommandFails(p) /\ pc[p] = "remove"
  \/ \E cfg \in Configs : setClientConfig(p, cfg)

LEMMA OthersStand ==
  ASSUME TypeInv, PInv, [Next]_vars, \A p \in Processes : ~Changes(p)
  PROVE  PInv'
<1>0. pc \in [Processes -> Points] /\ call \in [Processes -> CallRecords]
  BY DEF TypeInv, Calls
<1>1. ASSUME UNCHANGED <<config, told, pc, call, faults>> PROVE PInv'
  BY <1>1, PromiseStands DEF Changing
<1>2. CASE Tick \/ Observe \/ UNCHANGED vars
  BY <1>1, <1>2 DEF Tick, Observe, vars, redis, observers
<1> SUFFICES ASSUME NEW p \in Processes,
                    \/ Arrive(p) \/ ReadConfig(p) \/ ReadClock(p) \/ RunScript(p)
                    \/ ScriptFails(p) \/ Record(p) \/ RefreshTTL(p)
                    \/ (CommandFails(p) /\ pc[p] # "remove") \/ Crash(p)
             PROVE  PInv'
  BY <1>2, Zenon DEF Next, Step, Changes
<1> DEFINE Quiet == Points \ {"store", "drop", "remove"}
<1>3. {"idle", "config", "clock", "script", "record", "expire"} \subseteq Quiet
  BY DEF Points
<1>4. UNCHANGED <<config, told>> /\ (faults' = faults \/ faults' = faults + 1)
  BY Zenon DEF Arrive, ReadConfig, ReadClock, RunScript, ScriptFails, Record, RefreshTTL,
     CommandFails, NoPromise, Crash, redis, observers, NoFault, Fault, Replied, LostReply
<1>5. \/ UNCHANGED <<pc, call>>
      \/ \E at \in Quiet :
           /\ pc' = [pc EXCEPT ![p] = at]
           /\ \E c : call' = [call EXCEPT ![p] = c]
  <2>1. ASSUME call' = call PROVE \E c : call' = [call EXCEPT ![p] = c]
    <3>1. call' = [call EXCEPT ![p] = call[p]]
      BY <1>0, <2>1
    <3> QED
      BY <3>1, Zenon
  <2>2. CASE Arrive(p)
    BY <1>3, <2>1, <2>2 DEF Arrive, Goto
  <2>3. CASE ReadConfig(p)
    <3>1. \E c : call' = [call EXCEPT ![p] = c]
      BY <2>3, Zenon DEF ReadConfig
    <3> QED
      BY <1>3, <2>3, <3>1 DEF ReadConfig, Goto
  <2>4. CASE ReadClock(p)
    <3>1. \E c : call' = [call EXCEPT ![p] = c]
      BY <2>4, Zenon DEF ReadClock
    <3> QED
      BY <1>3, <2>4, <3>1 DEF ReadClock, Goto
  <2>5. ASSUME NEW yes, Decide(p, yes)
        PROVE  /\ pc' = [pc EXCEPT ![p] = "record"]
               /\ \E c : call' = [call EXCEPT ![p] = c]
    BY <2>5, Zenon DEF Decide, Goto
  <2>6. CASE RunScript(p) \/ ScriptFails(p)
    <3>1. (\E yes : Decide(p, yes)) \/ UNCHANGED <<pc, call>>
      BY <2>6, Zenon DEF RunScript, ScriptFails, FailClosed, Resend
    <3> QED
      BY <1>3, <2>5, <3>1
  <2>7. ASSUME Return(p)
        PROVE  /\ pc' = [pc EXCEPT ![p] = "idle"]
               /\ \E c : call' = [call EXCEPT ![p] = c]
    BY <2>7, Zenon DEF Return, Goto
  <2>8. CASE Record(p)
    <3>1. \/ Return(p) \/ UNCHANGED <<pc, call>>
          \/ call' = call /\ pc' = [pc EXCEPT ![p] = "expire"]
      BY <2>8, Zenon DEF Record, Replied, LostReply, Goto
    <3> QED
      BY <1>3, <2>1, <2>7, <3>1
  <2>9. CASE RefreshTTL(p) \/ CommandFails(p) \/ Crash(p)
    BY <1>3, <2>7, <2>9 DEF RefreshTTL, CommandFails, Crash
  <2> QED
    BY <2>2, <2>3, <2>4, <2>6, <2>8, <2>9
<1> HIDE DEF Quiet
<1>6. ASSUME NEW at \in Quiet, pc' = [pc EXCEPT ![p] = at],
             \E c : call' = [call EXCEPT ![p] = c]
      PROVE  PInv'
  BY <1>4, <1>6, PromiseStandsAt DEF Quiet
<1>7. ASSUME UNCHANGED <<pc, call>> PROVE PInv'
  <2>1. \A q \in Processes :
          /\ q \in Changing' => q \in Changing
          /\ pc'[q] = "drop" => pc[q] = "drop" /\ call'[q].cfg = call[q].cfg
    BY <1>7 DEF Changing
  <2> QED
    BY <1>4, <2>1, PromiseStands
<1> QED
  BY <1>5, <1>6, <1>7

\* The commands of a change.
LEMMA ChangesPromise ==
  ASSUME TypeInv, PInv, NEW p \in Processes, Changes(p)
  PROVE  PInv'
<1>0. /\ pc \in [Processes -> Points] /\ call \in [Processes -> CallRecords]
      /\ \A q \in Processes : Fits(pc[q], call[q])
      /\ told \in [alone : BOOLEAN, cfg : Configs \cup {NoConfig, nil}]
      /\ faults \in Nat
  BY DEF TypeInv, TypeOK, Calls

\* One that only p is under way with, and that goes on.
<1>1. ASSUME told' = told, p \in Changing,
             \A q \in Processes \ {p} : pc'[q] = pc[q],
             (\A q \in Changing : q = p) /\ pc'[p] = "drop" => config' = call'[p].cfg
      PROVE  PInv'
  <2>1. told.cfg = nil
    BY <1>1 DEF PInv
  <2>2. Changing' \subseteq Changing
    BY <1>1 DEF Changing
  <2>3. ASSUME told.alone PROVE \A q \in Processes : pc'[q] = "drop" => config' = call'[q].cfg
    <3>1. \A q \in Changing : q = p
      BY <1>1, <2>3 DEF PInv
    <3> QED
      BY <1>1, <2>2, <3>1 DEF Changing
  <2> QED
    BY <1>1, <2>1, <2>2, <2>3 DEF PInv

\* One that p ends with an answer.
<1>2. ASSUME NEW cfg, Promise(cfg), p \in Changing, pc' = [pc EXCEPT ![p] = "idle"],
             told.alone => config' = cfg \/ (cfg = NoConfig /\ faults' # 0)
      PROVE  PInv'
  <2>1. told'.alone = told.alone /\ told'.cfg = IF told.alone THEN cfg ELSE nil
    BY <1>0, <1>2 DEF Promise
  <2>2. ASSUME told.alone PROVE Changing' = {}
    BY <1>0, <1>2, <2>2 DEF PInv, Changing
  <2> QED
    BY <1>2, <2>1, <2>2 DEF PInv, Changing
<1>3. ASSUME BeginChange, NEW at \in {"store", "remove"}, pc' = [pc EXCEPT ![p] = at]
      PROVE  PInv'
  <2>1. told'.cfg = nil /\ (told'.alone <=> Changing = {})
    BY <1>3 DEF BeginChange
  <2>2. ASSUME Changing = {}
        PROVE  /\ \A q \in Changing' : q = p
               /\ \A q \in Processes : pc'[q] # "drop"
    BY <1>0, <1>3, <2>2 DEF Changing
  <2> QED
    BY <2>1, <2>2 DEF PInv
<1>4. CASE removeClient(p)
  BY <1>3, <1>4 DEF removeClient, Goto
<1>5. ASSUME NEW cfg \in Configs, setClientConfig(p, cfg) PROVE PInv'
  BY <1>3, <1>5 DEF setClientConfig, Goto
<1>6. CASE Store(p)
  <2>1. told' = told /\ p \in Changing /\ config' = call[p].cfg
    BY <1>6 DEF Store, NoPromise, Changing
  <2>2. \/ pc' = [pc EXCEPT ![p] = "drop"] /\ call' = call
        \/ pc' = [pc EXCEPT ![p] = "idle"]
        \/ pc' = pc /\ pc[p] = "store"
    BY <1>6, Zenon DEF Store, Replied, LostReply, Return, Goto
  <2>3. \A q \in Processes \ {p} : pc'[q] = pc[q]
    BY <1>0, <2>2
  <2>4. pc'[p] = "drop" => config' = call'[p].cfg
    BY <1>0, <2>1, <2>2
  <2> QED
    BY <1>1, <2>1, <2>3, <2>4
<1>7. CASE Drop(p)
  <2>1. p \in Changing /\ pc[p] = "drop" /\ config' = config
    BY <1>7 DEF Drop, Changing
  <2>2. told.alone => config = call[p].cfg
    BY <2>1 DEF PInv
  <2>3. CASE Returned(p) /\ Promise(call[p].cfg)
    BY <1>2, <2>1, <2>2, <2>3 DEF Returned, Return, Goto
  <2>4. CASE LostReply(p) /\ NoPromise
    <3>1. told' = told
      BY <2>4 DEF NoPromise
    <3>2. pc' = [pc EXCEPT ![p] = "idle"] \/ (pc' = pc /\ call' = call)
      BY <2>4, Zenon DEF LostReply, Return, Goto
    <3>3. \A q \in Processes \ {p} : pc'[q] = pc[q]
      BY <1>0, <3>2
    <3>4. CASE told.alone
      <4>1. pc'[p] = "drop" => config' = call'[p].cfg
        BY <1>0, <2>1, <2>2, <3>2, <3>4
      <4> QED
        BY <1>1, <2>1, <3>1, <3>3, <4>1
    <3>5. CASE ~told.alone
      BY <3>1, <3>5 DEF PInv
    <3> QED
      BY <3>4, <3>5
  <2> QED
    BY <1>7, <2>3, <2>4 DEF Drop
<1>8. CASE Remove(p)
  <2>1. p \in Changing /\ pc[p] = "remove" /\ config' = NoConfig
    BY <1>8 DEF Remove, Changing
  <2>2. pc' = [pc EXCEPT ![p] = "idle"] \/ pc' = pc
    BY <1>8, Zenon DEF Remove, Returned, LostReply, Return, Goto
  <2>3. CASE pc' = [pc EXCEPT ![p] = "idle"]
    <3>1. Promise(NoConfig)
      BY <1>0, <1>8, <2>3 DEF Remove
    <3> QED
      BY <1>2, <2>1, <2>3, <3>1
  <2>4. CASE pc' = pc
    <3>1. told' = told
      BY <1>8, <2>1, <2>4 DEF Remove, NoPromise
    <3> QED
      BY <1>1, <2>1, <2>4, <3>1
  <2> QED
    BY <2>2, <2>3, <2>4
<1>9. CASE CommandFails(p) /\ pc[p] = "remove"
  <2>1. p \in Changing /\ Promise(NoConfig) /\ pc' = [pc EXCEPT ![p] = "idle"]
    BY <1>9 DEF CommandFails, Changing, Return, Goto
  <2>2. faults' # 0
    BY <1>0, <1>9 DEF CommandFails, Fault
  <2> QED
    BY <1>2, <2>1, <2>2
<1> QED
  BY <1>4, <1>5, <1>6, <1>7, <1>8, <1>9 DEF Changes

\* A change that was answered 200 is in force until another begins, for any
\* number of administrators and processes, and whatever was lost or sent again
\* (admin.go:33-35, redisstore.go:305-340).
THEOREM PromisesKept == Spec => []PromiseKept
<1>1. Init => PInv
  BY DEF Init, PInv
<1>2. TypeInv /\ PInv /\ [Next]_vars => PInv'
  BY OthersStand, ChangesPromise
<1>3. PInv => PromiseKept
  BY RedisAssumption DEF PInv, PromiseKept, getClientConfig
<1> QED
  BY <1>1, <1>2, <1>3, InitType, StepType, PTL DEF Spec-----------------------------------------------------------------------------

\* Decisions on their way to the statistics.
Yes == {p \in Processes : pc[p] = "record" /\ call[p].allowed = TRUE}
No  == {p \in Processes : pc[p] = "record" /\ call[p].allowed = FALSE}
Yeses == Cardinality(Yes)
Noes  == Cardinality(No)

\* What StatsOffByFaults says of the counters s, the decisions d, the a and b of
\* them that are pending, f faults and the time t.
OffBy(s, d, a, b, f, t) ==
  /\ s.Allowed + a <= d.Allowed + f
  /\ s.Denied + b <= d.Denied + f
  /\ t < TTL => d.Allowed + d.Denied <= s.Allowed + s.Denied + a + b + f

\* Inductive only with this: no statistics expire before the first TTL is over.
LastsTTL == stats # nil => stats.expires = Never \/ stats.expires >= TTL

LEMMA StatsOffByValues ==
  /\ StatsOffByFaults <=> OffBy(Reported, decided, Yeses, Noes, faults, clock)
  /\ StatsOffByFaults' <=> OffBy(Reported', decided', Yeses', Noes', faults', clock')
BY DEF StatsOffByFaults, OffBy, Yeses, Noes, Yes, No

LEMMA PendingType ==
  /\ IsFiniteSet(Yes) /\ Yeses \in Nat /\ IsFiniteSet(No) /\ Noes \in Nat
  /\ Yeses' \in Nat /\ Noes' \in Nat
<1>1. Yes \subseteq Processes /\ No \subseteq Processes
  BY DEF Yes, No
<1>2. Yes' \subseteq Processes /\ No' \subseteq Processes
  BY DEF Yes, No
<1>3. IsFiniteSet(Yes) /\ IsFiniteSet(No) /\ IsFiniteSet(Yes') /\ IsFiniteSet(No')
  BY <1>1, <1>2, RedisAssumption, FS_Subset
<1> QED
  BY <1>3, FS_CardinalityType DEF Yeses, Noes

\* A decision of p is no longer pending.
LEMMA PendingEnds ==
  ASSUME NEW p \in Processes, Calls, pc'[p] # "record",
         \A q \in Processes \ {p} : pc'[q] = pc[q] /\ call'[q] = call[q]
  PROVE  /\ pc[p] # "record" => Yeses' = Yeses /\ Noes' = Noes
         /\ pc[p] = "record" /\ call[p].allowed => Yeses' = Yeses - 1 /\ Noes' = Noes
         /\ pc[p] = "record" /\ ~call[p].allowed => Yeses' = Yeses /\ Noes' = Noes - 1
<1>0. call[p].allowed \in BOOLEAN
  BY DEF Calls, CallRecords
<1>1. Yes' = Yes \ {p} /\ No' = No \ {p}
  BY DEF Yes, No
<1>2. /\ p \in Yes <=> pc[p] = "record" /\ call[p].allowed
      /\ p \in No <=> pc[p] = "record" /\ ~call[p].allowed
  BY <1>0 DEF Yes, No
<1>3. /\ Cardinality(Yes \ {p}) = IF p \in Yes THEN Cardinality(Yes) - 1 ELSE Cardinality(Yes)
      /\ Cardinality(No \ {p}) = IF p \in No THEN Cardinality(No) - 1 ELSE Cardinality(No)
  BY PendingType, FS_RemoveElement
<1> QED
  BY <1>1, <1>2, <1>3 DEF Yeses, Noes

\* A decision of p becomes pending.
LEMMA PendingBegins ==
  ASSUME NEW p \in Processes, pc[p] # "record", pc'[p] = "record", call'[p].allowed \in BOOLEAN,
         \A q \in Processes \ {p} : pc'[q] = pc[q] /\ call'[q] = call[q]
  PROVE  /\ call'[p].allowed => Yeses' = Yeses + 1 /\ Noes' = Noes
         /\ ~call'[p].allowed => Yeses' = Yeses /\ Noes' = Noes + 1
<1>1. p \notin Yes /\ p \notin No
  BY DEF Yes, No
<1>2. /\ call'[p].allowed => Yes' = Yes \cup {p} /\ No' = No
      /\ ~call'[p].allowed => Yes' = Yes /\ No' = No \cup {p}
  BY DEF Yes, No
<1>3. /\ Cardinality(Yes \cup {p}) = Cardinality(Yes) + 1
      /\ Cardinality(No \cup {p}) = Cardinality(No) + 1
  BY <1>1, PendingType, FS_AddElement
<1> QED
  BY <1>2, <1>3 DEF Yeses, Noes

Counters == [Allowed : Nat, Denied : Nat]

\* Nothing, or a fault that may make a pending decision be given up.
LEMMA OffByGivenUp ==
  ASSUME NEW s \in Counters, NEW d \in Counters, NEW a \in Nat, NEW b \in Nat, NEW f \in Nat,
         NEW t \in Nat, NEW a1 \in Nat, NEW b1 \in Nat, NEW f1 \in Nat,
         OffBy(s, d, a, b, f, t),
         \/ a1 = a /\ b1 = b /\ (f1 = f \/ f1 = f + 1)
         \/ a1 = a - 1 /\ b1 = b /\ f1 = f + 1
         \/ a1 = a /\ b1 = b - 1 /\ f1 = f + 1
  PROVE  OffBy(s, d, a1, b1, f1, t)
<1>1. TTL \in Nat
  BY RedisAssumption
<1> QED
  BY <1>1 DEF OffBy, Counters

\* A tick passes.
LEMMA OffByLater ==
  ASSUME NEW s \in Counters, NEW d \in Counters, NEW a \in Nat, NEW b \in Nat, NEW f \in Nat,
         NEW t \in Nat, OffBy(s, d, a, b, f, t)
  PROVE  OffBy(s, d, a, b, f, t + 1)
<1>1. TTL \in Nat
  BY RedisAssumption
<1> QED
  BY <1>1 DEF OffBy

\* One more decision is pending.
LEMMA OffByDecided ==
  ASSUME NEW s \in Counters, NEW d \in Counters, NEW a \in Nat, NEW b \in Nat, NEW f \in Nat,
         NEW t \in Nat, NEW f1 \in Nat, f1 = f \/ f1 = f + 1, OffBy(s, d, a, b, f, t)
  PROVE  /\ OffBy(s, Counted(d, TRUE), a + 1, b, f1, t)
         /\ OffBy(s, Counted(d, FALSE), a, b + 1, f1, t)
<1>1. TTL \in Nat
  BY RedisAssumption
<1> QED
  BY <1>1 DEF OffBy, Counters, Counted

\* A pending decision is counted; it may stay pending for a fault.
LEMMA OffByRecorded ==
  ASSUME NEW s \in Counters, NEW d \in Counters, NEW a \in Nat, NEW b \in Nat, NEW f \in Nat,
         NEW t \in Nat, NEW f1 \in Nat, f1 = f \/ f1 = f + 1, OffBy(s, d, a, b, f, t)
  PROVE  /\ OffBy(Counted(s, TRUE), d, a - 1, b, f1, t)
         /\ OffBy(Counted(s, FALSE), d, a, b - 1, f1, t)
         /\ f1 = f + 1 => /\ OffBy(Counted(s, TRUE), d, a, b, f1, t)
                          /\ OffBy(Counted(s, FALSE), d, a, b, f1, t)
<1>1. TTL \in Nat
  BY RedisAssumption
<1> QED
  BY <1>1 DEF OffBy, Counters, Counted

\* HINCRBY and EXPIRE.
LEMMA StepLasts ==
  ASSUME TypeInv, LastsTTL, [Next]_vars
  PROVE  LastsTTL'
<1>0. /\ stats \in StatsRecords \cup {nil} /\ clock \in Nat /\ TTL \in Nat /\ clock + TTL >= TTL
  BY RedisAssumption DEF TypeInv, TypeOK, StatsRecords
<1>1. ASSUME stats' \in {stats, nil} PROVE LastsTTL'
  BY <1>1 DEF LastsTTL
<1>2. ASSUME NEW p \in Processes, Record(p) PROVE LastsTTL'
  <2>1. CASE stats = nil
    BY <1>2, <2>1 DEF Record, LastsTTL
  <2>2. CASE stats # nil
    BY <1>0, <1>2, <2>2 DEF Record, LastsTTL, StatsRecords
  <2> QED
    BY <2>1, <2>2
<1>3. ASSUME NEW p \in Processes, RefreshTTL(p) PROVE LastsTTL'
  <2>1. CASE stats = nil \/ stats' = stats
    BY <1>1, <1>3, <2>1 DEF RefreshTTL, Expire
  <2>2. CASE stats # nil /\ stats' = Expire(stats)
    BY <1>0, <2>2 DEF Expire, Deadline, LastsTTL, StatsRecords
  <2> QED
    BY <1>3, <2>1, <2>2 DEF RefreshTTL
<1>4. ASSUME ~\E p \in Processes : Record(p) \/ RefreshTTL(p) PROVE stats' \in {stats, nil}
  <2>1. stats' = stats \/ stats' = nil
    BY <1>4, Zenon DEF Next, vars, redis, Step, Arrive, ReadConfig, ReadClock, RunScript,
       ScriptFails, Store, Drop, Remove, CommandFails, removeClient, Crash, setClientConfig, Tick,
       Observe
  <2> QED
    BY <2>1
<1> QED
  BY <1>1, <1>2, <1>3, <1>4

\* Statistics are off by at most one per fault after the step, too.
LEMMA StepOffBy ==
  ASSUME TypeInv, LastsTTL, StatsOffByFaults, [Next]_vars
  PROVE  StatsOffByFaults'
<1>0. /\ pc \in [Processes -> Points] /\ call \in [Processes -> CallRecords] /\ Calls
      /\ Reported \in Counters /\ decided \in Counters /\ faults \in Nat /\ clock \in Nat
      /\ Yeses \in Nat /\ Noes \in Nat /\ Yeses' \in Nat /\ Noes' \in Nat /\ TTL \in Nat
      /\ stats \in StatsRecords \cup {nil} /\ nil \notin StatsRecords
  <2>1. stats \in StatsRecords \cup {nil} /\ TTL \in Nat
    BY RedisAssumption DEF TypeInv, TypeOK, StatsRecords
  <2>2. Reported \in Counters
    BY <2>1 DEF Reported, NoStats, StatsRecords, Counters
  <2>3. ASSUME nil \in StatsRecords PROVE FALSE
    BY <2>3, RedisAssumption DEF StatsRecords, Never
  <2> QED
    BY <2>1, <2>2, <2>3, PendingType DEF TypeInv, TypeOK, Calls, Counters
<1> PICK s \in Counters : s = Reported
  BY <1>0
<1> PICK d \in Counters : d = decided
  BY <1>0
<1> PICK a \in Nat : a = Yeses
  BY <1>0
<1> PICK b \in Nat : b = Noes
  BY <1>0
<1> PICK f \in Nat : f = faults
  BY <1>0
<1> PICK t \in Nat : t = clock
  BY <1>0
<1>2. OffBy(s, d, a, b, f, t)
  BY StatsOffByValues
<1>3. ASSUME OffBy(Reported', decided', Yeses', Noes', faults', clock') PROVE StatsOffByFaults'
  BY <1>3, StatsOffByValues

\* Time passes, and takes the statistics with it after the first TTL.
<1>4. CASE Tick
  <2>1. decided' = d /\ faults' = f /\ clock' = t + 1 /\ Yeses' = a /\ Noes' = b
    BY <1>4 DEF Tick, observers, Yeses, Noes, Yes, No
  <2>2. CASE stats' = stats
    <3>1. Reported' = s
      BY <2>2 DEF Reported
    <3>2. OffBy(s, d, a, b, f, t + 1)
      BY <1>2, OffByLater
    <3> QED
      BY <1>3, <2>1, <3>1, <3>2
  <2>3. CASE stats' # stats
    <3>1. stats' = nil /\ Expired(stats, t + 1)
      BY <1>4, <2>1, <2>3 DEF Tick
    <3>2. ~(t + 1 < TTL)
      BY <1>0, <3>1 DEF Expired, LastsTTL, StatsRecords, Never
    <3>3. Reported' = NoStats
      BY <3>1 DEF Reported
    <3>4. OffBy(NoStats, d, a, b, f, t + 1)
      BY <1>2, <3>2 DEF OffBy, NoStats, Counters
    <3> QED
      BY <1>3, <2>1, <3>3, <3>4
  <2> QED
    BY <2>2, <2>3
<1>5. CASE Observe \/ UNCHANGED vars
  <2>1. /\ decided' = d /\ faults' = f /\ clock' = t /\ Reported' = s
        /\ Yeses' = a /\ Noes' = b
    BY <1>5 DEF Observe, vars, redis, Yeses, Noes, Yes, No, Reported
  <2> QED
    BY <1>2, <1>3, <2>1
<1> SUFFICES ASSUME NEW p \in Processes,
                    \/ Arrive(p) \/ Step(p) \/ removeClient(p) \/ Crash(p)
                    \/ \E cfg \in Configs : setClientConfig(p, cfg)
             PROVE  StatsOffByFaults'
  BY <1>4, <1>5 DEF Next
<1> DEFINE Alone == \A q \in Processes \ {p} : pc'[q] = pc[q] /\ call'[q] = call[q]

\* A step of p that counts no decision, and gives one up only for a fault.
<1>6. ASSUME decided' = decided, Reported' = Reported, clock' = clock,
             \/ /\ Alone /\ faults' \in {faults, faults + 1}
                /\ pc[p] # "record" /\ pc'[p] # "record"
             \/ Alone /\ faults' = faults + 1 /\ pc'[p] # "record"
             \/ faults' \in {faults, faults + 1} /\ pc' = pc /\ call' = call
      PROVE  StatsOffByFaults'
  <2> PICK a1 \in Nat : a1 = Yeses'
    BY <1>0
  <2> PICK b1 \in Nat : b1 = Noes'
    BY <1>0
  <2> PICK f1 \in Nat : f1 = faults' /\ (f1 = f \/ f1 = f + 1)
    BY <1>6
  <2>1. \/ a1 = a /\ b1 = b
        \/ a1 = a - 1 /\ b1 = b /\ f1 = f + 1
        \/ a1 = a /\ b1 = b - 1 /\ f1 = f + 1
    <3>1. CASE pc' = pc /\ call' = call
      BY <3>1 DEF Yeses, Noes, Yes, No
    <3>2. CASE Alone /\ pc'[p] # "record" /\ pc[p] # "record"
      BY <1>0, <3>2, PendingEnds
    <3>3. CASE Alone /\ pc'[p] # "record" /\ pc[p] = "record" /\ f1 = f + 1
      BY <1>0, <3>3, PendingEnds
    <3> QED
      BY <1>6, <3>1, <3>2, <3>3
  <2>2. OffBy(s, d, a1, b1, f1, t)
    BY <1>2, <2>1, OffByGivenUp
  <2> QED
    BY <1>3, <1>6, <2>2

\* A decision is taken.
<1>7. ASSUME NEW yes \in BOOLEAN, Decide(p, yes), pc[p] = "script", Reported' = Reported,
             clock' = clock, faults' \in {faults, faults + 1}
      PROVE  StatsOffByFaults'
  <2>1. decided' = Counted(d, yes) /\ Alone /\ pc'[p] = "record"
    BY <1>0, <1>7 DEF Decide, Goto
  <2>2. call'[p].allowed = yes
    BY <1>0, <1>7 DEF Decide, CallRecords
  <2> PICK f1 \in Nat : f1 = faults' /\ (f1 = f \/ f1 = f + 1)
    BY <1>7
  <2>3. CASE yes
    <3>1. Yeses' = a + 1 /\ Noes' = b /\ yes = TRUE
      BY <1>7, <2>1, <2>2, <2>3, PendingBegins
    <3>2. OffBy(s, Counted(d, TRUE), a + 1, b, f1, t)
      BY <1>2, OffByDecided
    <3> QED
      BY <1>3, <1>7, <2>1, <3>1, <3>2
  <2>4. CASE ~yes
    <3>1. Yeses' = a /\ Noes' = b + 1 /\ yes = FALSE
      BY <1>7, <2>1, <2>2, <2>4, PendingBegins
    <3>2. OffBy(s, Counted(d, FALSE), a, b + 1, f1, t)
      BY <1>2, OffByDecided
    <3> QED
      BY <1>3, <1>7, <2>1, <3>1, <3>2
  <2> QED
    BY <2>3, <2>4

\* A decision is recorded.
<1>8. CASE Record(p)
  <2>1. pc[p] = "record" /\ call[p].allowed \in BOOLEAN
    BY <1>0, <1>8 DEF Record, CallRecords
  <2> PICK yes \in BOOLEAN : yes = call[p].allowed
    BY <2>1
  <2>2. Reported' = Counted(s, yes) /\ decided' = d /\ clock' = t
    <3> DEFINE old == IF stats = nil THEN [counts |-> NoStats, expires |-> Never] ELSE stats
    <3>1. decided' = d /\ clock' = t /\ stats' = [old EXCEPT !.counts = Counted(old.counts, yes)]
      BY <1>8 DEF Record, observers, HIncrBy
    <3>2. old \in StatsRecords /\ old.counts = s
      BY <1>0 DEF StatsRecords, Reported, NoStats
    <3> HIDE DEF old
    <3> PICK new \in [Allowed : Nat, Denied : Nat] : new = Counted(s, yes)
      BY CountedType DEF Counters
    <3>3. stats' = [old EXCEPT !.counts = new]
      BY <3>1, <3>2
    <3>4. stats' \in StatsRecords /\ stats'.counts = new
      BY <3>2, <3>3 DEF StatsRecords
    <3> QED
      BY <1>0, <3>1, <3>4 DEF Reported
  <2>6. faults' = f \/ faults' = f + 1
    BY <1>8, Zenon DEF Record, Replied, LostReply, Fault, NoFault
  <2> PICK f1 \in Nat : f1 = faults' /\ (f1 = f \/ f1 = f + 1)
    BY <2>6
  <2>3. CASE Alone /\ pc'[p] # "record"
    <3>1. CASE yes
      <4>1. Yeses' = a - 1 /\ Noes' = b /\ yes = TRUE
        BY <1>0, <2>1, <2>3, <3>1, PendingEnds
      <4>2. OffBy(Counted(s, TRUE), d, a - 1, b, f1, t)
        BY <1>2, OffByRecorded
      <4> QED
        BY <1>3, <2>2, <4>1, <4>2
    <3>2. CASE ~yes
      <4>1. Yeses' = a /\ Noes' = b - 1 /\ yes = FALSE
        BY <1>0, <2>1, <2>3, <3>2, PendingEnds
      <4>2. OffBy(Counted(s, FALSE), d, a, b - 1, f1, t)
        BY <1>2, OffByRecorded
      <4> QED
        BY <1>3, <2>2, <4>1, <4>2
    <3> QED
      BY <3>1, <3>2
  <2>4. CASE f1 = f + 1 /\ pc' = pc /\ call' = call
    <3>1. Yeses' = a /\ Noes' = b
      BY <2>4 DEF Yeses, Noes, Yes, No
    <3>2. OffBy(Counted(s, TRUE), d, a, b, f1, t) /\ OffBy(Counted(s, FALSE), d, a, b, f1, t)
      BY <1>2, <2>4, OffByRecorded
    <3>3. OffBy(Counted(s, yes), d, a, b, f1, t)
      <4>1. yes = TRUE \/ yes = FALSE
        OBVIOUS
      <4> QED
        BY <3>2, <4>1
    <3> QED
      BY <1>3, <2>2, <2>4, <3>1, <3>3
  <2>5. \/ pc' = [pc EXCEPT ![p] = "expire"] /\ call' = call
        \/ pc' = [pc EXCEPT ![p] = "idle"] /\ call' = [call EXCEPT ![p] = NoCall]
        \/ faults' = faults + 1 /\ pc' = pc /\ call' = call
    BY <1>8, Zenon DEF Record, Replied, LostReply, Fault, Return, Goto
  <2> QED
    BY <1>0, <2>3, <2>4, <2>5
<1>9. CASE RunScript(p) \/ ScriptFails(p)
  <2>1. Reported' = Reported /\ clock' = clock /\ faults' \in {faults, faults + 1}
    <3>1. stats' = stats /\ clock' = clock /\ (faults' = faults \/ faults' = faults + 1)
      BY <1>9, Zenon DEF RunScript, ScriptFails, redis, Fault, NoFault
    <3> QED
      BY <3>1 DEF Reported
  <2>2. pc[p] = "script" /\ (Resend(p) \/ \E yes \in BOOLEAN : Decide(p, yes))
    <3>1. CASE ScriptFails(p)
      BY <3>1 DEF ScriptFails, FailClosed
    <3>2. CASE RunScript(p)
      <4> DEFINE yes == tokenBucketLua(bucket, call[p].cfg, call[p].now).allowed
      <4>1. yes \in BOOLEAN
        BY DEF tokenBucketLua
      <4>2. pc[p] = "script" /\ (Decide(p, yes) \/ Resend(p) \/ Decide(p, FALSE))
        BY <3>2, Zenon DEF RunScript, FailClosed
      <4> HIDE DEF yes
      <4> QED
        BY <4>1, <4>2
    <3> QED
      BY <1>9, <3>1, <3>2
  <2>3. CASE Resend(p)
    BY <1>6, <2>1, <2>3 DEF Resend
  <2> QED
    BY <1>7, <2>1, <2>2, <2>3
<1>10. CASE RefreshTTL(p)
  <2>1. Reported' = Reported
    <3>1. CASE stats' = stats
      BY <3>1 DEF Reported
    <3>2. CASE stats = nil \/ stats' # Expire(stats)
      BY <1>10, <3>1, <3>2 DEF RefreshTTL, Expire
    <3>3. CASE stats # nil /\ stats' = Expire(stats)
      <4>1. stats' = [stats EXCEPT !.expires = clock + TTL] /\ stats \in StatsRecords
        BY <1>0, <3>3 DEF Expire, Deadline
      <4>2. stats' \in StatsRecords /\ stats'.counts = stats.counts
        BY <1>0, <4>1 DEF StatsRecords
      <4> QED
        BY <1>0, <3>3, <4>2 DEF Reported
    <3> QED
      BY <3>2, <3>3
  <2>2. /\ pc[p] = "expire" /\ pc' = [pc EXCEPT ![p] = "idle"]
        /\ call' = [call EXCEPT ![p] = NoCall]
        /\ clock' = clock /\ decided' = decided /\ (faults' = faults \/ faults' = faults + 1)
    BY <1>10, Zenon DEF RefreshTTL, Return, Goto, Fault, NoFault, observers
  <2> QED
    BY <1>0, <1>6, <2>1, <2>2
<1>11. CASE CommandFails(p) \/ Crash(p)
  <2>1. /\ stats' = stats /\ pc' = [pc EXCEPT ![p] = "idle"]
        /\ call' = [call EXCEPT ![p] = NoCall]
        /\ clock' = clock /\ decided' = decided /\ faults' = faults + 1
    BY <1>11, Zenon DEF CommandFails, Crash, Return, Goto, Fault, observers, redis
  <2>2. Reported' = Reported
    BY <2>1 DEF Reported
  <2> QED
    BY <1>0, <1>6, <2>1, <2>2
<1>12. ASSUME stats' = stats, clock' = clock, decided' = decided,
              faults' = faults \/ faults' = faults + 1,
              \/ pc' = pc /\ call' = call
              \/ /\ pc[p] # "record"
                 /\ \E at \in Points \ {"record"} : pc' = [pc EXCEPT ![p] = at]
                 /\ \E c : call' = [call EXCEPT ![p] = c]
       PROVE  StatsOffByFaults'
  <2>1. Reported' = Reported
    BY <1>12 DEF Reported
  <2>2. CASE pc' = pc /\ call' = call
    BY <1>6, <1>12, <2>1, <2>2
  <2>3. ASSUME pc[p] # "record",
               NEW at \in Points \ {"record"}, pc' = [pc EXCEPT ![p] = at],
               NEW c, call' = [call EXCEPT ![p] = c]
        PROVE  StatsOffByFaults'
    BY <1>0, <1>6, <1>12, <2>1, <2>3
  <2> QED
    BY <1>12, <2>2, <2>3, Zenon
<1>13. {"idle", "config", "clock", "script", "expire", "store", "drop", "remove"}
         \subseteq Points \ {"record"}
  BY DEF Points
<1>14. ASSUME call' = call PROVE \E c : call' = [call EXCEPT ![p] = c]
  <2>1. call' = [call EXCEPT ![p] = call[p]]
    BY <1>0, <1>14
  <2> QED
    BY <2>1, Zenon
<1>15. CASE Arrive(p) \/ removeClient(p)
  <2>1. /\ stats' = stats /\ clock' = clock /\ decided' = decided /\ faults' = faults
        /\ call' = call /\ pc[p] = "idle"
        /\ pc' = [pc EXCEPT ![p] = "config"] \/ pc' = [pc EXCEPT ![p] = "remove"]
    BY <1>15, Zenon DEF Arrive, removeClient, Goto, redis, observers
  <2> QED
    BY <1>12, <1>13, <1>14, <2>1
<1>16. CASE ReadConfig(p) \/ ReadClock(p) \/ \E cfg \in Configs : setClientConfig(p, cfg)
  <2>1. /\ stats' = stats /\ clock' = clock /\ decided' = decided
        /\ faults' = faults \/ faults' = faults + 1
        /\ \E c : call' = [call EXCEPT ![p] = c]
        /\ \/ pc[p] = "config" /\ pc' = [pc EXCEPT ![p] = "clock"]
           \/ pc[p] = "clock" /\ pc' = [pc EXCEPT ![p] = "script"]
           \/ pc[p] = "idle" /\ pc' = [pc EXCEPT ![p] = "store"]
    BY <1>16, Zenon DEF ReadConfig, ReadClock, setClientConfig, Goto, redis, observers, Fault, NoFault
  <2>2. /\ pc[p] # "record"
        /\ \E at \in Points \ {"record"} : pc' = [pc EXCEPT ![p] = at]
    BY <1>13, <2>1
  <2> QED
    BY <1>12, <2>1, <2>2
<1>17. CASE Store(p) \/ Drop(p) \/ Remove(p)
  <2>1. /\ stats' = stats /\ clock' = clock /\ decided' = decided
        /\ faults' = faults \/ faults' = faults + 1
        /\ pc[p] \in {"store", "drop", "remove"}
        /\ \/ pc' = pc /\ call' = call
           \/ call' = call /\ pc' = [pc EXCEPT ![p] = "drop"]
           \/ call' = [call EXCEPT ![p] = NoCall] /\ pc' = [pc EXCEPT ![p] = "idle"]
    BY <1>17 DEF Store, Drop, Remove, Replied, Returned, LostReply, Return, Goto, Fault, NoFault
  <2>2. CASE pc' = pc /\ call' = call
    BY <1>12, <2>1, <2>2
  <2>3. CASE call' = call /\ pc' = [pc EXCEPT ![p] = "drop"]
    BY <1>12, <1>13, <1>14, <2>1, <2>3
  <2>4. CASE call' = [call EXCEPT ![p] = NoCall] /\ pc' = [pc EXCEPT ![p] = "idle"]
    BY <1>12, <1>13, <2>1, <2>4
  <2> QED
    BY <2>1, <2>2, <2>3, <2>4
<1> QED
  BY <1>8, <1>9, <1>10, <1>11, <1>15, <1>16, <1>17 DEF Step

\* The statistics the dashboard reads count every decision once, but for one per
\* fault and what expired with the key (redisstore.go:205-233), for any number of
\* processes on any number of instances.
THEOREM StatisticsOffByFaults == Spec => []StatsOffByFaults
<1>1. Init => LastsTTL /\ StatsOffByFaults
  <2> SUFFICES ASSUME Init PROVE LastsTTL /\ StatsOffByFaults
    OBVIOUS
  <2>1. LastsTTL /\ Reported = NoStats /\ decided = NoStats /\ faults = 0 /\ clock = 0
    BY DEF Init, LastsTTL, Reported
  <2>2. Yeses = 0 /\ Noes = 0
    <3>1. Yes = {} /\ No = {}
      BY DEF Init, Yes, No
    <3> QED
      BY <3>1, FS_EmptySet DEF Yeses, Noes
  <2>3. OffBy(NoStats, NoStats, 0, 0, 0, 0)
    BY DEF OffBy, NoStats
  <2> QED
    BY <2>1, <2>2, <2>3, StatsOffByValues
<1>2. (TypeInv /\ LastsTTL /\ StatsOffByFaults) /\ [Next]_vars => (LastsTTL /\ StatsOffByFaults)'
  BY StepLasts, StepOffBy
<1> QED
  BY <1>1, <1>2, InitType, StepType, PTL DEF Spec
-----------------------------------------------------------------------------
\* The time to the next full bucket, as far as the floored count tells it
\* (redisstore.go:299), is a Duration.
ResetFits ==
  \A p \in Processes : pc[p] = "script" =>
    LET cfg == call[p].cfg
        r   == tokenBucketLua(bucket, cfg, call[p].now)
    IN  ((cfg.Burst \div Unit - r.tokens \div Unit) * Unit) \div cfg.RPS <= MaxDuration

\* A reply r is also what a lone client's next request finds: t later it has
\* what t refills.
LEMMA Refilled ==
  ASSUME NEW b \in Buckets \cup {nil}, NEW cfg \in Known, NEW now \in Int, NEW t \in Int
  PROVE  LET r    == tokenBucketLua(b, cfg, now)
             next == tokenBucketLua(r, cfg, now + t)
             full == MinOf(cfg.Burst, r.tokens + t * cfg.RPS)
         IN  /\ ~r.allowed => r.tokens < Unit
             /\ next.allowed = (full >= Unit)
             /\ next.tokens = IF full >= Unit THEN full - Unit ELSE full
<1> DEFINE r      == tokenBucketLua(b, cfg, now)
           tokens == IF b = nil THEN cfg.Burst
                     ELSE MinOf(cfg.Burst, b.tokens + (now - b.ts) * cfg.RPS)
<1>1. r.tokens \in Int /\ r.ts = now /\ r.allowed \in BOOLEAN
  BY LuaType
<1>2. r = [tokens |-> IF tokens >= Unit THEN tokens - Unit ELSE tokens, ts |-> now,
           allowed |-> tokens >= Unit]
  BY DEF tokenBucketLua
<1>3. ~r.allowed => r.tokens < Unit
  <2> HIDE DEF tokens, r
  <2>1. ~r.allowed => r.tokens = tokens /\ ~(tokens >= Unit)
    BY <1>2
  <2> QED
    BY <1>1, <2>1, UnitAssumption
<1>4. r # nil
  <2> HIDE DEF tokens, r
  <2>1. r = [tokens |-> r.tokens, ts |-> r.ts, allowed |-> r.allowed]
    BY <1>2
  <2>2. r \in [tokens : Int, ts : Int, allowed : BOOLEAN]
    BY <1>1, <2>1
  <2> QED
    BY <2>2, RedisAssumption
<1>5. (now + t) - r.ts = t
  <2> HIDE DEF r
  <2> QED
    BY <1>1
<1> HIDE DEF tokens, r
<1> DEFINE full == MinOf(cfg.Burst, r.tokens + t * cfg.RPS)
<1>6. tokenBucketLua(r, cfg, now + t)
        = [tokens |-> IF full >= Unit THEN full - Unit ELSE full, ts |-> now + t,
           allowed |-> full >= Unit]
  <2> DEFINE held == IF r = nil THEN cfg.Burst
                     ELSE MinOf(cfg.Burst, r.tokens + ((now + t) - r.ts) * cfg.RPS)
  <2>1. tokenBucketLua(r, cfg, now + t)
          = [tokens |-> IF held >= Unit THEN held - Unit ELSE held, ts |-> now + t,
             allowed |-> held >= Unit]
    BY DEF tokenBucketLua
  <2>2. held = full
    BY <1>4, <1>5, Zenon
  <2> QED
    BY <2>1, <2>2, Zenon
<1> HIDE DEF full
<1>7. /\ ~r.allowed => r.tokens < Unit
      /\ tokenBucketLua(r, cfg, now + t).allowed = (full >= Unit)
      /\ tokenBucketLua(r, cfg, now + t).tokens = IF full >= Unit THEN full - Unit ELSE full
  BY <1>3, <1>6
<1> QED
  BY <1>7 DEF full, r

\* Of one bucket with k tokens, burst and rate: after the wait told, floored,
\* and one tick more, the missing tokens are there; and no more than one token
\* of waiting is too much.
LEMMA Waits ==
  ASSUME NEW k \in Int, NEW burst \in Int, NEW rate \in Nat \ {0}, burst >= Unit,
         ((burst \div Unit - k \div Unit) * Unit) \div rate <= MaxDuration
  PROVE  LET wait  == retryAfterFromRemaining(FALSE, k \div Unit, rate)
             reset == resetAfterFromRemaining(burst \div Unit, k \div Unit, rate)
         IN  /\ reset \in Nat
             /\ k + (reset + 1) * rate > burst - Unit
             /\ k < Unit =>
                  /\ wait \in Nat
                  /\ k + (wait + 1) * rate >= Unit
                  /\ \A t \in Int : (wait - t) * rate >= Unit => k + t * rate < Unit
<1> DEFINE rem   == k \div Unit
           limit == burst \div Unit
           short == (1 - rem) * Unit
           empty == (limit - rem) * Unit
           q1    == short \div rate
           q2    == empty \div rate
<1>1. Unit \in Nat \ {0} /\ MaxDuration \in Nat /\ rem \in Int /\ limit \in Int
  BY UnitAssumption, DurationAssumption, Quotient
<1>2. rem * Unit <= k /\ k < (rem + 1) * Unit /\ burst < (limit + 1) * Unit
  BY <1>1, Quotient
<1>3. /\ rem * Unit \in Int /\ limit * Unit \in Int
      /\ (rem + 1) * Unit = rem * Unit + Unit /\ (limit + 1) * Unit = limit * Unit + Unit
      /\ short = Unit - rem * Unit /\ empty = limit * Unit - rem * Unit
  <2> HIDE DEF rem, limit
  <2>1. rem * Unit \in Int /\ limit * Unit \in Int
    BY <1>1, IntProduct
  <2>2. \A a \in Int : (a + 1) * Unit = a * Unit + Unit
    BY <1>1, ProductOfSum
  <2>3. (1 + -rem) * Unit = Unit + (-rem) * Unit /\ (limit + -rem) * Unit = limit * Unit + (-rem) * Unit
    BY <1>1, ProductOfSum
  <2>4. (-rem) * Unit = -(rem * Unit)
    <3>1. (rem + -rem) * Unit = rem * Unit + (-rem) * Unit
      BY <1>1, ProductOfSum
    <3>2. rem + -rem = 0 /\ 0 * Unit = 0 /\ (-rem) * Unit \in Int
      BY <1>1, IntProduct
    <3> QED
      BY <2>1, <3>1, <3>2
  <2>5. 1 + -rem = 1 - rem /\ limit + -rem = limit - rem
    BY <1>1
  <2> QED
    BY <2>1, <2>2, <2>3, <2>4, <2>5, <1>1
<1>4. limit >= 1
  <2>1. Unit < limit * Unit + Unit
    BY <1>1, <1>2, <1>3
  <2> HIDE DEF limit
  <2>2. 0 * Unit = 0 /\ (0 < limit <=> 0 * Unit < limit * Unit)
    BY <1>1, ProductStrict
  <2> QED
    BY <1>1, <1>3, <2>1, <2>2
<1>5. /\ q1 \in Int /\ q1 * rate \in Int /\ (q1 + 1) * rate \in Int
      /\ q1 * rate <= short /\ short < (q1 + 1) * rate
      /\ q2 \in Int /\ q2 * rate \in Int /\ (q2 + 1) * rate \in Int
      /\ q2 * rate <= empty /\ empty < (q2 + 1) * rate
  <2>1. short \in Int /\ empty \in Int
    BY <1>1, <1>3
  <2> HIDE DEF short, empty
  <2>2. /\ q1 \in Int /\ q1 * rate <= short /\ short < (q1 + 1) * rate
        /\ q2 \in Int /\ q2 * rate <= empty /\ empty < (q2 + 1) * rate
    BY <2>1, Quotient
  <2> HIDE DEF q1, q2
  <2>3. q1 + 1 \in Int /\ q2 + 1 \in Int
    BY <2>2
  <2> QED
    BY <2>2, <2>3, IntProduct
<1>6. q2 <= MaxDuration
  OBVIOUS
<1> HIDE DEF q1, q2
<1>7. \A a \in Int, b \in Int : a <= b /\ short < (a + 1) * rate => short < (b + 1) * rate
  <2> TAKE a \in Int, b \in Int
  <2> HAVE a <= b /\ short < (a + 1) * rate
  <2>1. (a + 1) * rate <= (b + 1) * rate
    BY ProductMonotone
  <2>2. (a + 1) * rate \in Int /\ (b + 1) * rate \in Int /\ short \in Int
    BY <1>1, <1>3, IntProduct
  <2> QED
    BY <2>1, <2>2
<1> DEFINE wait  == retryAfterFromRemaining(FALSE, rem, rate)
           reset == resetAfterFromRemaining(limit, rem, rate)
<1>8. reset \in Nat /\ k + (reset + 1) * rate > burst - Unit
  <2>1. CASE rem >= limit
    <3>1. reset = 0
      BY <2>1 DEF resetAfterFromRemaining
    <3>2. limit * Unit <= rem * Unit
      <4> HIDE DEF rem, limit
      <4> QED
        BY <1>1, <2>1, ProductMonotone
    <3>3. (0 + 1) * rate = rate
      OBVIOUS
    <3> HIDE DEF reset, rem, limit
    <3> QED
      BY <1>1, <1>2, <1>3, <3>1, <3>2, <3>3
  <2>2. CASE ~(rem >= limit)
    <3>1. reset = q2
      <4>1. ~(rate <= 0) /\ ToDuration(q2) = q2
        BY <1>1, <1>5, <1>6 DEF ToDuration
      <4> QED
        BY <2>2, <4>1, Zenon DEF resetAfterFromRemaining, q2
    <3>2. 0 < empty
      <4> HIDE DEF rem, limit
      <4>1. rem * Unit < limit * Unit
        BY <1>1, <2>2, ProductStrict
      <4> QED
        BY <1>1, <1>3, <4>1
    <3> HIDE DEF reset, rem, limit, empty
    <3>3. 0 < q2 + 1
      <4>1. 0 * rate = 0 /\ (0 < q2 + 1 <=> 0 * rate < (q2 + 1) * rate)
        BY <1>5, ProductStrict
      <4>2. empty \in Int
        BY <1>1, <1>3
      <4> QED
        BY <1>5, <3>2, <4>1, <4>2
    <3>4. reset \in Nat
      BY <1>5, <3>1, <3>3
    <3>5. PICK s \in Int : s = (q2 + 1) * rate /\ empty < s
      BY <1>5
    <3> QED
      BY <1>1, <1>2, <1>3, <3>1, <3>4, <3>5
  <2> QED
    BY <2>1, <2>2
<1>9. ASSUME k < Unit
      PROVE  /\ wait \in Nat
             /\ k + (wait + 1) * rate >= Unit
             /\ \A t \in Int : (wait - t) * rate >= Unit => k + t * rate < Unit
  <2>1. 0 < short /\ short <= empty
    <3>1. rem * Unit < 1 * Unit
      <4> HIDE DEF rem
      <4> QED
        BY <1>1, <1>2, <1>3, <1>9
    <3>2. 1 * Unit <= limit * Unit /\ 1 * Unit = Unit
      <4> HIDE DEF limit
      <4> QED
        BY <1>1, <1>4, ProductMonotone
    <3> HIDE DEF rem, limit, short, empty
    <3> QED
      BY <1>1, <1>3, <3>1, <3>2
  <2> HIDE DEF rem, limit, short, empty
  <2>2. 0 < q1 + 1 /\ q1 < q2 + 1
    <3>1. 0 * rate = 0 /\ (0 < q1 + 1 <=> 0 * rate < (q1 + 1) * rate)
      BY <1>5, ProductStrict
    <3>2. q1 < q2 + 1 <=> q1 * rate < (q2 + 1) * rate
      BY <1>5, ProductStrict
    <3>3. short \in Int /\ empty \in Int
      BY <1>1, <1>3
    <3> QED
      BY <1>5, <2>1, <3>1, <3>2, <3>3
  <2>3. q1 \in Nat /\ q1 <= MaxDuration
    BY <1>1, <1>5, <1>6, <2>2
  <2>4. wait = q1
    <3>1. ~(rate <= 0) /\ ToDuration(MaxOf(0, q1)) = q1
      BY <1>1, <2>3 DEF ToDuration, MaxOf
    <3> QED
      BY <3>1, Zenon DEF retryAfterFromRemaining, q1, short
  <2> HIDE DEF wait
  <2>5. k + (wait + 1) * rate >= Unit
    <3>1. PICK s \in Int : s = (wait + 1) * rate /\ short < s
      BY <1>5, <2>4
    <3> QED
      BY <1>1, <1>2, <1>3, <3>1
  <2>6. ASSUME NEW t \in Int, (wait - t) * rate >= Unit PROVE k + t * rate < Unit
    <3>1. (wait - t) * rate + t * rate = wait * rate
      <4>1. ((wait - t) + t) * rate = (wait - t) * rate + t * rate /\ (wait - t) + t = wait
        BY <1>5, <2>4, ProductOfSum
      <4> QED
        BY <4>1
    <3>2. PICK s \in Int : s = t * rate
      BY IntProduct
    <3>3. PICK u \in Int : u = (wait - t) * rate
      BY <1>5, <2>4, IntProduct
    <3>4. u + s = wait * rate /\ wait * rate <= short /\ u >= Unit /\ wait * rate \in Int
      BY <1>5, <2>4, <2>6, <3>1, <3>2, <3>3
    <3>5. k + s < Unit
      <4>1. PICK w \in Int : w = wait * rate
        BY <3>4
      <4> QED
        BY <1>1, <1>2, <1>3, <3>4, <4>1
    <3> QED
      BY <3>2, <3>5
  <2> QED
    BY <2>3, <2>4, <2>5, <2>6
<1> QED
  BY <1>8, <1>9

\* The times told from floored counts are close: one tick after RetryAfter a
\* lone client is let in, and it waits for at most one token more than it had
\* to; after ResetAfter less than one token is missing (redisstore.go:194-199).
THEOREM TimesAreClose == Spec => [](ResetFits => TimesClose)
<1>1. Init => Validated
  BY DEF Init, Validated
<1>2. TypeInv /\ Validated /\ ResetFits => TimesClose
  <2> SUFFICES ASSUME TypeInv, Validated, ResetFits, NEW p \in Processes, pc[p] = "script"
               PROVE  LET cfg == call[p].cfg
                          now == call[p].now
                          r   == tokenBucketLua(bucket, cfg, now)
                          d   == Decision(r, cfg)
                          At(t) == tokenBucketLua(r, cfg, now + t)
                      IN  /\ ~d.Allowed =>
                               /\ At(d.RetryAfter + 1).allowed
                               /\ \A t \in 0 .. d.RetryAfter :
                                    (d.RetryAfter - t) * cfg.RPS >= Unit => ~At(t).allowed
                          /\ At(d.ResetAfter + 1).tokens > cfg.Burst - 2 * Unit
    BY DEF TimesClose
  <2> DEFINE cfg   == call[p].cfg
             now   == call[p].now
             r     == tokenBucketLua(bucket, cfg, now)
             d     == Decision(r, cfg)
             At(t) == tokenBucketLua(r, cfg, now + t)
             k     == r.tokens
             burst == cfg.Burst
             rate  == cfg.RPS
             wait  == retryAfterFromRemaining(FALSE, k \div Unit, rate)
             reset == resetAfterFromRemaining(burst \div Unit, k \div Unit, rate)
             full(t) == MinOf(burst, k + t * rate)
  <2>1. /\ cfg \in Known /\ now \in Int /\ bucket \in Buckets \cup {nil}
        /\ burst \in Int /\ rate \in Nat \ {0} /\ burst >= Unit
    <3>1. call[p] \in CallRecords /\ Validate(cfg) /\ bucket \in Buckets \cup {nil}
      BY CallFields DEF TypeInv, Validated, TypeOK, Calls
    <3>2. cfg \in Known /\ now \in Int
      BY <3>1 DEF CallRecords, TypeInv, Calls, Fits
    <3> QED
      BY <3>1, <3>2, RedisAssumption DEF Known, Validate
  <2>2. k \in Int /\ r.allowed \in BOOLEAN
    BY <2>1, LuaType
  <2>3. \A t \in Int : /\ ~r.allowed => k < Unit
                       /\ At(t).allowed = (full(t) >= Unit)
                       /\ At(t).tokens = IF full(t) >= Unit THEN full(t) - Unit ELSE full(t)
    BY <2>1, Refilled
  <2>4. ((burst \div Unit - k \div Unit) * Unit) \div rate <= MaxDuration
    BY DEF ResetFits
  <2>5. /\ d.Allowed = r.allowed /\ d.ResetAfter = reset
        /\ ~r.allowed => d.RetryAfter = wait
    BY <2>2 DEF Decision
  <2> HIDE DEF cfg, now, r, d, At
  <2> HIDE DEF k, burst, rate
  <2>6. /\ reset \in Nat
        /\ k + (reset + 1) * rate > burst - Unit
        /\ k < Unit =>
             /\ wait \in Nat
             /\ k + (wait + 1) * rate >= Unit
             /\ \A t \in Int : (wait - t) * rate >= Unit => k + t * rate < Unit
    BY <2>1, <2>2, <2>4, Waits
  <2> HIDE DEF wait, reset
  <2>7. ASSUME ~r.allowed PROVE At(wait + 1).allowed
    <3>1. wait + 1 \in Int /\ (wait + 1) * rate \in Int
      BY <2>1, <2>2, <2>3, <2>6, <2>7, IntProduct
    <3>2. full(wait + 1) >= Unit
      BY <2>1, <2>2, <2>3, <2>6, <2>7, <3>1 DEF MinOf
    <3> HIDE DEF full
    <3> QED
      BY <2>3, <3>1, <3>2
  <2>8. ASSUME ~r.allowed, NEW t \in 0 .. wait, (wait - t) * rate >= Unit PROVE ~At(t).allowed
    <3>1. t \in Int /\ t * rate \in Int /\ k + t * rate < Unit
      BY <2>1, <2>3, <2>6, <2>8, IntProduct
    <3>2. ~(full(t) >= Unit)
      BY <2>1, <2>2, <3>1, UnitAssumption DEF MinOf
    <3> HIDE DEF full
    <3> QED
      BY <2>3, <3>1, <3>2
  <2>9. At(reset + 1).tokens > burst - 2 * Unit
    <3>1. reset + 1 \in Int /\ (reset + 1) * rate \in Int
      BY <2>1, <2>6, IntProduct
    <3>2. full(reset + 1) \in Int /\ full(reset + 1) > burst - Unit
      BY <2>1, <2>2, <2>6, <3>1, UnitAssumption DEF MinOf
    <3> HIDE DEF full
    <3>3. At(reset + 1).tokens >= full(reset + 1) - Unit /\ At(reset + 1).tokens \in Int
      BY <2>3, <3>1, <3>2, UnitAssumption
    <3> QED
      BY <2>1, <3>2, <3>3, UnitAssumption
  <2>10. /\ ~d.Allowed =>
              /\ At(d.RetryAfter + 1).allowed
              /\ \A t \in 0 .. d.RetryAfter :
                   (d.RetryAfter - t) * rate >= Unit => ~At(t).allowed
         /\ At(d.ResetAfter + 1).tokens > burst - 2 * Unit
    <3>1. CASE r.allowed
      BY <2>5, <2>9, <3>1
    <3>2. CASE ~r.allowed
      BY <2>5, <2>7, <2>8, <2>9, <3>2
    <3> QED
      BY <2>2, <3>1, <3>2
  <2> QED
    BY <2>10 DEF cfg, now, r, d, At, burst, rate
<1> QED
  BY <1>1, <1>2, InitType, StepType, StepValidated, PTL DEF Spec
=============================================================================
