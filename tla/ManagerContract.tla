--------------------------- MODULE ManagerContract ---------------------------
(***************************************************************************)
(* The in-memory Store as one client sees it: Manager with an observer     *)
(* that hears what the client's limiter answers, and the eager bucket of   *)
(* RateContract the Store amounts to while a Config is in force.           *)
(***************************************************************************)
EXTENDS Manager

CONSTANTS
  Watched,  \* the client that is watched
  Given     \* a Config it may be given

VARIABLES
  heard,  \* observer: what the limiter in the map answered last at this instant
  admitted,  \* observer: requests that limiter admitted in the interval it watches ...
  begun    \* ... and when the interval began

contractVars == <<vars, heard, admitted, begun>>

\* The limiter in the map answers a request; the old one, which a goroutine may
\* still hold after a change, is not what the client's new Config promises.
Answers(yes) ==
  \E g \in Goroutines :
    /\ Decide(g)
    /\ call[g].lim = limiters[Watched]
    /\ call'[g].allowed = yes

Changed == epoch'[Watched] # epoch[Watched]

\* What the observer knows after a step; a change starts its interval anew.
Hear ==
  /\ heard' = IF Answers(TRUE) THEN "allow"
               ELSE IF Answers(FALSE) THEN "deny"
               ELSE IF Changed \/ clock' # clock THEN "none" ELSE heard
  /\ admitted' = IF Changed THEN 0 ELSE IF Answers(TRUE) THEN admitted + 1 ELSE admitted
  /\ begun' = IF Changed THEN clock ELSE begun

\* The observer starts a new interval.
Look ==
  /\ admitted' = 0
  /\ begun' = clock
  /\ UNCHANGED <<vars, heard>>

\* The observer constrains nothing: every behaviour of the Store has its answers.
ContractInit == Init /\ heard = "none" /\ admitted = 0 /\ begun = 0
ContractNext == (Next /\ Hear) \/ Look
ContractSpec == ContractInit /\ [][ContractNext]_contractVars

\* The tokens a request would find now: a client without a limiter gets a full
\* bucket, one with a limiter what the lazy refill makes of it.
InHand ==
  IF limiters[Watched] = nil THEN Given.Burst
  ELSE Refill(heap[limiters[Watched]], clock).tokens

Contract == INSTANCE RateContract
              WITH Capacity <- Given.Burst, Rate <- Given.RPS,
                   credit <- InHand, outcome <- heard,
                   since <- admitted, span <- clock - begun

\* A client under a token-bucket Config has one bucket of that Config, however
\* many goroutines serve it and whatever happens to other clients
\* (manager.go:18-35, 108-123): from the moment the Config comes into force, full,
\* until it is changed, every step is one of the contract or leaves it alone.
ImplementsContract ==
  /\ ConfigOf(Watched) = Given => Contract!Init
  /\ [][Changed => Contract!Init']_contractVars
  /\ [][ConfigOf(Watched) = Given /\ ~Changed => [Contract!Next]_(Contract!vars)]_contractVars

\* The rate limit over every interval in which the Config is in force.
WatchedRateBound ==
  ConfigOf(Watched) = Given =>
    admitted * Unit <= Given.Burst + Given.RPS * (clock - begun)

\* Nobody sets or removes the client's Config.
NeverConfigured == [](epoch[Watched] = 0)
=============================================================================
