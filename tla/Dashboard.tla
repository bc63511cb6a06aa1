----------------------------- MODULE Dashboard -----------------------------
(***************************************************************************)
(* The dashboard (dashboard/app/page.tsx) watching a load test: it polls   *)
(* GET /stats every interval and shows the differences of two snapshots as *)
(* rates.  An interval does not wait for the poll before it, so polls may  *)
(* overlap and their answers overtake each other.  An answer only queues   *)
(* an update of the page's state; React applies what is queued when it     *)
(* renders the page, so one render may take several answers.  The line on  *)
(* whether the API can be reached is left out with the markup.             *)
(***************************************************************************)
EXTENDS Loadtest

CONSTANTS MaxPolls, MaxWatched  \* bounds

ASSUME DashboardAssumption == MaxPolls \in Nat /\ MaxWatched \in Nat

VARIABLES
  poll,               \* poll -> how far it is, and the snapshot it brings
  updates,            \* snapshots handed to setCurrent since the last render
  current, previous,  \* the snapshots the page renders from, or nil
  first, shown,       \* observer: the first snapshot, and the sum of the rates rendered since
  overtaken,          \* observer: a snapshot came after a later one
  batched             \* observer: a render took more than one answer

page == <<poll, updates, current, previous, first, shown, overtaken, batched>>
vars == <<loadVars, page>>

nil == <<>>
Zero == [allowed |-> 0, denied |-> 0]
Total(s) == s.allowed + s.denied

\* GET /stats: the key has an entry from its first decision on.
Stats == IF Total(counts) = 0 THEN nil ELSE counts

\* One field's rate between two snapshots of a client.
Rate1(now, before) == MaxOf(0, now - before)

\* The row rendered for the key: no rate without an entry to compare with.
Rates(cur, prev) ==
  IF cur = nil \/ prev = nil THEN Zero
  ELSE [allowed |-> Rate1(cur.allowed, prev.allowed), denied |-> Rate1(cur.denied, prev.denied)]

Init ==
  /\ LoadInit
  /\ poll = [k \in 1 .. MaxPolls |-> [at |-> "unsent", data |-> nil]]
  /\ updates = <<>> /\ current = nil /\ previous = nil
  /\ first = nil /\ shown = Zero /\ overtaken = FALSE /\ batched = FALSE

\* Bound: only short runs are watched; from the first poll on they meet no fault,
\* and the rest of the run is over within the tick.
Watched == n <= MaxWatched /\ faults = 0
LoadStep ==
  /\ LoadNext /\ UNCHANGED page
  /\ (\E k \in 1 .. MaxPolls : poll[k].at # "unsent") => UNCHANGED <<faults, clock>>

\* The interval fires and the server answers with the counts of this moment,
\* whatever became of earlier polls.
Poll(k) ==
  /\ Watched
  /\ poll[k].at = "unsent"
  /\ \A j \in 1 .. k - 1 : poll[j].at # "unsent"
  /\ poll' = [poll EXCEPT ![k] = [at |-> "answered", data |-> Stats]]
  /\ UNCHANGED <<loadVars, updates, current, previous, first, shown, overtaken, batched>>

\* A poll is over.
Over(k) ==
  /\ poll[k].at = "answered"
  /\ poll' = [poll EXCEPT ![k] = [at |-> "over", data |-> nil]]

\* The snapshot that will be current when everything queued is applied.
Latest == IF updates = <<>> THEN current ELSE updates[Len(updates)]

\* The answer arrives and is queued.
Deliver(k) ==
  /\ Over(k)
  /\ LET data == poll[k].data
     IN  /\ updates' = Append(updates, data)
         /\ overtaken' = (overtaken \/ (Latest # nil /\ (data = nil \/ Total(data) < Total(Latest))))
         /\ first' = IF first = nil THEN data ELSE first
  /\ UNCHANGED <<loadVars, current, previous, shown, batched>>

\* The fetch fails, on its way there or back: both snapshots stay.
PollFails(k) ==
  /\ Over(k)
  /\ UNCHANGED <<loadVars, updates, current, previous, first, shown, overtaken, batched>>

\* Mutant: the ref is set from the effect's closure, where current is still what
\* it was at the first render.
StashStale == nil

\* The previous snapshot once everything queued is applied, one update after the
\* other, each with what the one before it made current.
Stash == IF Len(updates) = 1 THEN current ELSE updates[Len(updates) - 1]

\* React applies what is queued and renders the page.
Render ==
  /\ updates # <<>>
  /\ previous' = Stash
  /\ current' = Latest
  /\ LET r == Rates(Latest, Stash)
     IN  shown' = [allowed |-> shown.allowed + r.allowed, denied |-> shown.denied + r.denied]
  /\ batched' = (batched \/ Len(updates) > 1)
  /\ updates' = <<>>
  /\ UNCHANGED <<loadVars, poll, first, overtaken>>

DashboardNext ==
  \/ \E k \in 1 .. MaxPolls : Poll(k) \/ Deliver(k) \/ PollFails(k)
  \/ Render

Next == LoadStep \/ DashboardNext

\* The scheduler runs every worker and main; requests have a timeout of ten
\* seconds.  Nobody has to poll.
Spec ==
  /\ Init /\ [][Next]_vars
  /\ \A w \in Workers : WF_vars(Work(w) /\ UNCHANGED page)
  /\ WF_vars(Report /\ UNCHANGED page)
-----------------------------------------------------------------------------
\* A rate is the difference to the snapshot before (page.tsx:47-55): as long as
\* no answer overtakes another, no decision shows in two rates, whatever polls
\* fail or are applied together; and if every answer is rendered before the next
\* one comes, none is left out: the rates add up to the growth of the totals.
RatesAddUp ==
  (current # nil /\ ~overtaken) =>
    /\ shown.allowed <= current.allowed - first.allowed
    /\ shown.denied <= current.denied - first.denied
    /\ ~batched => /\ shown.allowed = current.allowed - first.allowed
                   /\ shown.denied = current.denied - first.denied
=============================================================================
