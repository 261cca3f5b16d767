---------------------------- MODULE BoundedFanOut ----------------------------
(***************************************************************************)
(* The relay-request bound of one client: class BoundedFanOut of           *)
(* utils/bounded-fan-out.ts.  A request takes a slot in acquire(), runs    *)
(* its send function, and gives the slot back in release(), which hands it *)
(* to the first waiter.  A stop signal (AbortSignal) may abort at any      *)
(* moment, also between the grant of a slot and the microtask in which the *)
(* granted request resumes and calls send().                               *)
(***************************************************************************)
EXTENDS Naturals, Sequences, FiniteSets

CONSTANTS
  Requests,  \* the calls of request() in the life of the client
  Signals,   \* the stop signals that the callers pass
  NoSignal,  \* a call without a stop signal
  Limit,     \* options.limit
  SignalOf   \* the stop signal of each call

ASSUME FanOutAssumption ==
  /\ Limit \in Nat \ {0}
  /\ NoSignal \notin Signals
  /\ SignalOf \in [Requests -> Signals \cup {NoSignal}]
  /\ IsFiniteSet(Requests)

VARIABLES
  inFlight,  \* BoundedFanOut.inFlight
  waiting,   \* BoundedFanOut.waiting, the grant callbacks in order
  aborted,   \* the stop signals that have aborted
  state      \* where each call of request() stands

vars == <<inFlight, waiting, aborted, state>>

\* idle: not called; waiting: in the queue; granted: acquire() resolved, send()
\* not yet called; sending: send() runs; settled: the promise of request()
\* resolved or rejected after send(); stopped: rejected with the stopped error.
CallStates == {"idle", "waiting", "granted", "sending", "settled", "stopped"}

IsAborted(r) == SignalOf[r] \in aborted

Waiters == {waiting[i] : i \in DOMAIN waiting}

HoldingSlot == {r \in Requests : state[r] \in {"granted", "sending"}}

TypeOK ==
  /\ inFlight \in Nat
  /\ waiting \in Seq(Requests)
  /\ aborted \subseteq Signals
  /\ state \in [Requests -> CallStates]

-----------------------------------------------------------------------------

Init ==
  /\ inFlight = 0
  /\ waiting = <<>>
  /\ aborted = {}
  /\ state = [r \in Requests |-> "idle"]

\* acquire() with an aborted signal rejects at once.
AcquireRefused(r) ==
  /\ state[r] = "idle"
  /\ IsAborted(r)
  /\ state' = [state EXCEPT ![r] = "stopped"]
  /\ UNCHANGED <<inFlight, waiting, aborted>>

\* acquire() takes a free slot.
AcquireFree(r) ==
  /\ state[r] = "idle"
  /\ ~IsAborted(r)
  /\ inFlight < Limit
  /\ inFlight' = inFlight + 1
  /\ state' = [state EXCEPT ![r] = "granted"]
  /\ UNCHANGED <<waiting, aborted>>

\* acquire() queues the grant callback when every slot is taken.
AcquireWait(r) ==
  /\ state[r] = "idle"
  /\ ~IsAborted(r)
  /\ inFlight >= Limit
  /\ waiting' = Append(waiting, r)
  /\ state' = [state EXCEPT ![r] = "waiting"]
  /\ UNCHANGED <<inFlight, aborted>>

\* The continuation after `await this.acquire(...)` calls send().
StartSend(r) ==
  /\ state[r] = "granted"
  /\ state' = [state EXCEPT ![r] = "sending"]
  /\ UNCHANGED <<inFlight, waiting, aborted>>

\* Mutant of Release: the slot is freed and the first waiter is granted as well.
ReleaseFreesAndGrants(r) ==
  /\ inFlight' = inFlight - 1
  /\ waiting' = IF waiting # <<>> THEN Tail(waiting) ELSE waiting
  /\ state' = [q \in Requests |-> IF q = r THEN "settled"
                ELSE IF waiting # <<>> /\ q = Head(waiting) THEN "granted" ELSE state[q]]

\* Mutant of Release: the slot is freed, and nobody wakes the first waiter.
ReleaseWakesNobody(r) ==
  /\ inFlight' = inFlight - 1
  /\ state' = [state EXCEPT ![r] = "settled"]
  /\ UNCHANGED waiting

\* Mutant of Release: the slot goes to the last waiter.
ReleaseServesLast(r) ==
  IF waiting # <<>>
    THEN /\ waiting' = SubSeq(waiting, 1, Len(waiting) - 1)
         /\ state' = [state EXCEPT ![r] = "settled", ![waiting[Len(waiting)]] = "granted"]
         /\ UNCHANGED inFlight
    ELSE /\ inFlight' = inFlight - 1
         /\ state' = [state EXCEPT ![r] = "settled"]
         /\ UNCHANGED waiting

\* send() settles, and release() passes the slot to the first waiter or frees it.
Release(r) ==
  IF waiting # <<>>
    THEN /\ waiting' = Tail(waiting)
         /\ state' = [state EXCEPT ![r] = "settled", ![Head(waiting)] = "granted"]
         /\ UNCHANGED inFlight
    ELSE /\ inFlight' = inFlight - 1
         /\ state' = [state EXCEPT ![r] = "settled"]
         /\ UNCHANGED waiting

Settle(r) ==
  /\ state[r] = "sending"
  /\ Release(r)
  /\ UNCHANGED aborted

\* Mutant of Abandons: the promise of a queued call is left pending.
AbandonsNobody(r, s) == FALSE

\* The abandon listener of a queued call: its promise rejects.
Abandons(r, s) == r \in Waiters /\ SignalOf[r] = s

\* The queue without the callbacks of a stop signal: each abandon listener takes
\* its own callback out (indexOf and splice), the others keep their order.
Unstopped(s) ==
  LET kept[i \in 0 .. Len(waiting)] ==
        IF i = 0 THEN <<>>
        ELSE IF SignalOf[waiting[i]] = s THEN kept[i - 1]
        ELSE Append(kept[i - 1], waiting[i])
  IN  kept[Len(waiting)]

\* A stop signal aborts: each queued call of that signal leaves the queue and
\* rejects.  A call that holds a slot runs on.
Abort(s) ==
  /\ s \notin aborted
  /\ aborted' = aborted \cup {s}
  /\ waiting' = Unstopped(s)
  /\ state' = [r \in Requests |-> IF Abandons(r, s) THEN "stopped" ELSE state[r]]
  /\ UNCHANGED inFlight

Next ==
  \/ \E r \in Requests :
       AcquireRefused(r) \/ AcquireFree(r) \/ AcquireWait(r) \/ StartSend(r) \/ Settle(r)
  \/ \E s \in Signals : Abort(s)

\* A granted call resumes in a microtask, and every relay request settles
\* (it has a deadline of its own): both are fair.  Calls and aborts are not.
Fairness == \A r \in Requests : WF_vars(StartSend(r)) /\ WF_vars(Settle(r))

Spec == Init /\ [][Next]_vars

FairSpec == Spec /\ Fairness

-----------------------------------------------------------------------------
(* Properties.                                                             *)

\* The client never has more than Limit relay requests in flight, and the
\* counter never drifts from the calls that hold a slot: acquire() counts a
\* slot once, release() hands it over without counting it twice.
SlotAccounting ==
  /\ inFlight = Cardinality(HoldingSlot)
  /\ inFlight <= Limit

\* The queue holds each waiting call exactly once, and no call whose stop
\* signal aborted: abandon() found the grant callback by indexOf.
QueueMatchesCalls ==
  /\ \A r \in Requests : state[r] = "waiting" <=> r \in Waiters
  /\ \A i, j \in DOMAIN waiting : waiting[i] = waiting[j] => i = j
  /\ \A r \in Waiters : ~IsAborted(r)

\* No lost wakeup: while a call waits, every slot is taken, so some release()
\* is still to come that will serve the queue.
NoIdleSlot == waiting # <<>> => inFlight = Limit

\* q waits, and r was called after q or is still to be called.
Precedes(q, r) ==
  /\ state[q] = "waiting"
  /\ \/ state[r] = "idle"
     \/ \E i, j \in DOMAIN waiting : i < j /\ waiting[i] = q /\ waiting[j] = r

\* First come, first served: whatever settles, is called or aborts, no call gets
\* a slot before one that came earlier and waits.  release() serves the queue
\* before a new acquire() can see the slot free, and takes the first of it, and
\* the splice of abandon() keeps the order of the others.
NoOvertaking ==
  [][\A q, r \in Requests :
       Precedes(q, r) =>
         /\ state'[r] # "granted"
         /\ state'[q] = "waiting" /\ state'[r] \in {"idle", "waiting"} => Precedes(q, r)']_vars

\* Every queued call is served or stopped, as long as the requests that hold
\* the slots settle.
EveryWaiterServed ==
  \A r \in Requests : state[r] = "waiting" ~> state[r] \in {"settled", "stopped"}

=============================================================================
