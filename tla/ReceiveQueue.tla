---------------------------- MODULE ReceiveQueue ----------------------------
(***************************************************************************)
(* The processor of the stored receive records: class ReceiveQueue of      *)
(* client/receive-queue.ts, with the receive paths that hold a record      *)
(* while they commit it (relay-subscription.ts, receiveForCaller()) and    *)
(* the calls of the application on it.                                     *)
(*                                                                         *)
(* The store is durable and every write names the revision it replaces.    *)
(* Everything else is memory: a crash loses it, and stop() clears a part.  *)
(* A pass lists the records once and then works on what it listed, with an *)
(* await (here: a step) between its check of a record, its writes and the  *)
(* hook, so the receive paths, the application, stop() and a crash come    *)
(* in between.  Records are numbers in the order of (arrivalSeq, workId).  *)
(* The receipt of a record is a request that settles; the join with the    *)
(* receipt of the Relay is not modelled.                                   *)
(***************************************************************************)
EXTENDS Integers, Sequences, FiniteSets

CONSTANTS
  Records,       \* work IDs, as numbers in arrival order
  Sender,        \* the account of the sender of each record
  Conversation,  \* the conversation of its content: an account or a group
  Groups,        \* the conversations that are groups
  Framed,        \* the sender-key records, which store their group at commit
  Origin,        \* "relay" or "caller"
  Content,       \* "message", "flaky" or "poison" (what the hook does with it),
                 \* "silent" (the queue consumes it) or "denied"
  OwesReceipt,   \* the records whose content owes a delivery receipt
  NoWork, NoGroup, NoPass,
  Cap,           \* RECEIVE_HOOK_ATTEMPT_CAP
  Backoff,       \* RECEIVE_RETRY_BACKOFF_MS, and retryAfterMs of a group
  MaxAge,        \* MAX_RECEIVE_WORK_AGE_MS
  Lifespan,      \* RECEIPT_LIFESPAN_MS
  MaxItems,      \* policy.maxItems
  Prompt,        \* whether time waits for what is under way
  MaxReceives,   \* bound: the deliveries of one envelope
  MaxTroubles,   \* bound: the starts, and the failures of the store and of receipts
  MaxCalls,      \* bound: the calls of processPending(), and of discard
  PagesFail,     \* whether the page read of a pass can fail
  LastArrival,   \* bound: the time of the last admission
  MaxTime        \* bound: the clock

Accounts == {Sender[r] : r \in Records}
Keys == Accounts \cup Groups

Stages == {"decrypted", "awaiting-completion", "receipt-due"}

\* What the store can hold of an envelope.
WorkRecord ==
  [stage : Stages, revision : Nat, attempts : Nat, blocked : BOOLEAN,
   group : Keys \cup {NoGroup}, receivedAt : Nat, dueAt : Nat]

ASSUME QueueAssumption ==
  /\ Records \subseteq Nat /\ IsFiniteSet(Records)
  /\ Origin \in [Records -> {"relay", "caller"}]
  /\ \A r \in Records : Conversation[r] \in Keys
  /\ NoWork \notin WorkRecord
  /\ {Backoff, MaxAge, Lifespan, LastArrival, MaxTime} \subseteq Nat
  /\ Cap \in Nat \ {0}
  /\ LastArrival + MaxAge <= MaxTime

VARIABLES
  work,      \* the stored record of each work ID
  done,      \* the processed record of its envelope: the outcome
  receive,   \* where the receive path of an envelope stands
  running,   \* ~stopped
  resumeAt,  \* when resume() runs (again), from start() until it succeeds
  hook,      \* onMessageDecrypted is registered
  armedAt,   \* the time of the pass timer
  queued,    \* a pass waits for its turn
  calls,     \* the calls of processPending() that wait for their turn
  pass,      \* the pass that runs
  backoff,   \* the retry times, by work ID
  restored,  \* the work IDs whose conversation the queue knows
  offered,   \* offeredAtCap
  inFlight,  \* receiptsInFlight
  cappedDue, \* cappedRetryDue
  woken,     \* wokenGroups
  updated,   \* the groups whose state is up to date
  now,
  \* What happened so far.
  accepted,  \* the records whose content the hook took
  reported,  \* the records that onReceiveExpired reported
  removed,   \* the records that the application completed or discarded
  receives, starts, made, failures

store   == <<work, done>>
memory  == <<backoff, restored, offered, inFlight>>
timers  == <<running, resumeAt, armedAt, queued, calls>>
world   == <<hook, updated, now, starts, made, failures>>
history == <<accepted, reported, removed, receives>>
vars    == <<store, receive, pass, memory, timers, cappedDue, woken, world, history>>

Never == MaxTime + 1

MinOf(a, b) == IF a < b THEN a ELSE b

-----------------------------------------------------------------------------
(* The store.                                                              *)

\* The record that the commit of a receive writes.
NewWork(r) ==
  [stage |-> "decrypted", revision |-> 0, attempts |-> 0, blocked |-> FALSE,
   group |-> IF r \in Framed THEN Conversation[r] ELSE NoGroup,
   receivedAt |-> now, dueAt |-> now]

\* Mutant of Current: the write does not check the revision.
CurrentUnchecked(r, rec) == TRUE

\* putReceiveWork() and completeReceiveWork() find the revision they expect.
Current(r, rec) == work[r] # NoWork /\ work[r].revision = rec.revision

\* putReceiveWork(): nothing is written when the revision has changed.
Put(r, rec, new) ==
  work' = IF Current(r, rec)
            THEN [work EXCEPT ![r] = [new EXCEPT !.revision = rec.revision + 1]]
            ELSE work

\* completeReceiveRecord(): the record goes and the envelope is marked, at once.
Complete(r, rec, outcome) ==
  IF Current(r, rec)
    THEN work' = [work EXCEPT ![r] = NoWork] /\ done' = [done EXCEPT ![r] = outcome]
    ELSE UNCHANGED store

ExpiresAt(rec) == rec.receivedAt + MaxAge

\* forget()
Forget(r) ==
  /\ backoff' = [backoff EXCEPT ![r] = 0]
  /\ restored' = restored \ {r}
  /\ offered' = offered \ {r}

\* Bound: a stop, a crash or a failure may still happen.
Troubled == starts + failures < MaxTroubles

\* A call of the store or of the Relay fails.  Bound: its retry is on the clock.
Fails ==
  /\ Troubled /\ now + Backoff <= MaxTime
  /\ failures' = failures + 1

\* schedule()
Schedule(at) == armedAt' = IF running THEN MinOf(armedAt, at) ELSE armedAt

-----------------------------------------------------------------------------
(* The receive path of one envelope, from hold() to the release.           *)

Held(r) == receive[r].at # "idle"

\* A delivery or a redelivery of the envelope starts, and holds its record.
BeginReceive(r) ==
  /\ running
  /\ ~Held(r)
  /\ receives[r] < MaxReceives
  /\ receive' = [receive EXCEPT ![r].at = "held"]
  /\ receives' = [receives EXCEPT ![r] = @ + 1]
  /\ UNCHANGED <<store, pass, memory, timers, cappedDue, woken, world, accepted, reported, removed>>

\* commitEnvelope(), or the caller's getReceiveWork(): a stored record is used
\* again, a processed envelope is not decrypted again, and a full store refuses.
CommitReceive(r) ==
  LET stored == {q \in Records : work[q] # NoWork}
      admit  == /\ work[r] = NoWork /\ done[r] = "none"
                /\ Cardinality(stored) < MaxItems /\ now <= LastArrival
      rec    == IF admit THEN NewWork(r) ELSE work[r]
  IN
  /\ receive[r].at = "held"
  /\ work' = [work EXCEPT ![r] = rec]
  /\ receive' = [receive EXCEPT ![r] =
       [at |-> IF rec # NoWork /\ Origin[r] = "caller" /\ rec.stage = "decrypted"
                 THEN "decide" ELSE "release",
        rec |-> rec]]
  /\ UNCHANGED <<done, pass, memory, timers, cappedDue, woken, world, history>>

\* blockReceiveWork()
Blocked(r, rec) ==
  [rec EXCEPT !.blocked = TRUE, !.group = Conversation[r],
              !.dueAt = MinOf(now + Backoff, ExpiresAt(rec))]

\* awaitReceiveCompletion()
Awaiting(r, rec) ==
  [rec EXCEPT !.stage = "awaiting-completion", !.blocked = FALSE, !.dueAt = ExpiresAt(rec),
              !.group = IF @ = NoGroup /\ Conversation[r] \in Groups THEN Conversation[r] ELSE @]

\* decideGroupContent()
Available(r) == Conversation[r] \in Groups => Conversation[r] \in updated

\* receiveForCallerLocked() after the restore, for content of the caller.
CallerDecides(r) ==
  LET rec == receive[r].rec IN
  /\ receive[r].at = "decide"
  /\ IF Content[r] \in {"denied", "silent"}
       THEN Complete(r, rec, Content[r])
       ELSE /\ Put(r, rec, IF Available(r) THEN Awaiting(r, rec) ELSE Blocked(r, rec))
            /\ UNCHANGED done
  /\ receive' = [receive EXCEPT ![r].at = "release"]
  /\ UNCHANGED <<pass, memory, timers, cappedDue, woken, world, history>>

\* The release of the hold, and wake().
EndReceive(r) ==
  /\ receive[r].at = "release"
  /\ receive' = [receive EXCEPT ![r] = [at |-> "idle", rec |-> NoWork]]
  /\ Schedule(now)
  /\ UNCHANGED <<store, pass, memory, running, resumeAt, queued, calls, cappedDue, woken,
                 world, history>>

-----------------------------------------------------------------------------
(* A pass.                                                                 *)

\* conversationOf(): the conversation of a record as far as the queue knows it.
KeyOf(r, rec) ==
  IF r \in restored THEN Conversation[r] ELSE IF rec.group # NoGroup THEN rec.group ELSE Sender[r]

\* retriesCap()
RetriesCap(r, rec, mode) ==
  rec.attempts >= Cap /\ (mode = "all" \/ (mode = "unoffered" /\ r \notin offered))

\* The start of runPass(): one page in arrival order, the records at the cap after
\* the others.
NewPass(mode) ==
  LET stored  == {r \in Records : work[r] # NoWork}
      AtCap(r) == RetriesCap(r, work[r], mode)
      Before(q, r) == IF AtCap(q) = AtCap(r) THEN q < r ELSE AtCap(r)
      Entry(r) == [id |-> r, rec |-> work[r]]
      Nth(i)   == CHOOSE r \in stored : Cardinality({q \in stored : Before(q, r)}) = i - 1
  IN  [mode |-> mode, at |-> "visit",
       todo |-> [i \in 1 .. Cardinality(stored) |-> Entry(Nth(i))],
       capped |-> \E r \in stored : AtCap(r), listed |-> {Entry(r) : r \in stored},
       blocked |-> [c \in Keys |-> Never], woken |-> woken, next |-> Never]

Mode == IF cappedDue THEN "unoffered" ELSE "none"

\* run(), when its turn comes.
StartPass ==
  /\ pass = NoPass
  /\ queued
  /\ queued' = FALSE
  /\ IF running
       THEN /\ pass' = NewPass(Mode)
            /\ cappedDue' = FALSE
            /\ woken' = {}
       ELSE UNCHANGED <<pass, cappedDue, woken>>
  /\ UNCHANGED <<store, receive, memory, running, resumeAt, armedAt, calls, world, history>>

\* processPending(), when its turn comes.
StartCalledPass ==
  /\ pass = NoPass
  /\ calls > 0
  /\ calls' = calls - 1
  /\ pass' = NewPass("all")
  /\ cappedDue' = FALSE
  /\ woken' = {}
  /\ UNCHANGED <<store, receive, memory, running, resumeAt, armedAt, queued, world, history>>

\* The pass fails to read its page: run() swallows the error, and arms no timer.
PassFails ==
  /\ pass = NoPass
  /\ queued /\ running
  /\ PagesFail /\ Fails
  /\ queued' = FALSE
  /\ woken' = {}
  /\ UNCHANGED <<store, receive, pass, memory, running, resumeAt, armedAt, calls, cappedDue,
                 hook, updated, now, starts, made, history>>

Head1 == Head(pass.todo)

\* isBlocked(): an earlier record of the conversation waits.
IsBlocked(r, key) == pass.blocked[key] < r

\* Mutant of Advance: the due time of the record is not collected.
AdvanceUntimed(wait) == [pass EXCEPT !.todo = Tail(@), !.at = "visit"]

\* The pass goes on to the next record.
Advance(wait) ==
  [pass EXCEPT !.todo = Tail(@), !.at = "visit", !.next = MinOf(@, wait)]

\* Mutant of AdvanceBlocking: the record holds back no other.
AdvanceFreely(key, wait) == Advance(wait)

\* block(): the record holds back the later ones of its conversation.
AdvanceBlocking(key, wait) ==
  [Advance(wait) EXCEPT !.blocked[key] = MinOf(@, Head1.id)]

\* step(): what the checks find, in their order.
Verdict(r, rec) ==
  LET key == KeyOf(r, rec) IN
  IF Held(r)                                     THEN "held"
  ELSE IF now >= ExpiresAt(rec)                  THEN "expired"
  ELSE IF rec.stage = "receipt-due" /\ now >= rec.dueAt + Lifespan THEN "expired"
  ELSE IF rec.stage = "awaiting-completion"      THEN "awaiting"
  ELSE IF rec.stage = "receipt-due"              THEN "receipt"
  ELSE IF IsBlocked(r, key)                      THEN "behind"
  ELSE IF rec.attempts >= Cap /\ ~RetriesCap(r, rec, pass.mode) THEN "capped"
  ELSE IF backoff[r] > now                       THEN "backoff"
  ELSE IF rec.blocked /\ rec.dueAt > now /\ rec.group \notin pass.woken THEN "group"
  ELSE "process"

\* What every step of a pass leaves alone.
PassOnly == UNCHANGED <<receive, timers, cappedDue, hook, updated, now, starts, made, removed, receives>>

\* Mutant of HoldsBack: a record at the cap holds back its conversation too.
HoldsBackAtCap(verdict) == verdict \in {"held", "capped", "backoff", "group"}

\* The records that are left where they are and hold back their conversation.
HoldsBack(verdict) == verdict \in {"held", "backoff", "group"}

\* A woken group of a record behind another is left to the next pass.
StillWoken(r, rec) ==
  IF Verdict(r, rec) = "behind" /\ rec.group \in pass.woken THEN woken \cup {rec.group} ELSE woken

\* A record that the pass leaves where it is.
SkipRecord ==
  LET r == Head1.id
      rec == Head1.rec
      key == KeyOf(r, rec)
      verdict == Verdict(r, rec)
  IN
  /\ verdict \in {"held", "awaiting", "behind", "capped", "backoff", "group"}
  /\ LET wait == CASE verdict = "held"    -> Never
                    [] verdict = "backoff" -> MinOf(backoff[r], ExpiresAt(rec))
                    [] verdict = "group"   -> MinOf(rec.dueAt, ExpiresAt(rec))
                    [] OTHER               -> ExpiresAt(rec)
     IN  pass' = IF HoldsBack(verdict) THEN AdvanceBlocking(key, wait) ELSE Advance(wait)
  /\ woken' = StillWoken(r, rec)
  /\ IF verdict = "behind" /\ rec.group # NoGroup /\ ~rec.blocked
       THEN Put(r, rec, [rec EXCEPT !.blocked = TRUE])
       ELSE UNCHANGED work
  /\ UNCHANGED <<done, memory, accepted, reported, failures>>

\* receiptStep(): the receipt is sent, unless it is in flight or in backoff.
SendReceipt ==
  LET r == Head1.id IN
  /\ Verdict(r, Head1.rec) = "receipt"
  /\ IF r \in inFlight \/ backoff[r] <= now
       THEN inFlight' = inFlight \cup {r} /\ pass' = Advance(Never)
       ELSE UNCHANGED inFlight /\ pass' = Advance(backoff[r])
  /\ UNCHANGED <<store, backoff, restored, offered, woken, accepted, reported, failures>>

\* Mutant of EndReceipt: the stage of an expired record is not checked.
EndReceiptAnyStage ==
  LET r == Head1.id IN
  /\ Verdict(r, Head1.rec) = "expired"
  /\ Complete(r, Head1.rec, "expired")
  /\ Forget(r) /\ UNCHANGED inFlight
  /\ pass' = Advance(Never)
  /\ UNCHANGED <<woken, accepted, reported, failures>>

\* The content of a record at receipt-due has reached the application: it ends
\* with no report.
EndReceipt ==
  LET r == Head1.id IN
  /\ Verdict(r, Head1.rec) = "expired"
  /\ Head1.rec.stage = "receipt-due"
  /\ Complete(r, Head1.rec, "delivered")
  /\ Forget(r) /\ UNCHANGED inFlight
  /\ pass' = Advance(Never)
  /\ UNCHANGED <<woken, accepted, reported, failures>>

\* expireReceiveWork() reads the record again: one that has changed is left alone.
ReadExpired ==
  LET r == Head1.id IN
  /\ Verdict(r, Head1.rec) = "expired"
  /\ Head1.rec.stage # "receipt-due"
  /\ IF Current(r, Head1.rec)
       THEN pass' = [pass EXCEPT !.at = "report"] /\ UNCHANGED memory
       ELSE pass' = Advance(Never) /\ Forget(r) /\ UNCHANGED inFlight
  /\ UNCHANGED <<store, woken, accepted, reported, failures>>

TakeRecord ==
  /\ Verdict(Head1.id, Head1.rec) = "process"
  /\ pass' = [pass EXCEPT !.at = "process"]
  /\ UNCHANGED <<store, memory, woken, accepted, reported, failures>>

\* step(), up to its first await.
Visit ==
  /\ pass # NoPass /\ pass.at = "visit" /\ pass.todo # <<>>
  /\ SkipRecord \/ SendReceipt \/ EndReceipt \/ ReadExpired \/ TakeRecord
  /\ PassOnly

\* expireReceiveWork() after its read: onReceiveExpired runs, also for a record that
\* the application has removed since the read.
ReportExpired ==
  /\ pass # NoPass /\ pass.at = "report"
  /\ reported' = reported \cup {Head1.id}
  /\ pass' = [pass EXCEPT !.at = "expire"]
  /\ UNCHANGED <<store, memory, woken, accepted, failures>>
  /\ PassOnly

\* expireReceiveWork() after its hook.
Expire ==
  LET r == Head1.id IN
  /\ pass # NoPass /\ pass.at = "expire"
  /\ Complete(r, Head1.rec, "expired")
  /\ Forget(r) /\ UNCHANGED inFlight
  /\ pass' = Advance(Never)
  /\ UNCHANGED <<woken, accepted, reported, failures>>
  /\ PassOnly

Processing == pass # NoPass /\ pass.at = "process"

\* processRecord(): denied content, null messages and group key syncs end here.
Consume ==
  LET r == Head1.id IN
  /\ Processing
  /\ Content[r] \in {"denied", "silent"}
  /\ Complete(r, Head1.rec, Content[r])
  /\ Forget(r) /\ UNCHANGED inFlight
  /\ pass' = Advance(Never)
  /\ UNCHANGED <<woken, accepted, reported, failures>>
  /\ PassOnly

Delivering(r) == Processing /\ Content[r] \notin {"denied", "silent"}

\* processRecord(): the restored conversation is held back, or its group waits.
WaitRestored ==
  LET r   == Head1.id
      rec == Head1.rec
      key == Conversation[r]
  IN
  /\ Delivering(r)
  /\ IsBlocked(r, key) \/ ~Available(r)
  /\ restored' = restored \cup {r}
  /\ IF IsBlocked(r, key)
       THEN /\ pass' = Advance(ExpiresAt(rec))
            /\ IF key \in Groups /\ ~rec.blocked
                 THEN Put(r, rec, [rec EXCEPT !.blocked = TRUE, !.group = key])
                 ELSE UNCHANGED work
       ELSE /\ pass' = AdvanceBlocking(key, Blocked(r, rec).dueAt)
            /\ Put(r, rec, Blocked(r, rec))
  /\ UNCHANGED <<done, backoff, offered, inFlight, woken, accepted, reported, failures>>
  /\ PassOnly

\* processRecord(): authorized content of a caller waits for completeReceive().
HandToCaller ==
  LET r == Head1.id IN
  /\ Delivering(r)
  /\ ~IsBlocked(r, Conversation[r]) /\ Available(r)
  /\ Origin[r] = "caller"
  /\ Put(r, Head1.rec, Awaiting(r, Head1.rec))
  /\ Forget(r) /\ UNCHANGED inFlight
  /\ pass' = Advance(Never)
  /\ UNCHANGED <<done, woken, accepted, reported, failures>>
  /\ PassOnly

\* Mutant of CountsAtCap: the attempt that reaches the cap is not remembered.
CountsAtCapNever(attempts) == FALSE

\* The attempt reaches the cap, or is above it.
CountsAtCap(attempts) == attempts >= Cap

\* processRecord(): the attempt is counted in the store before the hook runs.  A
\* pass that loses the revision check skips the record.
CountAttempt ==
  LET r   == Head1.id
      rec == Head1.rec
      new == [rec EXCEPT !.attempts = @ + 1]
  IN
  /\ Delivering(r)
  /\ ~IsBlocked(r, Conversation[r]) /\ Available(r)
  /\ Origin[r] = "relay"
  /\ restored' = restored \cup {r}
  /\ IF ~hook
       THEN pass' = AdvanceBlocking(Conversation[r], ExpiresAt(rec)) /\ UNCHANGED <<work, offered>>
     ELSE IF ~Current(r, rec)
       THEN /\ pass' = AdvanceBlocking(Conversation[r], MinOf(now + Backoff, ExpiresAt(rec)))
            /\ UNCHANGED <<work, offered>>
     ELSE /\ Put(r, rec, new)
          /\ offered' = IF CountsAtCap(new.attempts) THEN offered \cup {r} ELSE offered
          /\ pass' = [pass EXCEPT !.at = "hook",
                        !.todo[1].rec = [new EXCEPT !.revision = @ + 1]]
  /\ UNCHANGED <<done, backoff, inFlight, woken, accepted, reported, failures>>
  /\ PassOnly

\* The hook takes the content.
HookAccepts ==
  /\ pass # NoPass /\ pass.at = "hook"
  /\ Content[Head1.id] \in {"message", "flaky"}
  /\ accepted' = accepted \cup {Head1.id}
  /\ pass' = [pass EXCEPT !.at = "finish"]
  /\ UNCHANGED <<store, memory, woken, reported, failures>>
  /\ PassOnly

\* The hook rejects, or times out.  A record at the cap holds back no other.
HookRejects ==
  LET r   == Head1.id
      rec == Head1.rec
  IN
  /\ pass # NoPass /\ pass.at = "hook"
  /\ Content[r] \in {"flaky", "poison"}
  /\ IF rec.attempts < Cap
       THEN /\ backoff' = [backoff EXCEPT ![r] = now + Backoff]
            /\ pass' = AdvanceBlocking(Conversation[r], MinOf(now + Backoff, ExpiresAt(rec)))
       ELSE /\ backoff' = [backoff EXCEPT ![r] = 0]
            /\ pass' = Advance(ExpiresAt(rec))
  /\ UNCHANGED <<store, restored, offered, inFlight, woken, accepted, reported, failures>>
  /\ PassOnly

\* processRecord() after the hook: the record completes, or owes its receipt.
Finish ==
  LET r   == Head1.id
      rec == Head1.rec
  IN
  /\ pass # NoPass /\ pass.at = "finish"
  /\ IF r \notin OwesReceipt
       THEN Complete(r, rec, "delivered") /\ Forget(r) /\ UNCHANGED inFlight
       ELSE /\ Put(r, rec, [rec EXCEPT !.stage = "receipt-due", !.blocked = FALSE,
                                       !.attempts = 0, !.dueAt = now])
            /\ backoff' = [backoff EXCEPT ![r] = 0]
            /\ inFlight' = IF Current(r, rec) THEN inFlight \cup {r} ELSE inFlight
            /\ UNCHANGED <<done, restored, offered>>
  /\ pass' = Advance(Never)
  /\ UNCHANGED <<woken, accepted, reported, failures>>
  /\ PassOnly

\* step() goes to the store before it processes the record: to complete or to read
\* an expired one, or to let one behind another wait for its group.
VisitsStore(r, rec) ==
  \/ Verdict(r, rec) = "expired"
  \/ Verdict(r, rec) = "behind" /\ rec.group # NoGroup /\ ~rec.blocked

\* visit(): a read or write of the store fails, the record waits for the backoff
\* and holds back its conversation.
StepFails ==
  LET r == Head1.id
      rec == Head1.rec
  IN
  /\ pass # NoPass /\ pass.todo # <<>>
  /\ pass.at \in {"process", "finish", "expire"} \/ (pass.at = "visit" /\ VisitsStore(r, rec))
  /\ Fails
  /\ backoff' = [backoff EXCEPT ![r] = now + Backoff]
  /\ pass' = AdvanceBlocking(KeyOf(r, rec), now + Backoff)
  /\ woken' = IF pass.at = "visit" THEN StillWoken(r, rec) ELSE woken
  /\ UNCHANGED <<store, restored, offered, inFlight, accepted, reported>>
  /\ PassOnly

\* The end of runPass(): the timer is armed for the earliest due time.
EndPass ==
  /\ pass # NoPass /\ pass.at = "visit" /\ pass.todo = <<>>
  /\ pass' = NoPass
  /\ Schedule(pass.next)
  /\ UNCHANGED <<store, receive, memory, running, resumeAt, queued, calls, cappedDue, woken,
                 world, history>>

\* processPending() reaches its deadline between two records.
Deadline ==
  /\ pass # NoPass /\ pass.at = "visit" /\ pass.todo # <<>> /\ pass.mode = "all"
  /\ pass' = NoPass
  /\ woken' = woken \cup pass.woken
  /\ cappedDue' = (cappedDue \/ pass.capped)
  /\ Schedule(now)
  /\ UNCHANGED <<store, receive, memory, running, resumeAt, queued, calls, world, history>>

-----------------------------------------------------------------------------
(* Timers, receipts, the application, and the life of the client.          *)

\* The callback of the pass timer, and run().
TimerFires ==
  /\ running /\ armedAt <= now
  /\ armedAt' = Never
  /\ queued' = TRUE
  /\ UNCHANGED <<store, receive, pass, memory, running, resumeAt, calls, cappedDue, woken,
                 world, history>>

\* receiptSettled(), when its turn comes.  A receipt that went out completes the
\* record, unless the client has stopped; the completion may fail, and a later pass
\* sends the receipt again.
ReceiptSent(r) ==
  LET due == work[r] # NoWork /\ work[r].stage = "receipt-due" IN
  \/ /\ IF running /\ due
          THEN Complete(r, work[r], "delivered") /\ Forget(r)
          ELSE UNCHANGED <<store, backoff, restored, offered>>
     /\ UNCHANGED <<armedAt, failures>>
  \/ /\ running /\ due /\ Fails
     /\ Schedule(now + Backoff)
     /\ UNCHANGED <<store, backoff, restored, offered>>

\* A receipt that failed is sent again after the backoff, if its record still owes it.
ReceiptFailed(r) ==
  LET due == work[r] # NoWork /\ work[r].stage = "receipt-due" IN
  /\ Fails
  /\ CASE ~running        -> UNCHANGED <<backoff, restored, offered, armedAt>>
       [] running /\ due  -> /\ backoff' = [backoff EXCEPT ![r] = now + Backoff]
                             /\ Schedule(now + Backoff)
                             /\ UNCHANGED <<restored, offered>>
       [] running /\ ~due -> Forget(r) /\ UNCHANGED armedAt
  /\ UNCHANGED store

ReceiptSettles(r) ==
  /\ pass = NoPass
  /\ r \in inFlight
  /\ inFlight' = inFlight \ {r}
  /\ ReceiptSent(r) \/ ReceiptFailed(r)
  /\ UNCHANGED <<receive, pass, running, resumeAt, queued, calls, cappedDue,
                 woken, hook, updated, now, starts, made, history>>

\* A fetch of a group completes, and wakes the queue for it.
GroupFetched(g) ==
  /\ g \notin updated
  /\ updated' = updated \cup {g}
  /\ woken' = woken \cup {g}
  /\ Schedule(now)
  /\ UNCHANGED <<store, receive, pass, memory, running, resumeAt, queued, calls, cappedDue,
                 hook, now, starts, made, failures, history>>

\* registerHook('onMessageDecrypted') and retryFailedHooks().
RegisterHook ==
  /\ running /\ ~hook
  /\ hook' = TRUE
  /\ cappedDue' = TRUE
  /\ Schedule(now)
  /\ UNCHANGED <<store, receive, pass, memory, running, resumeAt, queued, calls, woken,
                 updated, now, starts, made, failures, history>>

\* processPendingReceives()
ProcessPending ==
  /\ running
  /\ made < MaxCalls
  /\ made' = made + 1
  /\ calls' = calls + 1
  /\ UNCHANGED <<store, receive, pass, memory, running, resumeAt, armedAt, queued, cappedDue,
                 woken, hook, updated, now, starts, failures, history>>

\* discardPendingReceive(): the record completes with the outcome expired.
Discard(r) ==
  /\ running
  /\ made < MaxCalls
  /\ work[r] # NoWork /\ work[r].stage # "receipt-due"
  /\ made' = made + 1
  /\ Complete(r, work[r], "expired")
  /\ Forget(r) /\ UNCHANGED inFlight
  /\ removed' = removed \cup {r}
  /\ Schedule(now)
  /\ UNCHANGED <<receive, pass, running, resumeAt, queued, calls, cappedDue, woken,
                 hook, updated, now, starts, failures, accepted, reported, receives>>

\* completeReceive(): the application has stored what it got.
CompleteReceive(r) ==
  /\ running
  /\ work[r] # NoWork /\ work[r].stage = "awaiting-completion"
  /\ Complete(r, work[r], "delivered")
  /\ removed' = removed \cup {r}
  /\ UNCHANGED <<receive, pass, memory, timers, cappedDue, woken, world, accepted, reported, receives>>

\* start()
Start ==
  /\ ~running
  /\ starts' = starts + 1
  /\ running' = TRUE
  /\ resumeAt' = now
  /\ inFlight' = {}
  /\ UNCHANGED <<store, receive, pass, backoff, restored, offered, armedAt, queued, calls,
                 cappedDue, woken, hook, updated, now, made, failures, history>>

\* resumeThenRun(): a resume that fails runs again after the backoff; one that
\* succeeds makes the records at the cap due, and runs a pass.
Resume ==
  /\ running /\ resumeAt <= now
  /\ \/ /\ resumeAt' = Never
        /\ queued' = TRUE
        /\ cappedDue' = TRUE
        /\ UNCHANGED failures
     \/ /\ Fails
        /\ resumeAt' = now + Backoff
        /\ UNCHANGED <<queued, cappedDue>>
  /\ UNCHANGED <<store, receive, pass, memory, running, armedAt, calls, woken, hook, updated,
                 now, starts, made, history>>

\* What stop() and a crash both lose: the pass and the memory of the queue.
LosesMemory ==
  /\ running' = FALSE
  /\ resumeAt' = Never
  /\ armedAt' = Never
  /\ backoff' = [r \in Records |-> 0]
  /\ restored' = {}
  /\ offered' = {}
  /\ woken' = {}
  /\ pass' = NoPass

\* stop() of the queue, and of the relay work it does.  A pass that ran with
\* records at the cap leaves them to the next.
Stop ==
  /\ running
  /\ Troubled
  /\ LosesMemory
  /\ cappedDue' = (pass # NoPass /\ pass.mode # "none")
  /\ UNCHANGED <<store, receive, inFlight, queued, calls, world, history>>

\* The process ends, at any moment.
Crash ==
  /\ running
  /\ Troubled
  /\ LosesMemory
  /\ receive' = [r \in Records |-> [at |-> "idle", rec |-> NoWork]]
  /\ inFlight' = {}
  /\ queued' = FALSE
  /\ calls' = 0
  /\ cappedDue' = FALSE
  /\ hook' = FALSE
  /\ UNCHANGED <<store, updated, now, starts, made, failures, history>>

\* Nothing is under way: the client runs, with its hook, and no pass or receive
\* path is due or goes on.
Idle ==
  /\ running /\ hook /\ pass = NoPass
  /\ ~queued /\ calls = 0 /\ armedAt > now /\ resumeAt > now
  /\ \A r \in Records : ~Held(r)

Tick ==
  /\ now < MaxTime
  /\ Prompt => Idle
  /\ now' = now + 1
  /\ UNCHANGED <<store, receive, pass, memory, timers, cappedDue, woken, hook, updated,
                 starts, made, failures, history>>

-----------------------------------------------------------------------------

Init ==
  /\ work = [r \in Records |-> NoWork]
  /\ done = [r \in Records |-> "none"]
  /\ receive = [r \in Records |-> [at |-> "idle", rec |-> NoWork]]
  /\ running = FALSE /\ resumeAt = Never /\ armedAt = Never
  /\ hook = FALSE /\ queued = FALSE /\ calls = 0
  /\ pass = NoPass
  /\ backoff = [r \in Records |-> 0]
  /\ restored = {} /\ offered = {} /\ inFlight = {}
  /\ cappedDue = FALSE /\ woken = {} /\ updated = {}
  /\ now = 0
  /\ accepted = {} /\ reported = {} /\ removed = {}
  /\ receives = [r \in Records |-> 0]
  /\ starts = 0 /\ made = 0 /\ failures = 0

ReceiveStep(r) == BeginReceive(r) \/ CommitReceive(r) \/ CallerDecides(r) \/ EndReceive(r)

PassStep ==
  \/ StartPass \/ StartCalledPass \/ Visit \/ ReportExpired \/ Expire \/ Consume \/ WaitRestored
  \/ HandToCaller \/ CountAttempt \/ HookAccepts \/ HookRejects \/ Finish \/ EndPass

Next ==
  \/ \E r \in Records : ReceiveStep(r)
  \/ PassStep \/ PassFails \/ StepFails \/ Deadline
  \/ TimerFires \/ Resume \/ Tick
  \/ \E r \in Records : ReceiptSettles(r) \/ Discard(r) \/ CompleteReceive(r)
  \/ \E g \in Groups : GroupFetched(g)
  \/ RegisterHook \/ ProcessPending
  \/ Start \/ Stop \/ Crash

Spec == Init /\ [][Next]_vars

\* The code's own steps are fair: a pass goes on (its hooks are bounded by
\* receiveHookTimeoutMs), timers fire, a receive path and a receipt request end.
\* The application starts the client again and registers its hook.  Arrivals,
\* group fetches, the other calls and every failure are not fair.
FairSpec ==
  /\ Spec
  /\ WF_vars(PassStep) /\ WF_vars(TimerFires) /\ WF_vars(Resume) /\ WF_vars(Tick)
  /\ WF_vars(Start) /\ WF_vars(RegisterHook)
  /\ \A r \in Records :
       /\ WF_vars(CommitReceive(r) \/ CallerDecides(r) \/ EndReceive(r))
       /\ WF_vars(ReceiptSettles(r))

-----------------------------------------------------------------------------
(* Properties.                                                             *)

\* A stored record belongs to an envelope that is not marked as processed, and its
\* stage is one that its origin can reach.
TypeOK ==
  \A r \in Records :
    /\ work[r] # NoWork =>
         /\ done[r] = "none"
         /\ work[r].stage \in Stages
         /\ work[r].stage = "receipt-due" => Origin[r] = "relay" /\ r \in accepted
         /\ work[r].stage = "awaiting-completion" => Origin[r] = "caller"
    /\ backoff[r] \in 0 .. MaxTime + Backoff

\* Nothing is lost: an envelope is marked only after its content reached the
\* application, was refused, or was given up with a report to the application.
NothingLost ==
  \A r \in Records :
    /\ done[r] = "delivered" => r \in accepted \cup removed
    /\ done[r] = "expired" => r \in reported \cup removed
    /\ done[r] \in {"denied", "silent"} => Content[r] = done[r]

\* The hook gets the records of one conversation in arrival order: it is called for
\* no record while an earlier one, that the pass listed and that the queue knows to
\* be of the same conversation, still waits for it below the attempt cap.
DeliveredInOrder ==
  [][pass # NoPass /\ pass' # NoPass /\ pass.at = "process" /\ pass'.at = "hook" =>
       \A e \in pass.listed :
         ~(/\ e.id < Head1.id /\ Origin[e.id] = "relay"
           /\ work[e.id] # NoWork /\ work[e.id].stage = "decrypted"
           /\ Content[e.id] \notin {"denied", "silent"}
           /\ work[e.id].attempts < Cap
           /\ e.id \notin accepted
           /\ KeyOf(e.id, e.rec) = Conversation[Head1.id])]_vars

\* A record at the cap is offered once in each start, and once in each call of
\* processPending(), however the start pass, the registration of the hook and
\* failed reads follow each other.
OffersBounded ==
  \A r \in Records : work[r] # NoWork => work[r].attempts <= Cap + (starts - 1) + made

\* What the application has completed or discarded stays so: no pass that listed the
\* record before, and no receive path that read it, writes it back, gives its envelope
\* another outcome or sends a receipt for it.
RemovalStands ==
  [][\A r \in removed : work'[r] = NoWork /\ done'[r] = done[r] /\ r \notin inFlight']_vars

\* Every stored record ends, at the latest when it expires: no sequence of holds,
\* backoffs, blocked groups, stops and crashes leaves it without a pass to come.
EveryReceiveEnds == \A r \in Records : work[r] # NoWork ~> work[r] = NoWork

\* A message that its hook would take, and whose group is up to date when it
\* arrives, reaches the hook, or the application removes it, whatever fails before
\* it in its conversation.  (A failure of the store delays it, and the bounds on time
\* leave no room for that.)
MessagesDelivered ==
  \A r \in Records :
    /\ Content[r] = "message" /\ Available(r)
    /\ work[r] # NoWork /\ work[r].receivedAt = now
    ~> r \in accepted \cup removed \/ failures > 0

=============================================================================
