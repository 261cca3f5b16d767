# Verification of signal-protocol-js

TLA+ models of the client's protocol state machines, the TLC runs that check
them on small instances, and TLAPS proofs of the central ones for every value
of the limits. Paths are relative to `src/`.

## 1. The system and its parts

signal-protocol-js is an end-to-end encryption client. It keeps its state in a
local store, exchanges envelopes through a Relay that it does not trust for
confidentiality, and hands content to an application through hooks.

| Part | State | Operations | What makes it correct | Module |
| --- | --- | --- | --- | --- |
| Double ratchet (`internal/protocol/double-ratchet`) | root key, two chains with counters, skipped keys per receiver chain, processed chains | derive sending and receiving key, DH ratchet step, store / use / evict / expire skipped keys | one key opens one message and encrypts one; late messages open; limits hold | `DoubleRatchet`, `SessionRatchet` |
| Session cipher (`internal/session/cipher.ts`) | session record: current session, archived sessions, pending prekey | `encrypt`, `decrypt` with its retry loop, promote, archive | whoever starts a session when, messages open in some session; no replay through another session; no session is lost | `SessionCipher` |
| Session establishment (`internal/session/builder.ts`, `handshake.ts`, `internal/manager/manager.ts`) | prekeys, trust | `startSession`, `performX3DHResponder` | a prekey message establishes at most one session | `SessionCipher` |
| Receive queue (`client/receive-queue.ts`) | durable receive records with revisions; in memory: holds, backoffs, known conversations, offers at the cap, receipts in flight, timers | passes over the records, `start`, `stop`, `wake`, `processPending`, receipts | nothing lost, order per conversation, bounded retries, every record ends | `ReceiveQueue` |
| Receive paths (`client/relay-subscription.ts`, `client/client.ts`) | processed-envelope records | hold, decrypt and commit, acknowledge, release; `receiveForCaller`, `completeReceive`, `discardPendingReceive` | a redelivery is no second receive; the queue and the caller do not both decide | `ReceiveQueue` |
| Bounded fan-out (`utils/bounded-fan-out.ts`) | slot counter, queue of grants | `request`, abort of a stop signal | bound, no lost wakeup, no overtaking | `BoundedFanOut` |
| Sender keys (`internal/protocol/sender-keys`) | sender-key record with previous states and skipped keys; the handoff ledger | create, distribute, encrypt, decrypt, rotate, delete; record a handoff | each installation of a key opens each later message at most once; a ledger row is a handoff | `GroupChannel`, `SenderKeys`, `GroupSend` |
| SPQR and ML-KEM braid (`internal/protocol/spqr`) | chunked key-exchange state of each side; root, chains and skipped keys per epoch | send / receive chunk, epoch change, derive send and receive key | both sides agree on each epoch secret and message key; no loss or order stalls the exchange | `SpqrBraid` |
| Receipt join (`client/relay-receipt-join.ts`) | decisions, waiting receipts | join, decide, reply window | exactly one side sends the receipt | planned |
| Group outbox (`client/group-outbox.ts`, `client/signal-service-cipher.ts`, `client/send-deadline.ts`, `client/group-device-set.ts`, `local/store/reliability.ts`) | durable intents with their device messages, pre-messages and progress | prepare, hand off the key, post, repair a stale device, reconcile the device set, replay, complete | the key reaches a device before the message; a crash loses nothing; every stored send ends | `GroupSend` |
| Retry requests (`client/retry-request-lifecycle.ts`) | retry records with deadlines | post, answer, deadline, session reset | no reset while the resend is stored | planned |
| Prekey rotation and refill | published and retained prekeys | rotate, refill, delete | a key that a bundle still names is kept | planned |
| Groups, device lifecycle, Sesame manager | group state, device lists | see PROJECT.json | | later |
| Stores, transports, crypto, encodings, media, safety numbers | | | | not modelled |

How the parts interact: a receive path holds a record, lets the session cipher
decrypt under the record lock of the sender's address, and commits ratchet and
content in one transaction; after the acknowledgment it releases the hold and
wakes the queue. The queue runs passes one at a time, in between which the
receipts settle; the application's hooks, `completeReceive` and
`discardPendingReceive` interleave with a pass at every `await`. A crash loses
memory, never the store. All relay requests go through the bounded fan-out. A
message key of a session mixes the classical chain (`DoubleRatchet`) with the
key of the current SPQR epoch (`SpqrBraid`), whose chunks ride on the same
messages. A group send takes the sender-key turn of the group, encrypts once
(`SenderKeys`), hands the key to the devices without a ledger row through their
sessions, and posts one message per device (`GroupSend`).

What is hard here: messages that are lost, repeated, reordered; two devices
that start a session at once; limits that evict what a late message needs; a
pass that works on records it listed earlier; crashes in a hook; timers that
must be armed on every path; a key exchange whose chunks are lost or overtaken;
distributions that come late or twice; devices that reinstall while a send to
them is under way. PROJECT.json lists each hazard at its line.

## 2. Modules and the code

**BoundedFanOut.** `inFlight` and `waiting` are the fields of the class, `state`
is where each call of `request()` stands. The grant of a slot (`acquire()`
resolves) and the start of the request (the continuation after `await`) are two
steps, since other microtasks run between them. `Release` is what `release()`
does, at once with the settling of the request.

**DoubleRatchet** holds the operators of one session state, without variables.
Keys are symbolic: a Diffie-Hellman output is the set of the two key pairs, a
root key is the sequence of all that was mixed into it, a chain is named by the
root it was derived with, and message key *i* of chain *c* is the pair. The MAC
check of `decryptWithKey` succeeds exactly when both sides hold the same key, so
authentication failures are not assumed away: a wrong key is a `"failed"`
attempt. `keys` joins the message keys of all receiver chains, `chains` gives
the place of each chain in the array, on which eviction of the oldest depends.
The post-quantum half of the message key (`tripleRatchet`) is in `SpqrBraid`.

**SessionRatchet** composes two such sessions with a transport. `sent` is every
message ever sent, and `Decrypt` takes any of them at any time: this is loss,
reordering and repetition in one. `encrypt()` and `decrypt()` run under the
record lock, work on a clone and write once, so each is one step; a call that
throws stores nothing (`DecryptFails`). `Tick` drives the expiry of skipped keys
and of processed chains.

**SessionCipher** adds the record. A session in it has its base key, whether
its prekey message is unacknowledged, and a ratchet state of `DoubleRatchet`.
`DecryptRatchet` and `DecryptPreKey` are the two forms of the retry loop, `Commit`
is what a success writes (with the difference between the skipped-key path and
the promoting path), `Establish` is `performX3DHResponder()` with the prekeys it
uses up. The clock stands still here. `EveryMessageOpens` exempts what the record
has given up (a session dropped at the archive limit, and one that the skipped-key
path has written over) and the sessions that this path took out of the archive, on
either side. `reopened` is a history variable for these: the path leaves their
earlier state in the archive (the subject of `record_skipped`), and a device that
goes on with that copy has lost the ratchet steps made since, so that the two sides
no longer share keys. The loop ends in a failure in two ways in the
code (with the error of the attempt, or with "Unexpected end of decrypt retry loop"
after a second failed prekey attempt); both commit nothing and are one result here.

**ReceiveQueue.** `work` and `done` are the durable store: the receive record of
each envelope, and the processed-envelope record with its outcome. All else is
memory. A pass is a record of its own (`pass`): the records it listed, the
conversations it found blocked, the wake-ups it took, the next due time so far,
and how far it is in its current record (`visit`, `report`, `expire`, `process`,
`hook`, `finish`). Each of these is a point at which other actors run. An expired
record is read again (`ReadExpired`, line 702 of `receive-queue.ts`), reported to
the application (`ReportExpired`, line 716) and completed (`Expire`) in three
steps: a discard between the first two is reported all the same, as in the code.
`StepFails` is the catch of the visit, for a failed read or write of an expired
record or of one behind another (`VisitsStore`), of a processed one and of a
completion. `Verdict` is the
chain of checks of `step()`, in its order; `Put` and `Complete` are the writes
with the revision check. `Stop` and `Crash` may come at every point; `Crash`
loses all memory, `Stop` what `stop()` clears. `NewPass` puts the stored records
in the order of the visits by the number of records before each. Two abstractions: a pass lists
its records in one page, and a receipt is one request that settles. What the
hook does with a record is its `Content`: taken, rejected always, or either.

**SpqrBraid** is the post-quantum half of a session in braid mode. `agent` is the
`MLKEMBraidAgentState` of each party, `spqr` the rest of its `SPQRState` (epoch,
root, chains per epoch, skipped keys), `sent` and `received` the messages of the
session. `Encrypt` is `spqrSend()` with the state machine's `Send` below it;
`Decrypt` takes any message under way and follows the two ways of `decrypt()`,
through the classical skipped keys (`LateOutcome`) or through `spqrRecv()`
(`RecvOutcome`). An epoch secret is a term naming the key pair and who
encapsulated to it; a component is complete when its decoder has as many
different chunks as it needs, which is what the erasure code gives. A repeated
message is refused by the classical ratchet, so `received` is not taken again.
`EveryMessageOpens` exempts what `deriveSPQRReceiveKey()` gives up by design
(`GivenUp`): an index below the trim horizon, and a key not held of an epoch two
behind or more than the jump limit ahead.

**GroupChannel** is the promise of sender keys without chains or records: an
installation of a key at an index gives a right to open each later message of
that key once. **SenderKeys** is the `SenderKeyManager` at one sender and its
receivers: `record` is the array of states, the current one first, `skipped` the
store of skipped keys that all keys of the sender share. Distributions and group
messages may come at any time and any number of times. `ImplementsChannel` is the
refinement; under the mapping a right is a chain index still ahead or a skipped
key still stored. The promise is per installation because a receiver that evicted
a key at `MAX_SENDER_KEY_STATES` installs a late copy of its distribution again,
at the index of that copy. A receiver never deletes a received key when it opens
the last message of it.

**GroupSend** is the identified path of `sendGroupWithExactOutbox()`. `intent` is
the stored intent of each send (members, device messages, pre-messages,
accepted destinations), `rows` the handoff ledger, `attempt` the running attempt
with one task per device. At most one attempt runs, because it holds the
sender-key turn of the group; its posts run side by side. `PreparePayload` reads
the ledger, makes the sessions and encrypts the pre-messages; `NamePayload` reads the
registrations that they name; `StoreIntent` writes the intent before any post;
then come two phases with a barrier each: the pre-messages (`PostPre`, `HoldPre`,
`LosePre`, `RemovedPre`, `RepairPre`, `NamePre`, `RecordHandoff`, then `ConfirmPre`)
and the group messages (`PostDevice`, `LoseDevice`, `RepairDevice`, `NameDevice`,
`ConfirmRepair`, `RenewDevice`, `Refused`, then `EndDevices`). `Leave`, `NameLeft`
and `Renew` write between them what a refreshed device needs. `Crash` ends the
attempt at any step; `Replay` starts the next one on the stored intent, and `Reread`
adds the new devices and drops those that the Relay no longer lists.

`sesameManager.sendMessage()` encrypts a pre-message and `getRemoteRegistrationId()`
is awaited after it, without a lock around the two (lines 7291-7295 and 6316-6324 of
`signal-service-cipher.ts`), so each preparation is two steps and `InboundPreKey`
can come between them. A pre-message therefore has both registrations, the one of
the session that encrypted it (`enc`) and the one that it names (`reg`); a row of a
mailbox has `opens`, whether a session of the install encrypted it. A
`RETRY_CONFLICT` for a pre-message with a repair mark writes no row (`HoldPre`);
for a device message it has the effect of a lost answer (`LoseDevice`).
 External actions are the recipients (`Install`, also a reinstall
under a new registration, `Unlink`, `InboundPreKey`) and the Relay, which refuses
a post for another registration (`Deliverable`) and stores an ID once
(`Delivered`). `met` marks a post to a device that no session reached at the
preparation, or that came back under a new registration with a session of its
own while the attempt ran: ledger, session and registration are read one after the
other, so such a device can get the message without its key, or a distribution that
it cannot open, and asks for a retry. `Misled` is a device with such a
distribution; its row lasts until that retry, so later sends skip it. `InboundPreKey` also stands for a retry request, which deletes the rows of
the device as well. The ledger is read in one step with the encryption that depends
on it.
A device that left does not come back under its ID.

## 3. Runs

All runs end with the whole state space explored.

| Run | Instance | Shows |
| --- | --- | --- |
| `fan_out` | 4 calls, 2 slots, 2 stop signals, one call without | slot accounting, queue, no idle slot, service in the order of arrival, every waiter ends |
| `session_delivery` | 3 messages per chain, 4 DH ratchets, 5 receiver chains, gap of 1, so no eviction, no expiry (`RoomForAll`) | every message opens, no wrong duplicate, no key used twice |
| `session_limits` | 1 key per chain, 1 chain, expiry after 0 ticks, 3 DH ratchets | replay, erasure, roots in step, bounds, chain array |
| `record_replay` | archive of 2, 3 sessions, 2 DH ratchets, 1 `archiveSession`; symmetry of the two devices | every message opens in some session, archive limit, replay, fresh sending keys |
| `queue_order` | 2 senders in one group, one message flaky, one sender-key message; one restart or failure, time passes at any moment | nothing lost, order, offers at the cap bounded |
| `queue_caller` | caller content and denied Relay content in one group; discard, completion, `processPending`, one restart or failure | revision check; what the application removes at any await of a pass stays removed |
| `queue_live` | content that always fails before a message in its group; one restart or failure; fairness | every record ends, the message reaches the hook |
| `braid` | header and second ciphertext of 1 chunk, key and first ciphertext of 2; 5 and 6 messages; 2 skipped keys | agreement on secrets and message keys, late messages, bounded skipped keys, no stall before both sides have the first secret |
| `sender_keys` | 3 keys, 4 distributions, chains of 2, 2 states, 2 skipped keys, gap of 1 | refinement of `GroupChannel`, opening, no eviction while there is room |
| `group_send` | 2 sends to a member with 2 devices, one of them installed later; 3 changes of devices or key, 1 fault; fairness | handoff ledger, key before message, completion |

Runs expected to fail, each with its finding in PROJECT.json: `record_skipped` (a
message opens twice, from the copy that the skipped-key path leaves in the archive) and
`braid_stall` (after an epoch the message that would tell the peer carries no
chunk and does not reach its state machine, so the roles never swap).

Five more deviations from the code's comments, the first three of which TLC shows
when constants are changed, and the fourth when a property is.
`MCSessionRatchet.cfg` with `MaxMessageKeys = 1` and `MaxSkip = 3` violates
`DuplicateWasAccepted`: a late message whose key was evicted is refused as a
duplicate, although `chains.ts:153` calls that branch replay detection.
`MCReceiveQueueLive.cfg` violates `EveryReceiveEnds` with `Origin <- CallerFirst` and
`Content <- GroupContent` (no timer is armed for the expiry of content handed to
the caller) and with `PagesFail = TRUE` (a pass whose page read fails arms no timer), although
`receive-queue.ts:34-36` lists the due time of the records among the causes of a
pass. So `queue_live` shows that records end for content of the Relay and while page
reads succeed, not beyond. `MCGroupSend.cfg` violates `RowIsHandoff` without its
exception (`m.opens` alone): the device reinstalls and starts a session between the
encryption of its pre-message and the read of its registration, the Relay accepts the
post, and the row says that the new install has the key, although
`signal-service-cipher.ts:7262-7264` says "Each pre-message carries the registration
ID of the session that encrypted it". And in `SenderKeys` the eviction takes the lowest chain index over all keys
of the sender, so after a rotation the keys of the new sender key go first;
`skipped-sender-key.ts:89-91` takes index order for the order of ratcheting.

`SessionRatchet` and `SessionCipher` use the same names (`ReplayRefused`,
`SendKeyFresh`, `EveryMessageOpens`, `TypeOK`) for the same promise, of one
session and of a record of sessions. `ReplayRefused` holds of one session and not of
a record; what holds of a record is `OpensOnce`, for every session that was not
reopened with a skipped key, and `SendKeyFresh` has the same exception.

Bounds and why they are enough. The ratchet alternates, so 3 or 4 DH steps give
each side a chain that is current, one that is closed and one that is evicted;
three messages in a chain give a gap with a message before and after it. A record
needs two base keys to confuse and two archived ones to reopen one after the
other; the third fills an archive of two, so that its limit drops one.
Two receive records are what order needs, one to wait and one to overtake; the
attempt cap is 2, so that a record is below, at, and above it. The braid gets as
many messages as one exchange needs under some losses and the start of the next;
two chunks are what a component needs to be incomplete, out of order and
complete. Three sender keys over two states evict one, and four distributions
allow a late copy of it; two skipped keys, so that one that stays and one that goes
can be told apart. (With chains of two every skipped key has index 0: the run shows
that none goes while there is room, not which one goes when there is none.) Three changes are what the second phase of pre-messages
in a group send needs (a reinstall, a session started by the device, another
reinstall); a second send shows what the ledger of the first one left. One fault
per behaviour keeps the run short; faults of the two devices interleave with
every change. The queue's clock runs to the expiry of the records; `Backoff` is one tick and `MaxAge` two or
three, so that a record can be retried before it expires. A failure happens only
while its retry time is on the clock (`Fails`); without this the end of the clock
would look like a lost record. Starts and failures share the bound `MaxTroubles`:
an instance has a restart or a failure after its first start. `Prompt = TRUE` lets time pass only when nothing
is under way (in the runs where the timing of a slow step is not the question;
`queue_order` lets it pass at every moment). `CHECK_DEADLOCK FALSE` is set where
the system rests once all calls are made, all sessions started and archived, all records
gone and all sends complete.

Fairness. In `BoundedFanOut`, a granted call resumes (a microtask) and a relay
request settles (it has a deadline). In `ReceiveQueue`, the steps of a pass are
fair because hooks are bounded by `receiveHookTimeoutMs`, timers fire, a receive
path and a receipt request settle, time passes, and the application starts the
client again and registers its hook. In `GroupSend`, the event loop runs the steps
of a started attempt (a request has a deadline) and the caller replays a send
without a result. `SpqrBraid` states no fairness: `EpochCompletes` is an invariant,
that until both sides have the first secret some turn still moves the exchange.
Not fair: arrivals, group fetches, calls of the application, changes of devices
and failures.

## 4. Proofs

Every theorem is for all values of the constants: any number of calls, records,
receivers and messages, any limits, and also with the bounds of the runs as
arbitrary naturals. Assumptions are the named `ASSUME`s of the modules
(`FanOutAssumption`, `RatchetAssumption`, `PartiesDiffer`, `BoundsAssumption`,
`SenderKeysAssumption`, `QueueAssumption`, `GroupSendAssumption`, `BraidAssumption`,
`CipherAssumption`, `NoKeyAssumption`):
limits are naturals, storage limits and the
attempt cap are positive, the sets of calls and of records are finite, maps have
the types the code gives them, and the constants for "no record" are not
records (or, for an unset key, not keys). The theorems `MessagesOpen` and
`DuplicatesWereAccepted` of one session, and `MessagesOpen` of the session records,
have the hypothesis `RoomForAll` of their module, which the instances of
`session_delivery` and `record_replay` meet. What is assumed of cryptography is in the symbolic keys: distinct inputs
give distinct keys.

**InductionLemmas.** The prover cannot instantiate an induction theorem that takes
an operator. The lemmas here take a set instead: a set of numbers that has the
first one and with each its successor is the whole interval. From this follow that
recursive functions on an interval meet their equation, and the facts about the
*place* of an element in a finite strict order (places are distinct, without gaps,
and grow with the order) and about the *rank* of a number in a finite set. Both
eviction (who is the oldest) and the visiting order of a pass rest on them.

**SessionRatchetProofs**: `ReplaysAreRefused`, `KeysAreErased`,
`SendKeysAreFresh`, `TypeCorrect`, `RootsStayInStep`, `ChainsAndKeysMatch`,
`StorageIsBounded`, and, under `RoomForAll`, `MessagesOpen` and
`DuplicatesWereAccepted`. None of the first three is inductive: that no stored key opens an
accepted message says nothing about keys still to be stored or chains still to
be derived. The invariant `IInv` measures a key by the length of the root its
chain comes from. Every key a party stores or has used is *behind* its receiving
chain: it belongs to a root that is not longer than the present one, and if its
chain is the present one, its number is below `Nr`. A DH ratchet appends to the
root, so both new chains are longer than all before, and no old key returns.
One lemma per path of `Receive` (skipped key, in chain, with ratchet) shows that
an accepted message was not accepted before and leaves the state behind it
(`SkippedOpensOnce`, `ChainOpensOnce`, `RatchetOpensOnce`); the lemmas before
them say what the operators on stored keys add and remove. The bounds on the
counters need their own invariant `TInv`, which ties the counters of messages
under way to `MaxCounter`. The roots need to know which public keys the parties
and the messages under way carry: the party that is one step behind has the key
that the other ratcheted with. Storage needs that the places of the chains are
numbered without gap (`Numbered`), so that dropping the lowest ones and closing up
keeps exactly as many as the limit.

That a late message opens is the other half, what a session does *not* lose. It
needs room (`RoomForAll`: behaviours are bounded by messages per chain, ratchet steps
and time, and the three limits of the storage are above these bounds); without it
both properties are false, as the code's limits intend. The invariant `DInv` has a
`Link` per direction: a message under way is in the store of the receiver, or ahead
on its receiving chain, or ahead on the chain which the next ratchet step derives
(`Pending`). It needs to know which party's root is one step ahead (`Leads`), that
the sender's messages of one ratchet key agree on `previousCounter`, by which
the receiver closes its chain, and that the key of the sender's chain is unknown to a
receiver that has yet to ratchet, so that no processed chain hides it. The lemmas `ChainDelivers`, `CloseChainDelivers`, `RatchetDelivers` and
`ReceiveDelivers` say what each part of `Receive` stores. The same invariant gives `DuplicatesWereAccepted`: the branch that
calls a message a duplicate is reached only by a key that was stored and used.

**BoundedFanOutProofs**: `SlotsAreCounted`, `QueueIsOfWaitingCalls`, `NoSlotIsIdle`,
`NobodyOvertakes`, `TypeCorrect`. `NobodyOvertakes` is the order of service: a call that
starts was the first of the queue, and a new call starts at once only if nobody waits.
The invariant joins the accounting (the counter is
the number of calls that hold a slot), the queue (exactly the waiting calls, each
once) and the absence of an idle slot; each needs the others, since a release hands its
slot to the head of the queue without touching the counter, and an abort takes
calls out of the middle of the queue.

**SenderKeysProofs**: `KeysAreHeldOnce`, `HeldMessagesOpen`,
`NothingForgottenEarly`, and `ChannelIsImplemented`, that every step of the sender-key
manager is a step of `GroupChannel` or a stutter. The invariant says that all copies of
a key (in records, distributions and messages under way) have one generation and
that every chain index, message and skipped key is within the chain of its key;
without it an installation could not be mapped to the right it gives.

**ReceiveQueueProofs**: `NothingIsLost`, `OffersAreBounded`, `TypeCorrect`,
`RemovalsStand`, `DeliveriesAreOrdered`. A pass, a receive path and a receipt
work on copies of what the store held when they read it, so the invariant is about
copies. `Sound`: what a copy says about its stage stays true, because the
application's acceptance is never taken back. `CopyOK`: a copy of a record of the
Relay *is* the stored record, or the record is gone for good; only the pass and
removals write such a record, and a processed envelope is not admitted again. (It
is false for records of the caller, which two actors write: there the revision check
decides, and the invariant asks only for `Sound`.) `HeadOK` is what the pass has found
out before each of its awaits. `OfferInv` is an account: for a record at the cap, the
attempts so far, the waiting calls, the offer of a called pass that still has the
record before it and the one that this start has left never exceed the cap plus the starts
and calls made. `Start` pays for its offer with the start it counts, a
call with the call it counts, and forgetting that a record was offered is harmless
because a record of the Relay is forgotten only when it is gone. `RemovalsStand` is that
the application has the last word: every copy of a record that it completed or
discarded has a revision that the store no longer has, so no later write of a pass,
a receive path or a settled receipt takes effect. (That no receipt is sent for such a
record is proved here only: no content of `queue_caller` owes a receipt.) The order needs
`OrderInv`: each listed record of the Relay is still before the pass, or is settled (gone, accepted,
consumed, or at the cap), or its conversation carries a mark that is not later
than it. The conversation of a record changes when its content is
restored, and the proof shows that this happens only while the pass is at the record.

**GroupSendProofs**: `RowsAreHandoffs`, `FirstAttemptsOpen`, `KeysComeFirst`,
`CompletedSendsReachedAll`, `TypeCorrect`. The properties are about mailboxes, which the
code cannot see: it decides from rows, stored pre-messages, progress entries and the
registration of a session. The invariant ties each of them to a mailbox through one
condition, `Reached`: if the install of a device is still the one of a registration,
its mailbox has the key. A reinstall or a leave empties the mailbox and voids the
condition at once, so that it survives every step of the Relay (`Grows`), and this one
lemma covers the stale reads between the steps of an attempt. A row promises `Reached`
of its registration, an accepted pre-message of its own, and a device message of the
one that it names, or else a pre-message for that install or a later one waits
(`CoverOK`); the barrier between the phases discharges the second case. That the
distribution opens is a second thread: an encrypted pre-message that is not named yet,
and a named one, is of the session that the device has or had then, or the device is in
`met` (`TaskOK`, `PreOK`), and the mailbox inherits this (`MailOK`). `IdOK` keeps
the ID of a repaired pre-message apart from every accepted one. `TaskOK` is what a
task has found out at each point of the attempt; a step of one device has to show its
own `TaskOK` only (`OneDeviceStep`). `FirstOK` is why the exception-free property
needs the attempt of the preparation: while it holds the turn of the group, no
distribution can be later than its send.

**SpqrBraidProofs**: `SecretsAlwaysAgree`, `KeysAreUsedOnce`, `HeldKeysStayBounded`,
`FirstEpochCompletes`, `ChunksAreTaken`, `MessagesOpen`, `BraidStallsForGood`. The properties compare the two sides, and
the two sides share nothing but the chunks under way. The invariant therefore says
what each value must be as a function of the epoch alone: the key pair, the secret
and the root of an epoch (`KeyPair`, `EpochSecret`, `Roots`), and every encoder,
decoder and chunk under way holds the canonical payload of its component and epoch.
`InStep` lists the pairs of states the two agents can be in within an epoch, and
`PairOK` the one pair across two epochs, so that a late or overtaken chunk is either
ignored or the one expected; from this follows that the peer's chunks are never
refused (`ChunksAreTaken`). The message chains need `SentUnder` (no sent message has an
epoch above the sending epoch or an index above the send counter of its chain) and
`UsedUp` (an accepted index is not above the receive counter of its chain, and its key is
not held), which survive the change of
epoch, pruning and trimming. The bound on held keys is that of a window of indices behind
the counter. `FirstEpochCompletes` goes through the pairs in step and shows that the
next chunk of the encoder is one that the decoder does not have. `MessagesOpen` has no hypothesis: whatever the limits, a message that does not open was
given up by one of them. Its invariant `DInv` adds to `IInv` which chains a
party keeps (`ChainsKept`), that a receive counter is an index that the peer has sent
(`Opened`), and that the index of each message under way is ahead of the
receive counter, or held, or below the horizon (`Available`); `Retains` is what deriving,
pruning and trimming keep of this.
`BraidStallsForGood` makes the finding of the run `braid_stall` a theorem: because messages
of mode "none" do not reach the state machine, no behaviour of any length mixes a
second secret into a root. The other invariants and their lemmas are stated
for every epoch all the same.

**SessionCipherProofs**: `Invariance`, `TypeCorrect`, `OpensAtMostOnce`,
`SendKeysAreFresh`, and, under `RoomForAll`, `MessagesOpen`. One session refuses a replay by the argument of
SessionRatchetProofs, whose lemmas are stated here for a session with a given base
key; what is new is that a record tries several sessions. The invariant says that
every chain of a session starts with the secret of its base key (`Chain`,
`WellFormed`), so that a session opens only messages with its own base key
(`ChainNamesBase`, `AttemptOK`); that a session whose base key was not reopened knows
all messages of its base key that the device accepted and sent (`UpToDate`); and that
two sessions of a record share a base key only when a skipped key reopened one. A
replay could still establish a session of its own: not so, since every accepted
message from a session of the peer has its base key among the used-up prekeys, and no
own base key is drawn twice (`Known`). `OutcomeCases` reduces the retry loop to three
ways to succeed: the current session, an archived one, a new one. The attempt to prove
`ReplayRefused` without the exception failed at the path of a skipped key, which writes
over the current session and leaves the archived copy where it is; TLC then found the
replay with two archived sessions (run `record_skipped`).

`MessagesOpen` needs both devices at once. Its invariant `DInv` gives every base key
that was drawn, and that neither device reopened, a *thread*: one state at each device,
linked in both directions by the `Link` of SessionRatchetProofs (`ThreadOf`, two
`Half`s). The state is that of the session in the record, the untouched responder
session while the device still has its prekeys, or, once the record has forgotten the
session, just the last state it had, so that the invariant survives dropping and
overwriting. Every session of the record with that base key is in this state
(`OnlyState`); archiving, promotion and the establishment of other sessions only move
sessions that were there (`Moves`). What the record adds is that a wrong session could
end the search. It does not: a session opens nothing of another base key, and calls a
message a duplicate only if it has heard of its ratchet key (`NoDuplicate`), while no
device uses a ratchet key in two sessions (`TagsOK`, `HeardOK`); so every other
session fails, and `decrypt()` goes on to the right one or establishes it
(`WaitingOpens`, `WaitingReturned`). `Early` covers the initiator before its first
answer: it has a receiving key but has received nothing, and its peer has
ended no chain yet. The attempt to find this invariant showed that
the property was false of sessions that a skipped key reopened (with larger bounds
than those of the run); it excepts them since.

The inductive invariants were checked with TLC as invariants of the runs' instances
before they were proved, but for this last one: it asserts states of sessions that the
records no longer hold, which TLC cannot enumerate. The property itself is checked.

Only model-checked are the liveness properties, since fairness and ENABLED are out of
the prover's reach: `EveryWaiterServed`, `EveryReceiveEnds`, `MessagesDelivered`,
`EverySendCompletes`.

## 5. Plan

1. (done) fan-out, ratchet, session records, receive queue.
2. (done) SPQR braid; sender keys with their abstract channel; the identified path
   of the group outbox.
3. (done) Proofs of the fan-out, of the ratchet and its storage, of the sender keys with
   their refinement, of the safety of the receive queue, of the group sends and of the
   SPQR braid.
4. (done) Proofs of `OpensOnce`, `SendKeyFresh` and `TypeOK` of `SessionCipher`; of the
   delivery of late messages in the ratchet, in the session records and in the SPQR
   braid; of its stall.
5. Receipt join and receive admission, as extensions of `ReceiveQueue`.
6. Retry requests with the session reset, composed with `SessionCipher`; in
   `GroupSend` they would replace the part of `InboundPreKey` that stands for them.
7. The other paths of the group outbox (shared sealed body, declared device sets)
   and the direct sends of `send-intent-driver.ts`.
8. Prekey rotation and refill.

## 6. Not modelled

Byte formats and cryptographic primitives, zero-knowledge credentials and
usernames (pure algorithms over byte strings); the database drivers (their
transactions and revision checks are taken as atomic); network transports (their
effect is a delivery, a redelivery, a loss or a failure); media, safety numbers,
blocking. In the modelled parts: trust decisions on identity keys, registration
IDs and session age checks, the last-resort Kyber prekey (only its refused second
use), the resend outcome records and the receipt decision of the Relay in the
queue, several pages in one pass; a receiver's `deleteSenderKey` and
`deleteAllSenderKeysForGroup`; the direct mode of SPQR, the erasure code and
the serialization of its messages; the signatures of sender keys, which always
verify, and the archive of the sender's own earlier keys, which nothing reads; of
group sends the shared sealed body, declared device sets, sync copies, the send
log and the posting deadline.
