------------------------------ MODULE GroupSend ------------------------------
(***************************************************************************)
(* The group sends of one client to one group: sendGroupWithExactOutbox of *)
(* client/group-outbox.ts with the parts of signal-service-cipher.ts that  *)
(* it calls, the handoff ledger and the stored intents.  The posts are     *)
(* identified and undeclared: there is no shared body, and the Relay       *)
(* compares the registration that a post names and not device sets.  Sync  *)
(* copies, the send log and the posting deadline are left out.             *)
(*                                                                         *)
(* A send encrypts once, at the chain index of its distribution.  Each     *)
(* device with no handoff row gets that distribution in a pre-message, and *)
(* all pre-messages settle before the first post of the group message.     *)
(* The intent is stored before the first post, and a later attempt replays *)
(* it.  An attempt runs in the sender-key turn of the group, so at most    *)
(* one runs, with one task for each device.  A row or an intent write is   *)
(* one step, and so is a post with its answer and its progress entry.      *)
(***************************************************************************)
EXTENDS Naturals, Sequences

CONSTANTS
  Devices,     \* the devices of the other members
  Account,     \* the member of each device
  MaxSends,    \* bound: the sends, numbered in the order of their preparation
  None,        \* no intent, attempt or message
  Listed,      \* the devices that the Relay lists at the start
  MaxChanges,  \* bound: the installs, leaves, inbound sessions and rotations
  MaxFaults    \* bound: lost answers, failed refreshes, skipped devices, crashes

(* A stored pre-message: the registration of the session that encrypted    *)
(* it, the registration that it names, the chain index of its              *)
(* distribution, its message ID, and whether it is marked as repaired.     *)
PreMessages == [enc : Nat, reg : Nat, index : Nat, n : Nat \ {0}, repaired : BOOLEAN]

(* An intent: pre has the pre-messages and dev the registrations of the    *)
(* device messages, issued counts the IDs, accepted is the progress.  met  *)
(* has the devices that no session reached, or that came back meanwhile.   *)
Intents ==
  [status : {"prepared", "stored", "complete"}, key : Nat, index : Nat,
   members : SUBSET Devices, met : SUBSET Devices,
   accepted : SUBSET (Devices \X Nat), pre : [Devices -> PreMessages \union {None}],
   dev : [Devices -> Nat \union {None}], issued : [Devices -> Nat]]

ASSUME GroupSendAssumption ==
  /\ {MaxSends, MaxChanges, MaxFaults} \subseteq Nat
  /\ DOMAIN Account = Devices
  /\ Listed \subseteq Devices
  /\ None \notin Nat \union PreMessages \union Intents

VARIABLES
  linked,    \* the devices that the Relay lists
  reg,       \* by device, the registration of its install, 0 before the first
  mailbox,   \* by device, what the Relay holds or held for its install
  session,   \* by device, the registration of the current session, 0 without
  own,       \* the own sender key and its chain index
  rows,      \* the handoff rows
  intent,    \* by send, the intent of the outbox
  attempt,   \* the attempt that holds the turn of the group
  faults,    \* how many faults have happened
  changes    \* how many of those changes have happened

relayVars == <<linked, reg, changes>>
vars == <<linked, reg, mailbox, session, own, rows, intent, attempt, faults, changes>>

Sends == 1 .. MaxSends

Init ==
  /\ linked = Listed
  /\ reg = [d \in Devices |-> IF d \in linked THEN 1 ELSE 0]
  /\ mailbox = [d \in Devices |-> <<>>]
  /\ session = [d \in Devices |-> 0]
  /\ own = [key |-> 1, index |-> 0]
  /\ rows = {}
  /\ intent = [s \in Sends |-> None]
  /\ attempt = None
  /\ faults = 0
  /\ changes = 0

Fault ==
  /\ faults < MaxFaults
  /\ faults' = faults + 1

HasStatus(s, status) == intent[s] # None /\ intent[s].status = status

RowsWithout(d) == {r \in rows : r.dev # d}

-----------------------------------------------------------------------------
(* The handoff of a key to the devices that need it.                       *)

HandedOff(d, key) ==
  session[d] # 0 /\ [key |-> key, dev |-> d, reg |-> session[d]] \in rows

(* devicesNeedingKey.  A device with a pending pre-message needs no other. *)
Needing(listed, i) ==
  {d \in listed : ~HandedOff(d, i.key) /\ i.pre[d] = None}

(* The session step gives a session to each needing device that it reaches.*)
Sessions(needing, skipped) ==
  [d \in Devices |-> IF d \in needing \ skipped /\ session[d] = 0
                       THEN reg[d] ELSE session[d]]

(* No listed device of a member has or gets the key.                       *)
HandoffFails(listed, needing, skipped) ==
  \E d \in skipped :
    /\ \A e \in needing : Account[e] = Account[d] => e \in skipped
    /\ \A e \in listed \ needing : Account[e] # Account[d]

(* The devices without a session that the session step can fail to reach.  *)
Skippable(needing) ==
  {{}} \union
  (IF faults < MaxFaults THEN SUBSET {d \in needing : session[d] = 0} ELSE {})

Paid(skipped) == faults' = IF skipped = {} THEN faults ELSE faults + 1

(* Mutant: a repair on the first attempt gives the current distribution. *)
DistributionCurrent(i, first) ==
  IF own.key = i.key THEN {own.index} ELSE {}

(* Mutant: only the attempt that prepared the send has a distribution. *)
DistributionFirstOnly(i, first) == IF first THEN {i.index} ELSE {}

(* The chain index of the distribution that an attempt gives.  The attempt *)
(* that prepared the send kept its own.  A replay has the current one, and *)
(* none after a rotation.                                                  *)
Distribution(i, first) ==
  IF first THEN {i.index} ELSE IF own.key = i.key THEN {own.index} ELSE {}

(* The intent with a new pre-message for each device, under a new ID.  The *)
(* attempt encrypted it before, and names the session of this moment.      *)
WithPre(i, devices, index, repaired) ==
  [i EXCEPT
    !.pre = [d \in Devices |->
      IF d \in devices
        THEN [enc |-> attempt.enc[d], reg |-> session[d], index |-> index,
              n |-> i.issued[d] + 1, repaired |-> repaired]
        ELSE i.pre[d]],
    !.issued = [d \in Devices |-> i.issued[d] + (IF d \in devices THEN 1 ELSE 0)]]

(* prepareIntentSenderKeyHandoffs: no pre-message without a distribution.  *)
WithHandoffs(i, devices, distribution, repaired) ==
  IF distribution = {} THEN i
  ELSE WithPre(i, devices, CHOOSE index \in distribution : TRUE, repaired)

(* A device message names the registration of the current session.         *)
WithDevice(i, devices, sessions) ==
  [i EXCEPT !.dev = [d \in Devices |-> IF d \in devices THEN sessions[d] ELSE i.dev[d]]]

WithoutDevices(i, devices) ==
  [i EXCEPT !.pre = [d \in Devices |-> IF d \in devices THEN None ELSE i.pre[d]],
            !.dev = [d \in Devices |-> IF d \in devices THEN None ELSE i.dev[d]]]

Targeted(i) == {d \in Devices : i.dev[d] # None}

-----------------------------------------------------------------------------
(* A new send and a replay.                                                *)

(* The tasks of the pre-message phase.                                     *)
PreTasks(i) == [d \in Devices |-> IF i.pre[d] # None THEN "pre" ELSE "idle"]

DeviceTasks(i) == [d \in Devices |-> IF d \in Targeted(i) THEN "device" ELSE "idle"]

Attempt(s, first, phase, tasks) ==
  [send |-> s, first |-> first, phase |-> phase, task |-> tasks,
   refreshed |-> {}, removed |-> {}, enc |-> [d \in Devices |-> 0]]

(* An attempt that encrypts the distribution for some devices, and has yet *)
(* to read the registrations of their sessions.                            *)
Encrypting(a, phase, devices, sessions) ==
  [a EXCEPT !.phase = phase, !.enc = sessions,
            !.task = [d \in Devices |-> IF d \in devices THEN "name" ELSE "idle"]]

(* prepareGroupSenderKeyPayload, up to the encryption of the pre-messages: *)
(* the group message consumes the chain index, also when the handoff then  *)
(* fails the send.                                                         *)
PreparePayload(s) ==
  LET fresh == [status |-> "prepared", key |-> own.key, index |-> own.index,
                members |-> linked, met |-> {}, accepted |-> {},
                pre |-> [d \in Devices |-> None], dev |-> [d \in Devices |-> None],
                issued |-> [d \in Devices |-> 0]]
      needing == Needing(linked, fresh)
      idle == [d \in Devices |-> "idle"]
  IN  /\ attempt = None
      /\ intent[s] = None /\ \A t \in 1 .. s - 1 : intent[t] # None
      /\ own' = [own EXCEPT !.index = @ + 1]
      /\ \E skipped \in Skippable(needing) :
           LET sessions == Sessions(needing, skipped)
           IN  /\ session' = sessions
               /\ Paid(skipped)
               /\ IF HandoffFails(linked, needing, skipped)
                    THEN UNCHANGED <<intent, attempt>>
                    ELSE /\ intent' = [intent EXCEPT ![s] = [fresh EXCEPT !.met = skipped]]
                         /\ attempt' = Encrypting(Attempt(s, TRUE, "handoff", idle),
                                                  "handoff", needing \ skipped, sessions)
      /\ UNCHANGED <<relayVars, mailbox, rows>>

Current == intent[attempt.send]

SetIntent(i) == intent' = [intent EXCEPT ![attempt.send] = i]

Settled(task) == {d \in Devices : attempt.task[d] = task}

(* prepareGroupSenderKeyPayload, from the reads of the registrations on.   *)
NamePayload ==
  /\ attempt # None /\ attempt.phase = "handoff"
  /\ SetIntent(WithPre(Current, Settled("name"), Current.index, FALSE))
  /\ attempt' = Attempt(attempt.send, TRUE, "prepared", [d \in Devices |-> "idle"])
  /\ UNCHANGED <<relayVars, mailbox, session, own, rows, faults>>

(* storeNewGroupIntent, after the payload: the device messages name the    *)
(* sessions of this moment.                                                *)
StoreIntent ==
  /\ attempt # None /\ attempt.phase = "prepared"
  /\ LET i == intent[attempt.send]
         stored == [WithDevice(i, i.members, session) EXCEPT !.status = "stored"]
     IN  /\ intent' = [intent EXCEPT ![attempt.send] = stored]
         /\ attempt' = Attempt(attempt.send, attempt.first, "pre", PreTasks(stored))
  /\ UNCHANGED <<relayVars, mailbox, session, own, rows, faults>>

(* Mutant: a device that left stays in the intent. *)
UnlistedKept(i) == {}

(* listedGroupDeviceChange. *)
Unlisted(i) == {d \in Devices : (i.pre[d] # None \/ i.dev[d] # None) /\ d \notin linked}

(* rereadStoredGroupDevices, up to the encryption of the pre-messages.     *)
(* Until its write, the attempt keeps the devices that it did not reach,   *)
(* that are new (refreshed) and that the list no longer shows (removed).   *)
Replay(s) ==
  /\ attempt = None
  /\ HasStatus(s, "stored")
  /\ LET i       == intent[s]
         added   == linked \ Targeted(i)
         listed  == {d \in linked : \E a \in added : Account[a] = Account[d]}
         needing == IF Distribution(i, FALSE) = {} THEN {} ELSE Needing(listed, i)
     IN  \E skipped \in Skippable(needing) :
           LET sessions == Sessions(needing, skipped)
               tasks == [d \in Devices |-> IF d \in skipped THEN "skipped"
                                           ELSE IF d \in needing THEN "name" ELSE "idle"]
           IN  /\ session' = sessions
               /\ Paid(skipped)
               /\ attempt' = IF HandoffFails(listed, needing, skipped) THEN attempt
                             ELSE [Attempt(s, FALSE, "reread", tasks) EXCEPT
                                     !.refreshed = added, !.removed = Unlisted(i),
                                     !.enc = sessions]
  /\ UNCHANGED <<relayVars, mailbox, own, rows, intent>>

(* rereadStoredGroupDevices, from the reads of the registrations on, then  *)
(* the attempt on the stored intent.                                       *)
Reread ==
  /\ attempt # None /\ attempt.phase = "reread"
  /\ LET i    == Current
         kept == WithoutDevices([i EXCEPT !.met = @ \union Settled("skipped")], attempt.removed)
         read == WithDevice(WithHandoffs(kept, Settled("name"), Distribution(i, FALSE), FALSE),
                            attempt.refreshed, session)
     IN  /\ SetIntent(read)
         /\ attempt' = Attempt(attempt.send, FALSE, "pre", PreTasks(read))
  /\ UNCHANGED <<relayVars, mailbox, session, own, rows, faults>>

-----------------------------------------------------------------------------
(* The posts.                                                              *)

Running(tasks, d) == attempt # None /\ attempt.task[d] \in tasks

Move(d, task) == attempt' = [attempt EXCEPT !.task[d] = task]

(* The Relay refuses a registration that is not the one of the install.    *)
Deliverable(d, named) == d \in linked /\ named \in {0, reg[d]}

Stale(d, named) == d \in linked /\ named \notin {0, reg[d]}

Holds(d, n) ==
  \E p \in DOMAIN mailbox[d] : mailbox[d][p].send = attempt.send /\ mailbox[d][p].n = n

(* The Relay holds each message ID once.                                   *)
Delivered(d, n, row) ==
  IF Holds(d, n) THEN mailbox[d] ELSE Append(mailbox[d], row)

(* A pre-message opens when a session of the install encrypted it.         *)
PreRow(d) ==
  [send |-> attempt.send, n |-> Current.pre[d].n, key |-> Current.key,
   index |-> Current.pre[d].index, first |-> FALSE, met |-> d \in Current.met,
   opens |-> Current.pre[d].enc = reg[d]]

GroupRow(d) ==
  [send |-> attempt.send, n |-> 0, key |-> Current.key, index |-> Current.index,
   first |-> attempt.first, met |-> d \in Current.met, opens |-> TRUE]

(* One post under the message ID n: the Relay accepts it, unless the       *)
(* stored progress already has its acceptance.                             *)
Posted(d, n, named, row) ==
  IF <<d, n>> \in Current.accepted
    THEN UNCHANGED <<mailbox, intent>>
    ELSE /\ Deliverable(d, named)
         /\ mailbox' = [mailbox EXCEPT ![d] = Delivered(d, n, row)]
         /\ SetIntent([Current EXCEPT !.accepted = @ \union {<<d, n>>}])

(* The answer is lost, whether or not the Relay stored the message.        *)
PostLost(d, n, named, row) ==
  /\ <<d, n>> \notin Current.accepted
  /\ Fault
  /\ \/ UNCHANGED mailbox
     \/ /\ Deliverable(d, named)
        /\ mailbox' = [mailbox EXCEPT ![d] = Delivered(d, n, row)]
  /\ Move(d, "failed")
  /\ UNCHANGED <<relayVars, session, own, rows, intent>>

(* postPreMessage. *)
PostPre(d) ==
  /\ Running({"pre", "preAgain"}, d)
  /\ Posted(d, Current.pre[d].n, Current.pre[d].reg, PreRow(d))
  /\ Move(d, "row")
  /\ UNCHANGED <<relayVars, session, own, rows, faults>>

LosePre(d) ==
  /\ Running({"pre", "preAgain"}, d)
  /\ PostLost(d, Current.pre[d].n, Current.pre[d].reg, PreRow(d))

(* The Relay holds a message under the ID of a repaired pre-message: that  *)
(* is no acceptance, so there is no handoff row.                           *)
HoldPre(d) ==
  /\ Running({"pre", "preAgain"}, d)
  /\ <<d, Current.pre[d].n>> \notin Current.accepted
  /\ Current.pre[d].repaired /\ Deliverable(d, Current.pre[d].reg)
  /\ Holds(d, Current.pre[d].n)
  /\ Move(d, "confirm")
  /\ UNCHANGED <<relayVars, mailbox, session, own, rows, intent, faults>>

(* NOT_FOUND, and the device list no longer shows the device.              *)
RemovedPre(d) ==
  /\ Running({"pre", "preAgain"}, d)
  /\ <<d, Current.pre[d].n>> \notin Current.accepted
  /\ d \notin linked
  /\ attempt' = [attempt EXCEPT !.task[d] = "confirm", !.refreshed = @ \ {d},
                                !.removed = @ \union {d}]
  /\ UNCHANGED <<relayVars, mailbox, session, own, rows, intent, faults>>

(* repairRejectedPreMessageInTurn, up to the encryption: the archive of    *)
(* the refreshed session deletes the rows of the device.                   *)
RepairPre(d) ==
  /\ Running({"pre"}, d)
  /\ <<d, Current.pre[d].n>> \notin Current.accepted
  /\ Stale(d, Current.pre[d].reg)
  /\ session' = [session EXCEPT ![d] = reg[d]]
  /\ rows' = RowsWithout(d)
  /\ attempt' = [attempt EXCEPT !.refreshed = @ \union {d}, !.enc[d] = session'[d],
                    !.task[d] = IF Distribution(Current, attempt.first) = {}
                                  THEN "confirm" ELSE "namePre"]
  /\ UNCHANGED <<relayVars, mailbox, own, intent, faults>>

(* repairRejectedPreMessageInTurn, from the read of the registration on.   *)
NamePre(d) ==
  /\ Running({"namePre"}, d)
  /\ SetIntent(WithHandoffs(Current, {d}, Distribution(Current, attempt.first), TRUE))
  /\ Move(d, "preAgain")
  /\ UNCHANGED <<relayVars, mailbox, session, own, rows, faults>>

(* refreshStaleSession archives the session, and then gets no new one.     *)
FailRefresh(d) ==
  /\ \/ Running({"pre"}, d) /\ Stale(d, Current.pre[d].reg)
        /\ <<d, Current.pre[d].n>> \notin Current.accepted
     \/ Running({"device"}, d) /\ Stale(d, Current.dev[d])
        /\ <<d, 0>> \notin Current.accepted
        /\ session[d] \in {0, Current.dev[d]}
  /\ Fault
  /\ session' = [session EXCEPT ![d] = 0]
  /\ rows' = RowsWithout(d)
  /\ Move(d, "failed")
  /\ UNCHANGED <<relayVars, mailbox, own, intent>>

(* A second refusal of the device, or a device message that finds no       *)
(* device, fails the task.                                                 *)
Refused(d) ==
  /\ \/ Running({"preAgain"}, d) /\ Stale(d, Current.pre[d].reg)
        /\ <<d, Current.pre[d].n>> \notin Current.accepted
     \/ Running({"deviceAgain"}, d) /\ Stale(d, Current.dev[d])
        /\ <<d, 0>> \notin Current.accepted
     \/ Running({"device", "deviceAgain"}, d) /\ d \notin linked
        /\ <<d, 0>> \notin Current.accepted
  /\ Move(d, "failed")
  /\ UNCHANGED <<relayVars, mailbox, session, own, rows, intent, faults>>

(* Mutant: the row names the session of the moment. *)
HandoffRowOfSession(d) == [key |-> Current.key, dev |-> d, reg |-> session[d]]

(* The row names the registration that the accepted pre-message names.     *)
HandoffRow(d) == [key |-> Current.key, dev |-> d, reg |-> Current.pre[d].reg]

(* recordSenderKeyHandoff, after the acceptance and before the             *)
(* confirmation.                                                           *)
RecordHandoff(d) ==
  /\ Running({"row"}, d)
  /\ rows' = rows \union {HandoffRow(d)}
  /\ Move(d, "confirm")
  /\ UNCHANGED <<relayVars, mailbox, session, own, intent, faults>>

-----------------------------------------------------------------------------
(* The barriers of the attempt.                                            *)

AllIn(tasks) == \A d \in Devices : attempt.task[d] \in tasks

(* Mutant: the confirmation drops each device whose pre-message settled    *)
(* with a refresh. *)
ConfirmedRefreshed(i) ==
  WithoutDevices([i EXCEPT !.pre = [d \in Devices |->
                    IF d \in Settled("confirm") THEN None ELSE i.pre[d]]],
                 attempt.removed \union attempt.refreshed)

(* confirmOutgoingPreMessages: the intent keeps the pre-messages that did  *)
(* not settle, and loses the devices that the list no longer shows.        *)
Confirmed(i) ==
  WithoutDevices([i EXCEPT !.pre = [d \in Devices |->
                    IF d \in Settled("confirm") THEN None ELSE i.pre[d]]],
                 attempt.removed)

(* The end of dispatchPreMessages, for a phase of the whole intent.        *)
ConfirmPre ==
  /\ attempt # None /\ attempt.phase \in {"pre", "preLeft"}
  /\ AllIn({"idle", "confirm", "failed"})
  /\ SetIntent(Confirmed(Current))
  /\ attempt' = IF Settled("failed") # {} THEN None
                ELSE IF attempt.refreshed = {}
                  THEN Attempt(attempt.send, attempt.first, "device",
                               DeviceTasks(Confirmed(Current)))
                  ELSE [attempt EXCEPT !.phase = IF @ = "pre" THEN "leave" ELSE "renew",
                                       !.task = [d \in Devices |-> "idle"]]
  /\ UNCHANGED <<relayVars, mailbox, session, own, rows, faults>>

(* leaveStaleSharedBody, up to the encryption: each refreshed device whose *)
(* session has no row gets the key again.                                  *)
Leave ==
  /\ attempt # None /\ attempt.phase = "leave"
  /\ LET needing == IF Distribution(Current, attempt.first) = {} THEN {}
                    ELSE Needing(attempt.refreshed, Current)
     IN  attempt' = Encrypting(attempt, "left", needing, session)
  /\ UNCHANGED <<relayVars, mailbox, session, own, rows, intent, faults>>

(* leaveStaleSharedBody, from the reads of the registrations on: each      *)
(* refreshed device gets a new device message.                             *)
NameLeft ==
  /\ attempt # None /\ attempt.phase = "left"
  /\ LET i     == Current
         left  == WithDevice(WithHandoffs(i, Settled("name"), Distribution(i, attempt.first), TRUE),
                             attempt.refreshed \intersect Targeted(i), session)
         waits == \E d \in Devices : left.pre[d] # None
     IN  /\ SetIntent(left)
         /\ attempt' = Attempt(attempt.send, attempt.first,
                               IF waits THEN "preLeft" ELSE "device",
                               IF waits THEN PreTasks(left) ELSE DeviceTasks(left))
  /\ UNCHANGED <<relayVars, mailbox, session, own, rows, faults>>

(* renewRefreshedDeviceMessages after the second pre-message phase.        *)
Renew ==
  /\ attempt # None /\ attempt.phase = "renew"
  /\ LET renewed == WithDevice(Current, attempt.refreshed \intersect Targeted(Current), session)
     IN  /\ SetIntent(renewed)
         /\ attempt' = Attempt(attempt.send, attempt.first, "device", DeviceTasks(renewed))
  /\ UNCHANGED <<relayVars, mailbox, session, own, rows, faults>>

-----------------------------------------------------------------------------
(* The device messages: sendGroupDeviceMessage.                            *)

PostDevice(d) ==
  /\ Running({"device", "deviceAgain"}, d)
  /\ Posted(d, 0, Current.dev[d], GroupRow(d))
  /\ Move(d, "done")
  /\ UNCHANGED <<relayVars, session, own, rows, faults>>

LoseDevice(d) ==
  /\ Running({"device", "deviceAgain"}, d)
  /\ PostLost(d, 0, Current.dev[d], GroupRow(d))

(* repairStaleGroupDevice, up to the encryption.  A session that already   *)
(* has another registration than the refused one stays.                    *)
RepairDevice(d) ==
  /\ Running({"device"}, d)
  /\ <<d, 0>> \notin Current.accepted
  /\ Stale(d, Current.dev[d])
  /\ IF session[d] \in {0, Current.dev[d]}
       THEN /\ session' = [session EXCEPT ![d] = reg[d]]
            /\ rows' = RowsWithout(d)
       ELSE UNCHANGED <<session, rows>>
  /\ LET held == [key |-> Current.key, dev |-> d, reg |-> session'[d]] \in rows'
     IN  IF held \/ Distribution(Current, attempt.first) = {}
           THEN SetIntent(WithDevice(Current, {d}, session')) /\ Move(d, "deviceAgain")
           ELSE /\ attempt' = [attempt EXCEPT !.task[d] = "nameDevice", !.enc[d] = session'[d]]
                /\ UNCHANGED intent
  /\ UNCHANGED <<relayVars, mailbox, own, faults>>

(* repairStaleGroupDevice, from the read of the registration on, and its   *)
(* intent write.                                                           *)
NameDevice(d) ==
  /\ Running({"nameDevice"}, d)
  /\ SetIntent(WithDevice(WithHandoffs(Current, {d}, Distribution(Current, attempt.first), TRUE),
                          {d}, session))
  /\ Move(d, "pre")
  /\ UNCHANGED <<relayVars, mailbox, session, own, rows, faults>>

(* The pre-message of a repaired device settles: the confirmation of that  *)
(* pre-message alone.                                                      *)
ConfirmRepair(d) ==
  /\ attempt # None /\ attempt.phase = "device"
  /\ attempt.task[d] = "confirm"
  /\ LET kept == [Current EXCEPT !.pre[d] = None]
     IN  SetIntent(IF d \in attempt.removed THEN WithoutDevices(kept, {d}) ELSE kept)
  /\ Move(d, IF d \in attempt.removed THEN "done"
             ELSE IF d \in attempt.refreshed THEN "renew" ELSE "deviceAgain")
  /\ UNCHANGED <<relayVars, mailbox, session, own, rows, faults>>

RenewDevice(d) ==
  /\ Running({"renew"}, d)
  /\ SetIntent(WithDevice(Current, {d}, session))
  /\ Move(d, "deviceAgain")
  /\ UNCHANGED <<relayVars, mailbox, session, own, rows, faults>>

(* Every device settles.  A failure leaves the intent to a replay, else    *)
(* completeOutgoingMessageIntent clears its messages.                      *)
EndDevices ==
  /\ attempt # None /\ attempt.phase = "device"
  /\ AllIn({"idle", "done", "failed"})
  /\ IF Settled("failed") # {} THEN UNCHANGED intent
     ELSE SetIntent([WithoutDevices(Current, Devices) EXCEPT !.status = "complete"])
  /\ attempt' = None
  /\ UNCHANGED <<relayVars, mailbox, session, own, rows, faults>>

-----------------------------------------------------------------------------
(* What happens around the sends.                                          *)

(* An intent that is not stored is lost.                                   *)
Crash ==
  /\ attempt # None
  /\ Fault
  /\ intent' = IF Current.status = "prepared" THEN [intent EXCEPT ![attempt.send] = None]
               ELSE intent
  /\ attempt' = None
  /\ UNCHANGED <<relayVars, mailbox, session, own, rows>>

Change ==
  /\ changes < MaxChanges
  /\ changes' = changes + 1

(* The rotation holds the turn of the group, and deletes its rows.         *)
RotateSenderKey ==
  /\ Change
  /\ attempt = None
  /\ own' = [key |-> own.key + 1, index |-> 0]
  /\ rows' = {}
  /\ UNCHANGED <<linked, reg, mailbox, session, intent, attempt, faults>>

(* A device that starts a session of its own: the archive of the earlier   *)
(* session deletes its rows.  It can run at any moment.                    *)
InboundPreKey(d) ==
  /\ Change
  /\ d \in linked
  /\ session[d] # reg[d] \/ rows # RowsWithout(d)
  /\ session' = [session EXCEPT ![d] = reg[d]]
  /\ rows' = RowsWithout(d)
  /\ intent' = IF attempt = None \/ session[d] = reg[d] THEN intent
               ELSE [intent EXCEPT ![attempt.send].met = @ \union {d}]
  /\ UNCHANGED <<linked, reg, mailbox, own, attempt, faults>>

(* A first install, or a reinstall under a new registration.               *)
Install(d) ==
  /\ Change
  /\ reg[d] = 0 \/ d \in linked
  /\ linked' = linked \union {d}
  /\ reg' = [reg EXCEPT ![d] = @ + 1]
  /\ mailbox' = [mailbox EXCEPT ![d] = <<>>]
  /\ UNCHANGED <<session, own, rows, intent, attempt, faults>>

(* A device that left does not come back.                                  *)
Unlink(d) ==
  /\ Change
  /\ d \in linked
  /\ linked' = linked \ {d}
  /\ mailbox' = [mailbox EXCEPT ![d] = <<>>]
  /\ UNCHANGED <<reg, session, own, rows, intent, attempt, faults>>

-----------------------------------------------------------------------------
SenderStep ==
  \/ NamePayload \/ StoreIntent \/ Reread
  \/ ConfirmPre \/ Leave \/ NameLeft \/ Renew \/ EndDevices
  \/ \E d \in Devices :
       \/ PostPre(d) \/ HoldPre(d) \/ RemovedPre(d) \/ RepairPre(d) \/ NamePre(d)
       \/ RecordHandoff(d) \/ PostDevice(d) \/ RepairDevice(d) \/ NameDevice(d)
       \/ ConfirmRepair(d) \/ RenewDevice(d) \/ Refused(d)

Next ==
  \/ SenderStep
  \/ \E s \in Sends : PreparePayload(s) \/ Replay(s)
  \/ \E d \in Devices :
       \/ LosePre(d) \/ LoseDevice(d) \/ FailRefresh(d)
       \/ InboundPreKey(d) \/ Install(d) \/ Unlink(d)
  \/ Crash
  \/ RotateSenderKey

(* The event loop runs a started attempt, and the caller replays a send    *)
(* that has no result.                                                     *)
Fairness ==
  /\ WF_vars(SenderStep)
  /\ \A s \in Sends : WF_vars(Replay(s))

Spec == Init /\ [][Next]_vars /\ Fairness

-----------------------------------------------------------------------------
(* Properties.                                                             *)

IsDistribution(m, key) == m.n # 0 /\ m.key = key

(* A row of the handoff ledger is a handoff: the install that the row      *)
(* names got a distribution of the key of the row, encrypted in a session  *)
(* of that install.  The exception is a device that came back with a       *)
(* session of its own during the send: the distribution may be encrypted   *)
(* in the earlier session and name the new registration.                   *)
RowIsHandoff ==
  \A r \in rows :
    r.reg = reg[r.dev] /\ r.dev \in linked =>
      \E p \in DOMAIN mailbox[r.dev] :
        LET m == mailbox[r.dev][p]
        IN  IsDistribution(m, r.key) /\ (m.opens \/ m.met)

(* The device got a distribution of the key that its session cannot open.  *)
Misled(d, key) ==
  \E p \in DOMAIN mailbox[d] : IsDistribution(mailbox[d][p], key) /\ ~mailbox[d][p].opens

(* A group message that the attempt of its preparation posts opens: the    *)
(* first distribution of its key that the device got opens, is before it   *)
(* in the mailbox and at no later chain index.  The exceptions are a       *)
(* device that no session reached, one that came back under a new          *)
(* registration with a session of its own while the send ran, and one      *)
(* that was misled so in an earlier send.                                  *)
FirstAttemptOpens ==
  \A d \in Devices : \A p \in DOMAIN mailbox[d] :
    LET m == mailbox[d][p]
    IN  m.n = 0 /\ m.first /\ ~m.met /\ ~Misled(d, m.key) =>
          \E q \in 1 .. p - 1 :
            /\ IsDistribution(mailbox[d][q], m.key) /\ mailbox[d][q].opens
            /\ mailbox[d][q].index <= m.index
            /\ \A r \in 1 .. q - 1 : ~IsDistribution(mailbox[d][r], m.key)

(* A replay posts a group message only to a device that has its key, while *)
(* that key is current: the device opens the later messages of the sender. *)
(* The exceptions are those of FirstAttemptOpens.                          *)
KeyBeforeMessage ==
  \A d \in Devices : \A p \in DOMAIN mailbox[d] :
    LET m == mailbox[d][p]
    IN  m.n = 0 /\ ~m.met /\ m.key = own.key /\ ~Misled(d, m.key) =>
          \E q \in 1 .. p - 1 :
            IsDistribution(mailbox[d][q], m.key) /\ mailbox[d][q].opens

(* A completed send reached each device that was listed when the send was  *)
(* prepared, unless the device left.                                       *)
CompletedReachedAll ==
  \A s \in Sends :
    HasStatus(s, "complete") =>
      \A d \in intent[s].members : <<d, 0>> \in intent[s].accepted \/ d \notin linked

(* A stored send ends: whatever was refused, lost or repaired, a later     *)
(* replay completes it.                                                    *)
EverySendCompletes ==
  \A s \in Sends : HasStatus(s, "stored") ~> HasStatus(s, "complete")
=============================================================================
