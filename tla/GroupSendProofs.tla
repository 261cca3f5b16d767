--------------------------- MODULE GroupSendProofs ---------------------------
(***************************************************************************)
(* What holds of the group sends for any devices, any number of sends and  *)
(* any installs, leaves, inbound sessions, rotations, lost answers and     *)
(* crashes in between.                                                     *)
(*                                                                         *)
(* The four properties say what is in the mailboxes, and the code never    *)
(* sees a mailbox: it decides from rows, from the pre-messages and the     *)
(* progress of an intent, and from the registration of a session.  The     *)
(* invariant ties each of those to a mailbox.  Reached(d, r, key) is its   *)
(* core: if the install of d is still the one of registration r, its       *)
(* mailbox has a distribution of the key.  A reinstall or a leave empties  *)
(* the mailbox and makes that condition void, so it survives every step of *)
(* the Relay.  A row promises it of its registration, an accepted          *)
(* pre-message of its own, and a device message of the registration that   *)
(* it names, or else a pre-message waits that the barrier posts first.     *)
(* Whether that distribution opens is apart from it: a pre-message is      *)
(* encrypted in one step and named in a later one, and TaskOK and PreOK    *)
(* say that both saw the same session or that the device came back in      *)
(* between and is in met.  MailOK carries this over to the mailbox.        *)
(***************************************************************************)
EXTENDS GroupSend, InductionLemmas, TLAPS

Phases == {"handoff", "prepared", "reread", "pre", "leave", "left", "preLeft", "renew", "device"}

\* The phases before the intent is stored.
Unstored == {"handoff", "prepared"}

Tasks == {"idle", "name", "skipped", "pre", "namePre", "preAgain", "row", "confirm", "failed",
          "device", "nameDevice", "deviceAgain", "renew", "done"}

\* The tasks that wait for a write of the whole intent.
Waiting == {"idle", "name", "skipped"}

\* The tasks with an encrypted distribution that does not name its session yet.
Naming == {"name", "namePre", "nameDevice"}

\* An attempt, with one task for each device.
Attempts ==
  [send : Sends, first : BOOLEAN, phase : Phases, task : [Devices -> Tasks],
   refreshed : SUBSET Devices, removed : SUBSET Devices, enc : [Devices -> Nat]]

\* A message of a mailbox: its ID n is 0 for a group message.
Messages ==
  [send : Sends, n : Nat, key : Nat, index : Nat, first : BOOLEAN, met : BOOLEAN,
   opens : BOOLEAN]

\* A handoff row: the install of this registration has the key.
Rows == [key : Nat, dev : Devices, reg : Nat]

\* The types of the state.
TypeOK ==
  /\ linked \subseteq Devices
  /\ reg \in [Devices -> Nat]
  /\ mailbox \in [Devices -> Seq(Messages)]
  /\ session \in [Devices -> Nat]
  /\ own \in [key : Nat, index : Nat]
  /\ rows \subseteq Rows
  /\ intent \in [Sends -> Intents \union {None}]
  /\ attempt \in Attempts \union {None}
  /\ faults \in Nat
  /\ changes \in Nat

\* The mailbox of d has a distribution of the key.
HasKey(box, d, key) == \E p \in DOMAIN box[d] : IsDistribution(box[d][p], key)

\* The install r of d has the key, unless d left or has another install.
Reached(box, lnk, rg, d, r, key) == d \in lnk /\ rg[d] = r => HasKey(box, d, key)

\* A linked device is installed, and no session is newer than the install.
RelayInv ==
  \A d \in Devices : (d \in linked => reg[d] # 0) /\ session[d] <= reg[d]

\* A row promises the key of the install that it names.
RowsInv ==
  \A r \in rows : r.reg <= reg[r.dev] /\ Reached(mailbox, linked, reg, r.dev, r.reg, r.key)

\* A distribution opens, or its device came back meanwhile.
OpensOrMet(m) == m.n # 0 => m.opens \/ m.met

\* A message is of a stored send, and no distribution of the current key is
\* later than the own chain.
MailOK(m, its, ow) ==
  /\ OpensOrMet(m)
  /\ its[m.send] # None /\ its[m.send].status # "prepared"
  /\ m.n # 0 => m.key = its[m.send].key
  /\ m.key <= ow.key
  /\ m.n # 0 /\ m.key = ow.key => m.index <= ow.index

MailInv ==
  \A d \in Devices : \A p \in DOMAIN mailbox[d] : MailOK(mailbox[d][p], intent, own)

\* A waiting pre-message.  It names the session that encrypted it, unless the
\* device came back meanwhile.  An accepted one reached its install.
PreOK(i, d, box, lnk, rg) ==
  i.pre[d] # None =>
    /\ i.pre[d].reg # 0 /\ (i.pre[d].enc = i.pre[d].reg \/ d \in i.met)
    /\ i.pre[d].n <= i.issued[d]
    /\ i.pre[d].reg <= rg[d]
    /\ <<d, i.pre[d].n>> \in i.accepted => Reached(box, lnk, rg, d, i.pre[d].reg, i.key)
    /\ i.status = "stored" => i.dev[d] # None

\* The progress names issued IDs only, so a new ID is never an accepted one.
IdOK(i, d) == \A q \in i.accepted : q[1] = d => q[2] <= i.issued[d]

\* A device message names an install that has the key, or whose key is in a
\* waiting pre-message for that install or a later one.
CoverOK(i, d, box, lnk, rg, key) ==
  i.dev[d] # None =>
    /\ i.dev[d] <= rg[d]
    /\ i.status = "stored" /\ i.key = key /\ d \notin i.met =>
         /\ i.dev[d] # 0
         /\ \/ Reached(box, lnk, rg, d, i.dev[d], i.key)
            \/ i.pre[d] # None /\ i.dev[d] <= i.pre[d].reg

\* A listed device of the preparation keeps its message until it completes.
MemberOK(i, d, lnk, rg) ==
  d \in i.members =>
    /\ rg[d] # 0
    /\ i.status = "stored" => i.dev[d] # None \/ d \notin lnk
    /\ i.status = "complete" => <<d, 0>> \in i.accepted \/ d \notin lnk

\* No pre-message of the current key is later than the own chain.
IndexOK(i, d, ow) == i.pre[d] # None /\ i.key = ow.key => i.pre[d].index <= ow.index

DeviceOK(i, d, box, lnk, rg, ow) ==
  /\ PreOK(i, d, box, lnk, rg)
  /\ IdOK(i, d)
  /\ CoverOK(i, d, box, lnk, rg, ow.key)
  /\ MemberOK(i, d, lnk, rg)
  /\ IndexOK(i, d, ow)

IntentOK(i, box, lnk, rg, ow) ==
  /\ i.key <= ow.key
  /\ \A d \in Devices : DeviceOK(i, d, box, lnk, rg, ow)

IntentInv ==
  \A s \in Sends : intent[s] # None => IntentOK(intent[s], mailbox, linked, reg, own)

\* The session of d gives the key, or the pre-message of d does.
Served(i, d, box, lnk, rg, ss) ==
  /\ ss[d] # 0
  /\ \/ Reached(box, lnk, rg, d, ss[d], i.key)
     \/ i.pre[d] # None /\ i.pre[d].reg = ss[d]

\* What the task of a device knows in each phase: which messages wait, what
\* was accepted, and that a refreshed session has the key or gets it.
TaskOK(a, i, d, box, lnk, rg, ss, key) ==
  /\ a.phase \in Unstored =>
       /\ d \in i.members /\ d \notin i.met =>
            a.task[d] = "name" \/ Served(i, d, box, lnk, rg, ss)
       /\ i.pre[d] # None \/ a.task[d] = "name" => d \in i.members
       /\ i.dev[d] = None /\ d \notin a.refreshed /\ d \notin a.removed
  /\ a.phase = "reread" /\ d \in a.refreshed =>
       /\ i.dev[d] = None
       /\ \/ i.key # key \/ d \in i.met \/ a.task[d] \in {"name", "skipped"}
          \/ Served(i, d, box, lnk, rg, ss)
  /\ a.phase = "reread" /\ a.task[d] = "name" => i.dev[d] # None \/ d \in a.refreshed
  /\ a.phase = "left" /\ a.task[d] = "name" => d \in a.refreshed
  /\ a.phase \in {"prepared", "leave", "renew"} => a.task[d] = "idle"
  /\ a.phase \in {"handoff", "reread", "left"} => a.task[d] \in Waiting
  /\ a.task[d] = "name" => a.phase \in {"handoff", "reread", "left"} /\ i.pre[d] = None
  /\ a.task[d] = "skipped" => a.phase = "reread"
  /\ a.task[d] \in Naming => ss[d] # 0 /\ (a.enc[d] = ss[d] \/ d \in i.met)
  /\ a.task[d] = "namePre" =>
       i.pre[d] # None /\ i.dev[d] # None /\ i.key = key /\ i.pre[d].reg <= ss[d]
  /\ a.task[d] = "nameDevice" => i.pre[d] = None /\ i.dev[d] # None /\ i.key = key
  /\ a.phase \in {"leave", "left", "renew"} => i.pre[d] = None
  /\ a.task[d] \in {"device", "nameDevice", "deviceAgain", "renew", "done"} =>
       a.phase = "device"
  /\ a.phase \in {"pre", "preLeft"} /\ a.task[d] = "idle" => i.pre[d] = None
  /\ a.task[d] \in {"pre", "preAgain", "row"} => i.pre[d] # None
  /\ a.task[d] = "row" => <<d, i.pre[d].n>> \in i.accepted
  /\ a.task[d] = "confirm" =>
       \/ d \in a.removed
       \/ /\ i.pre[d] # None
          /\ i.key # key \/ Reached(box, lnk, rg, d, i.pre[d].reg, i.key)
  /\ d \in a.removed =>
       /\ d \in i.members => d \notin lnk
       /\ d \notin a.refreshed /\ a.task[d] \in {"confirm", "done", "idle"}
  /\ d \in a.refreshed /\ a.phase # "reread" =>
       /\ i.dev[d] # None
       /\ a.task[d] # "failed" => ss[d] # 0
       /\ i.key = key /\ d \notin i.met /\ a.task[d] \notin {"failed", "namePre", "nameDevice"} =>
            Served(i, d, box, lnk, rg, ss)
  /\ a.phase = "device" /\ a.task[d] = "idle" => i.dev[d] = None
  /\ a.task[d] \in {"device", "deviceAgain"} => i.pre[d] = None /\ i.dev[d] # None
  /\ a.task[d] = "renew" => d \in a.refreshed /\ i.pre[d] = None
  /\ a.task[d] = "done" =>
       <<d, 0>> \in i.accepted \/ d \notin i.members \/ d \notin lnk

\* While the attempt of the preparation runs, no distribution of its key, in
\* a mailbox or in a pre-message, is later than the send.
FirstOK(i, box, ow) ==
  /\ i.key = ow.key /\ i.index <= ow.index
  /\ \A d \in Devices : i.pre[d] # None => i.pre[d].index <= i.index
  /\ \A d \in Devices : \A p \in DOMAIN box[d] :
       IsDistribution(box[d][p], i.key) => box[d][p].index <= i.index

AttemptOK(a, i, box, lnk, rg, ss, ow) ==
  /\ i # None
  /\ i.status = IF a.phase \in Unstored THEN "prepared" ELSE "stored"
  /\ a.phase = "handoff" => a.first
  /\ \A d \in Devices : TaskOK(a, i, d, box, lnk, rg, ss, ow.key)
  /\ a.first => FirstOK(i, box, ow)

AttemptInv ==
  attempt # None =>
    AttemptOK(attempt, intent[attempt.send], mailbox, linked, reg, session, own)

\* FirstAttemptOpens and KeyBeforeMessage, at one position of a mailbox, whether
\* or not the distribution opens.
OpensAt(b, p) ==
  b[p].n = 0 /\ b[p].first /\ ~b[p].met =>
    \E q \in 1 .. p - 1 :
      /\ IsDistribution(b[q], b[p].key)
      /\ b[q].index <= b[p].index
      /\ \A r \in 1 .. q - 1 : ~IsDistribution(b[r], b[p].key)

KeyAt(b, p, key) ==
  b[p].n = 0 /\ ~b[p].met /\ b[p].key = key =>
    \E q \in 1 .. p - 1 : IsDistribution(b[q], b[p].key)

OpensInv == \A d \in Devices : \A p \in DOMAIN mailbox[d] : OpensAt(mailbox[d], p)

KeyInv == \A d \in Devices : \A p \in DOMAIN mailbox[d] : KeyAt(mailbox[d], p, own.key)

\* The inductive invariant.
IInv ==
  /\ TypeOK
  /\ RelayInv
  /\ RowsInv
  /\ MailInv
  /\ IntentInv
  /\ AttemptInv
  /\ OpensInv
  /\ KeyInv

-----------------------------------------------------------------------------
(* What the operators on intents do.                                       *)

\* The parts of an intent that the operators on its messages leave alone.
SameBase(i, j) ==
  /\ j.key = i.key /\ j.index = i.index
  /\ j.members = i.members /\ j.met = i.met /\ j.accepted = i.accepted

\* The new pre-message of d.
PreOf(i, x, r, d) ==
  [enc |-> attempt.enc[d], reg |-> session[d], index |-> x, n |-> i.issued[d] + 1, repaired |-> r]

\* The intent j is i with a new pre-message for each device of D.
Named(i, j, D, x, r) ==
  /\ j \in Intents /\ SameBase(i, j) /\ j.status = i.status /\ j.dev = i.dev
  /\ \A d \in Devices :
       /\ d \in D => j.pre[d] = PreOf(i, x, r, d) /\ j.issued[d] = i.issued[d] + 1
       /\ d \notin D => j.pre[d] = i.pre[d] /\ j.issued[d] = i.issued[d]

(* What the naming of new pre-messages does to an intent: each device of D *)
(* has a new one under a new ID, and nothing else changes.                 *)
LEMMA WithPreFacts ==
  ASSUME attempt \in Attempts, session \in [Devices -> Nat],
         NEW i \in Intents, NEW D, NEW x \in Nat, NEW r \in BOOLEAN
  PROVE  Named(i, WithPre(i, D, x, r), D, x, r)
<1> DEFINE P == [d \in Devices |-> IF d \in D THEN PreOf(i, x, r, d) ELSE i.pre[d]]
<1> DEFINE Q == [d \in Devices |-> i.issued[d] + (IF d \in D THEN 1 ELSE 0)]
<1>1. /\ i.issued \in [Devices -> Nat] /\ i.pre \in [Devices -> PreMessages \union {None}]
      /\ attempt.enc \in [Devices -> Nat]
  BY DEF Intents, Attempts
<1>2. P \in [Devices -> PreMessages \union {None}]
  <2>1. \A d \in Devices : PreOf(i, x, r, d) \in PreMessages
    BY <1>1 DEF PreOf, PreMessages
  <2> QED BY <1>1, <2>1
<1>3. Q \in [Devices -> Nat]
  BY <1>1
<1>4. WithPre(i, D, x, r) = [i EXCEPT !.pre = P, !.issued = Q]
  BY Zenon DEF WithPre, PreOf
<1>5. \A d \in Devices : /\ P[d] = IF d \in D THEN PreOf(i, x, r, d) ELSE i.pre[d]
                         /\ Q[d] = IF d \in D THEN i.issued[d] + 1 ELSE i.issued[d]
  <2> HIDE DEF PreOf
  <2> QED BY <1>1
<1> DEFINE j == WithPre(i, D, x, r)
<1> HIDE DEF P, Q
<1>6. /\ j \in Intents /\ SameBase(i, j) /\ j.status = i.status /\ j.dev = i.dev
      /\ j.pre = P /\ j.issued = Q
  BY <1>2, <1>3, <1>4 DEF Intents, SameBase
<1> HIDE DEF j, PreOf
<1>7. Named(i, j, D, x, r)
  BY <1>5, <1>6 DEF Named
<1> QED BY <1>7 DEF j

(* A new device message for each device of D changes the registrations of  *)
(* those messages alone.                                                   *)
LEMMA WithDeviceFacts ==
  ASSUME NEW i \in Intents, NEW D, NEW ss \in [Devices -> Nat]
  PROVE  /\ WithDevice(i, D, ss) \in Intents
         /\ SameBase(i, WithDevice(i, D, ss))
         /\ WithDevice(i, D, ss).status = i.status
         /\ WithDevice(i, D, ss).pre = i.pre
         /\ WithDevice(i, D, ss).issued = i.issued
         /\ \A d \in Devices :
              WithDevice(i, D, ss).dev[d] = IF d \in D THEN ss[d] ELSE i.dev[d]
<1> DEFINE P == [d \in Devices |-> IF d \in D THEN ss[d] ELSE i.dev[d]]
<1>1. P \in [Devices -> Nat \union {None}]
  BY DEF Intents
<1>2. WithDevice(i, D, ss) = [i EXCEPT !.dev = P]
  BY DEF WithDevice
<1>3. \A d \in Devices : P[d] = IF d \in D THEN ss[d] ELSE i.dev[d]
  OBVIOUS
<1> HIDE DEF P
<1> QED BY <1>1, <1>2, <1>3 DEF Intents, SameBase

(* An intent without the messages of the devices of D keeps its other      *)
(* parts.                                                                  *)
LEMMA WithoutDevicesFacts ==
  ASSUME NEW i \in Intents, NEW D
  PROVE  /\ WithoutDevices(i, D) \in Intents
         /\ SameBase(i, WithoutDevices(i, D))
         /\ WithoutDevices(i, D).status = i.status
         /\ WithoutDevices(i, D).issued = i.issued
         /\ \A d \in Devices :
              /\ WithoutDevices(i, D).pre[d] = IF d \in D THEN None ELSE i.pre[d]
              /\ WithoutDevices(i, D).dev[d] = IF d \in D THEN None ELSE i.dev[d]
<1> DEFINE P == [d \in Devices |-> IF d \in D THEN None ELSE i.pre[d]]
<1> DEFINE Q == [d \in Devices |-> IF d \in D THEN None ELSE i.dev[d]]
<1>1. /\ P \in [Devices -> PreMessages \union {None}]
      /\ Q \in [Devices -> Nat \union {None}]
  BY DEF Intents
<1>2. WithoutDevices(i, D) = [i EXCEPT !.pre = P, !.dev = Q]
  BY DEF WithoutDevices
<1>3. \A d \in Devices : /\ P[d] = IF d \in D THEN None ELSE i.pre[d]
                         /\ Q[d] = IF d \in D THEN None ELSE i.dev[d]
  OBVIOUS
<1> HIDE DEF P, Q
<1> QED BY <1>1, <1>2, <1>3 DEF Intents, SameBase

-----------------------------------------------------------------------------
(* What a change of the Relay or of the own key leaves true.               *)

\* The Relay may change so: registrations only grow, a device that left stays
\* away, and an install that has the key keeps it.
Grows(box, lnk, rg, box2, lnk2, rg2) ==
  /\ rg2 \in [Devices -> Nat]
  /\ \A d \in Devices :
       /\ rg[d] <= rg2[d]
       /\ d \notin lnk /\ rg[d] # 0 => d \notin lnk2
       /\ \A r \in Nat : \A key \in Nat :
            r <= rg[d] /\ Reached(box, lnk, rg, d, r, key)
              => Reached(box2, lnk2, rg2, d, r, key)

\* The own chain advances, or the key rotates.
KeyMoves(ow, ow2) ==
  \/ ow2.key = ow.key /\ ow.index <= ow2.index
  \/ ow.key < ow2.key

\* The fields that the conditions on a device read.
LEMMA IntentFields ==
  ASSUME NEW i \in Intents, NEW d \in Devices
  PROVE  /\ i.status \in {"prepared", "stored", "complete"}
         /\ i.key \in Nat /\ i.index \in Nat /\ i.issued[d] \in Nat
         /\ i.pre[d] # None =>
              /\ i.pre[d].reg \in Nat /\ i.pre[d].index \in Nat /\ i.pre[d].n \in Nat \ {0}
              /\ i.pre[d].enc \in Nat /\ i.pre[d].repaired \in BOOLEAN
         /\ i.dev[d] # None => i.dev[d] \in Nat
<1>1. i.pre[d] \in PreMessages \union {None} /\ i.dev[d] \in Nat \union {None}
  BY DEF Intents
<1> QED BY <1>1 DEF Intents, PreMessages

\* The own sender key and its chain index.
Owns == [key : Nat, index : Nat]

(* What an intent promises of a device survives each change of the Relay,  *)
(* each new message and each move of the own key.                          *)
LEMMA DeviceGrows ==
  ASSUME NEW i \in Intents, NEW d \in Devices,
         NEW box, NEW lnk, NEW rg \in [Devices -> Nat], NEW ow \in Owns,
         NEW box2, NEW lnk2, NEW rg2, NEW ow2 \in Owns,
         Grows(box, lnk, rg, box2, lnk2, rg2), KeyMoves(ow, ow2),
         i.key <= ow.key, DeviceOK(i, d, box, lnk, rg, ow)
  PROVE  i.key <= ow2.key /\ DeviceOK(i, d, box2, lnk2, rg2, ow2)
<1>1. /\ i.key \in Nat /\ rg[d] \in Nat /\ rg2[d] \in Nat /\ ow.key \in Nat /\ ow2.key \in Nat
      /\ ow.index \in Nat /\ ow2.index \in Nat
      /\ i.pre[d] # None => i.pre[d].reg \in Nat /\ i.pre[d].index \in Nat
      /\ i.dev[d] # None => i.dev[d] \in Nat
  BY IntentFields DEF Grows, Owns
<1>2. /\ rg[d] <= rg2[d]
      /\ d \notin lnk /\ rg[d] # 0 => d \notin lnk2
      /\ \A r \in Nat : r <= rg[d] /\ Reached(box, lnk, rg, d, r, i.key)
              => Reached(box2, lnk2, rg2, d, r, i.key)
  BY <1>1 DEF Grows
<1>3. i.key <= ow2.key /\ (i.key = ow2.key => i.key = ow.key /\ ow.index <= ow2.index)
  BY <1>1 DEF KeyMoves
<1>4. PreOK(i, d, box2, lnk2, rg2)
  BY <1>1, <1>2 DEF DeviceOK, PreOK
<1>5. CoverOK(i, d, box2, lnk2, rg2, ow2.key)
  BY <1>1, <1>2, <1>3 DEF DeviceOK, CoverOK
<1>6. MemberOK(i, d, lnk2, rg2)
  BY <1>1, <1>2 DEF DeviceOK, MemberOK
<1>7. IndexOK(i, d, ow2)
  BY <1>1, <1>3 DEF DeviceOK, IndexOK
<1> QED BY <1>3, <1>4, <1>5, <1>6, <1>7 DEF DeviceOK

(* So does what the task of a device has found out.                        *)
LEMMA TaskGrows ==
  ASSUME NEW a, NEW i \in Intents, NEW d \in Devices,
         NEW box, NEW lnk, NEW rg \in [Devices -> Nat], NEW ow \in Owns, NEW key,
         NEW ss \in [Devices -> Nat],
         NEW box2, NEW lnk2, NEW rg2,
         Grows(box, lnk, rg, box2, lnk2, rg2),
         DeviceOK(i, d, box, lnk, rg, ow), ss[d] <= rg[d],
         TaskOK(a, i, d, box, lnk, rg, ss, key)
  PROVE  TaskOK(a, i, d, box2, lnk2, rg2, ss, key)
<1>1. i.key \in Nat /\ ss[d] \in Nat
  BY IntentFields
<1>2. Served(i, d, box, lnk, rg, ss) => Served(i, d, box2, lnk2, rg2, ss)
  BY <1>1 DEF Served, Grows
<1>3. d \in i.members /\ d \notin lnk => d \notin lnk2
  BY DEF DeviceOK, MemberOK, Grows
<1>4. i.pre[d] # None /\ Reached(box, lnk, rg, d, i.pre[d].reg, i.key) =>
        Reached(box2, lnk2, rg2, d, i.pre[d].reg, i.key)
  BY <1>1, IntentFields DEF DeviceOK, PreOK, Grows
<1> HIDE DEF Served, Reached
<1> QED BY <1>2, <1>3, <1>4 DEF TaskOK

\* Two intents that say the same about a device.
SameFor(i, j, d) ==
  /\ j.status = i.status /\ j.key = i.key /\ j.members = i.members
  /\ j.pre[d] = i.pre[d] /\ j.dev[d] = i.dev[d] /\ j.issued[d] = i.issued[d]
  /\ d \in j.met <=> d \in i.met
  /\ \A q : q[1] = d => (q \in j.accepted <=> q \in i.accepted)

(* The promises of an intent about a device depend on the parts about that *)
(* device alone.                                                           *)
LEMMA SameDevice ==
  ASSUME NEW i, NEW j, NEW d, NEW box, NEW lnk, NEW rg, NEW ow,
         SameFor(i, j, d), DeviceOK(i, d, box, lnk, rg, ow)
  PROVE  DeviceOK(j, d, box, lnk, rg, ow)
<1>1. \A n : <<d, n>> \in j.accepted <=> <<d, n>> \in i.accepted
  BY DEF SameFor
<1>2. PreOK(j, d, box, lnk, rg)
  BY <1>1, Zenon DEF DeviceOK, PreOK, SameFor
<1>3. IdOK(j, d)
  BY Zenon DEF DeviceOK, IdOK, SameFor
<1>4. CoverOK(j, d, box, lnk, rg, ow.key)
  BY Zenon DEF DeviceOK, CoverOK, SameFor
<1>5. MemberOK(j, d, lnk, rg)
  BY <1>1, Zenon DEF DeviceOK, MemberOK, SameFor
<1>6. IndexOK(j, d, ow)
  BY Zenon DEF DeviceOK, IndexOK, SameFor
<1> QED BY <1>2, <1>3, <1>4, <1>5, <1>6 DEF DeviceOK

\* Two attempts that say the same about a device.
SameTask(a, b, d) ==
  /\ b.phase = a.phase /\ b.task[d] = a.task[d] /\ b.enc[d] = a.enc[d]
  /\ d \in b.refreshed <=> d \in a.refreshed
  /\ d \in b.removed <=> d \in a.removed

(* What a task has found out depends on its device alone: the tasks of an  *)
(* attempt do not disturb each other.                                      *)
LEMMA SameTaskOK ==
  ASSUME NEW a, NEW b, NEW i, NEW j, NEW d, NEW box, NEW lnk, NEW rg, NEW ss, NEW ss2, NEW key,
         SameFor(i, j, d), SameTask(a, b, d), ss2[d] = ss[d],
         TaskOK(a, i, d, box, lnk, rg, ss, key)
  PROVE  TaskOK(b, j, d, box, lnk, rg, ss2, key)
<1>1. \A n : <<d, n>> \in j.accepted <=> <<d, n>> \in i.accepted
  BY DEF SameFor
<1>2. Served(i, d, box, lnk, rg, ss) => Served(j, d, box, lnk, rg, ss2)
  BY Zenon DEF Served, SameFor
<1>3. i.pre[d] # None /\ Reached(box, lnk, rg, d, i.pre[d].reg, i.key) =>
        Reached(box, lnk, rg, d, j.pre[d].reg, j.key)
  BY Zenon DEF SameFor
<1> HIDE DEF Served, Reached
<1> QED BY <1>1, <1>2, <1>3 DEF TaskOK, SameFor, SameTask

-----------------------------------------------------------------------------
(* The steps of an attempt.                                                *)

\* What a step may do to the mailboxes.
MailStep(box2) ==
  /\ box2 \in [Devices -> Seq(Messages)]
  /\ Grows(mailbox, linked, reg, box2, linked, reg)
  /\ \A d \in Devices : \A p \in DOMAIN box2[d] : MailOK(box2[d][p], intent, own)

\* What a step may do to the sessions and the rows.
LedgerStep(ss2, rows2, box2) ==
  /\ ss2 \in [Devices -> Nat]
  /\ \A d \in Devices : ss2[d] <= reg[d]
  /\ rows2 \subseteq Rows
  /\ \A r \in rows2 : r.reg <= reg[r.dev] /\ Reached(box2, linked, reg, r.dev, r.reg, r.key)

(* A step that leaves the Relay alone.                                     *)
LEMMA GrowsRefl ==
  ASSUME NEW box, NEW lnk, NEW rg \in [Devices -> Nat]
  PROVE  Grows(box, lnk, rg, box, lnk, rg)
  BY DEF Grows

(* The mail, the sessions and the rows as they are, or without the rows of *)
(* a device whose session was archived.                                    *)
LEMMA SameMail ==
  ASSUME IInv
  PROVE  /\ MailStep(mailbox)
         /\ LedgerStep(session, rows, mailbox)
         /\ \A d \in Devices : LedgerStep(session, RowsWithout(d), mailbox)
<1>1. MailStep(mailbox)
  BY GrowsRefl DEF IInv, TypeOK, MailInv, MailStep
<1>2. /\ session \in [Devices -> Nat] /\ \A d \in Devices : session[d] <= reg[d]
      /\ rows \subseteq Rows
      /\ \A r \in rows : r.reg <= reg[r.dev] /\ Reached(mailbox, linked, reg, r.dev, r.reg, r.key)
  BY DEF IInv, TypeOK, RelayInv, RowsInv
<1> QED BY <1>1, <1>2 DEF LedgerStep, RowsWithout

(* A new message leaves each row a handoff.                                *)
LEMMA RowsGrow ==
  ASSUME IInv, MailStep(mailbox')
  PROVE  LedgerStep(session, rows, mailbox')
<1>1. ASSUME NEW r \in rows
      PROVE  r.reg <= reg[r.dev] /\ Reached(mailbox', linked, reg, r.dev, r.reg, r.key)
  <2>1. r \in Rows /\ r.reg <= reg[r.dev] /\ Reached(mailbox, linked, reg, r.dev, r.reg, r.key)
    BY DEF IInv, TypeOK, RowsInv
  <2>2. r.dev \in Devices /\ r.reg \in Nat /\ r.key \in Nat
    BY <2>1 DEF Rows
  <2> QED BY <2>1, <2>2 DEF MailStep, Grows
<1> QED BY <1>1, SameMail DEF LedgerStep

\* An intent that replaces the current one.
Replaces(i, j) ==
  /\ j \in Intents /\ j.key = i.key
  /\ j.status = "prepared" => i.status = "prepared"

(* A rewritten intent keeps what the mailboxes say about its send.         *)
LEMMA MailReplaced ==
  ASSUME NEW its, NEW s \in DOMAIN its, NEW j, NEW m, NEW ow,
         Replaces(its[s], j), MailOK(m, its, ow)
  PROVE  MailOK(m, [its EXCEPT ![s] = j], ow)
<1>1. j # None
  BY GroupSendAssumption DEF Replaces
<1>2. CASE m.send = s
  BY <1>1, <1>2 DEF Replaces, MailOK
<1>3. CASE m.send # s
  BY <1>3 DEF MailOK
<1> QED BY <1>2, <1>3

(* A step of the running attempt: what it has to show of its mail, its     *)
(* ledger, the intent that it writes and its tasks.                        *)
LEMMA AttemptStep ==
  ASSUME IInv, attempt # None, linked' = linked, reg' = reg, own' = own,
         MailStep(mailbox'), OpensInv', KeyInv',
         LedgerStep(session', rows', mailbox'), faults' \in Nat, changes' \in Nat,
         NEW j, intent' = [intent EXCEPT ![attempt.send] = j], Replaces(Current, j),
         IntentOK(j, mailbox', linked, reg, own),
         attempt' \in Attempts \union {None},
         attempt' # None =>
           /\ attempt'.send = attempt.send
           /\ AttemptOK(attempt', j, mailbox', linked, reg, session', own)
  PROVE  IInv'
<1>1. attempt.send \in Sends
  BY DEF IInv, TypeOK, Attempts
<1>2. /\ intent \in [Sends -> Intents \union {None}] /\ reg \in [Devices -> Nat]
      /\ own \in Owns
  BY DEF IInv, TypeOK, Owns
<1>3. TypeOK'
  <2>1. intent' \in [Sends -> Intents \union {None}]
    BY <1>1, <1>2 DEF Replaces
  <2> QED BY <2>1 DEF IInv, TypeOK, MailStep, LedgerStep
<1>4. RelayInv'
  BY DEF IInv, RelayInv, LedgerStep
<1>5. RowsInv'
  BY DEF LedgerStep, RowsInv
<1>6. MailInv'
  <2>1. ASSUME NEW d \in Devices, NEW p \in DOMAIN mailbox'[d]
        PROVE  MailOK(mailbox'[d][p], intent', own')
    BY <1>1, <1>2, MailReplaced DEF MailStep, Current
  <2> QED BY <2>1 DEF MailInv
<1>7. IntentInv'
  <2>1. ASSUME NEW s \in Sends, intent'[s] # None
        PROVE  IntentOK(intent'[s], mailbox', linked, reg, own)
    <3>1. CASE s = attempt.send
      BY <1>1, <1>2, <3>1
    <3>2. CASE s # attempt.send
      <4>1. intent'[s] = intent[s]
        BY <1>1, <1>2, <3>2
      <4>2. intent[s] \in Intents /\ IntentOK(intent[s], mailbox, linked, reg, own)
        BY <1>2, <2>1, <4>1 DEF IInv, IntentInv
      <4>3. KeyMoves(own, own)
        BY <1>2 DEF KeyMoves, Owns
      <4>4. ASSUME NEW d \in Devices PROVE DeviceOK(intent[s], d, mailbox', linked, reg, own)
        BY <1>2, <4>2, <4>3, DeviceGrows DEF IntentOK, MailStep
      <4> QED BY <4>1, <4>2, <4>4 DEF IntentOK
    <3> QED BY <3>1, <3>2
  <2> QED BY <2>1 DEF IntentInv
<1>8. AttemptInv'
  <2>1. ASSUME attempt' # None
        PROVE  AttemptOK(attempt', intent'[attempt'.send], mailbox', linked, reg, session', own)
    <3>1. intent'[attempt'.send] = j
      BY <1>1, <1>2, <2>1
    <3> QED BY <2>1, <3>1
  <2> QED BY <2>1 DEF AttemptInv
<1> QED BY <1>3, <1>4, <1>5, <1>6, <1>7, <1>8 DEF IInv

\* What holds of the running attempt.
LEMMA CurrentFacts ==
  ASSUME IInv, attempt # None
  PROVE  /\ attempt \in Attempts /\ attempt.send \in Sends
         /\ Current \in Intents
         /\ IntentOK(Current, mailbox, linked, reg, own)
         /\ AttemptOK(attempt, Current, mailbox, linked, reg, session, own)
<1>1. attempt \in Attempts /\ attempt.send \in Sends
  BY DEF IInv, TypeOK, Attempts
<1>2. AttemptOK(attempt, Current, mailbox, linked, reg, session, own)
  BY DEF IInv, AttemptInv, Current
<1>3. Current # None
  BY <1>2 DEF AttemptOK
<1> QED BY <1>1, <1>2, <1>3 DEF IInv, TypeOK, IntentInv, Current

(* A step that writes no intent writes the one that is there.              *)
LEMMA SelfIntent ==
  ASSUME IInv, attempt # None
  PROVE  intent = [intent EXCEPT ![attempt.send] = Current]
<1>1. attempt.send \in Sends /\ intent \in [Sends -> Intents \union {None}]
  BY CurrentFacts DEF IInv, TypeOK
<1> QED BY <1>1 DEF Current

\* A step of the task of one device, which leaves the others alone.
OneDevice(d, j, a2, ss2) ==
  /\ j \in Intents
  /\ j.key = Current.key /\ j.index = Current.index /\ j.status = Current.status
  /\ a2 \in Attempts
  /\ a2.send = attempt.send /\ a2.first = attempt.first /\ a2.phase = attempt.phase
  /\ \A e \in Devices \ {d} :
       SameFor(Current, j, e) /\ SameTask(attempt, a2, e) /\ ss2[e] = session[e]

\* What a step of the first attempt may put into the mailboxes.
FirstStep(box2) ==
  attempt.first => \A d \in Devices : \A p \in DOMAIN box2[d] :
     IsDistribution(box2[d][p], Current.key) => box2[d][p].index <= Current.index

(* No distribution that a mailbox has is later than the send that the      *)
(* first attempt posts.                                                    *)
LEMMA FirstSame ==
  ASSUME IInv, attempt # None
  PROVE  FirstStep(mailbox)
  BY CurrentFacts DEF AttemptOK, FirstOK, FirstStep

(* A step of the task of one device: it has to show the conditions of that *)
(* device alone.                                                           *)
LEMMA OneDeviceStep ==
  ASSUME IInv, attempt # None, linked' = linked, reg' = reg, own' = own,
         MailStep(mailbox'), FirstStep(mailbox'), OpensInv', KeyInv',
         LedgerStep(session', rows', mailbox'), faults' \in Nat, changes' \in Nat,
         NEW d \in Devices, NEW j, intent' = [intent EXCEPT ![attempt.send] = j],
         OneDevice(d, j, attempt', session'),
         DeviceOK(j, d, mailbox', linked, reg, own),
         TaskOK(attempt', j, d, mailbox', linked, reg, session', own.key),
         attempt.first /\ j.pre[d] # None => j.pre[d].index <= j.index
  PROVE  IInv'
<1>1. /\ attempt \in Attempts /\ Current \in Intents
      /\ IntentOK(Current, mailbox, linked, reg, own)
      /\ AttemptOK(attempt, Current, mailbox, linked, reg, session, own)
  BY CurrentFacts
<1>2. /\ reg \in [Devices -> Nat] /\ session \in [Devices -> Nat] /\ own \in Owns
      /\ \A e \in Devices : session[e] <= reg[e]
  BY DEF IInv, TypeOK, RelayInv, Owns
<1>3. KeyMoves(own, own)
  BY <1>2 DEF KeyMoves, Owns
<1>4. ASSUME NEW e \in Devices, e # d
      PROVE  /\ DeviceOK(j, e, mailbox', linked, reg, own)
             /\ TaskOK(attempt', j, e, mailbox', linked, reg, session', own.key)
  <2>1. SameFor(Current, j, e) /\ SameTask(attempt, attempt', e) /\ session'[e] = session[e]
    BY <1>4 DEF OneDevice
  <2>2. Current.key <= own.key /\ DeviceOK(Current, e, mailbox, linked, reg, own)
    BY <1>1 DEF IntentOK
  <2>3. DeviceOK(Current, e, mailbox', linked, reg, own)
    BY <1>1, <1>2, <1>3, <2>2, DeviceGrows DEF MailStep
  <2>4. TaskOK(attempt, Current, e, mailbox, linked, reg, session, own.key)
    BY <1>1 DEF AttemptOK
  <2>5. TaskOK(attempt, Current, e, mailbox', linked, reg, session, own.key)
    BY <1>1, <1>2, <2>2, <2>4, TaskGrows DEF MailStep
  <2> QED BY <2>1, <2>3, <2>5, SameDevice, SameTaskOK
<1>5. IntentOK(j, mailbox', linked, reg, own)
  BY <1>1, <1>4 DEF IntentOK, OneDevice
<1>6. ASSUME attempt.first PROVE FirstOK(j, mailbox', own)
  <2>1. FirstOK(Current, mailbox, own)
    BY <1>1, <1>6 DEF AttemptOK
  <2>2. ASSUME NEW e \in Devices, j.pre[e] # None PROVE j.pre[e].index <= j.index
    <3>1. CASE e = d
      BY <1>6, <2>2, <3>1
    <3>2. CASE e # d
      BY <2>1, <2>2, <3>2 DEF OneDevice, SameFor, FirstOK
    <3> QED BY <3>1, <3>2
  <2> QED BY <1>6, <2>1, <2>2 DEF FirstOK, FirstStep, OneDevice
<1>7. AttemptOK(attempt', j, mailbox', linked, reg, session', own)
  <2>1. j # None
    BY GroupSendAssumption DEF OneDevice
  <2>2. /\ j.status = IF attempt'.phase \in Unstored THEN "prepared" ELSE "stored"
        /\ attempt'.phase = "handoff" => attempt'.first
    BY <1>1 DEF AttemptOK, OneDevice
  <2>3. attempt'.first => FirstOK(j, mailbox', own)
    BY <1>6 DEF OneDevice
  <2> QED BY <1>4, <2>1, <2>2, <2>3 DEF AttemptOK
<1>8. Replaces(Current, j) /\ attempt' \in Attempts \union {None} /\ attempt'.send = attempt.send
  BY DEF Replaces, OneDevice
<1> QED BY <1>5, <1>7, <1>8, AttemptStep

-----------------------------------------------------------------------------
(* What a new message, or its end, does for one device.                    *)

\* A distribution, or none.
AtMost(G, x) == G = {} \/ G = {x}

(* prepareIntentSenderKeyHandoffs: a new pre-message for each device of D, *)
(* and none without a distribution.                                        *)
LEMMA WithHandoffsFacts ==
  ASSUME attempt \in Attempts, session \in [Devices -> Nat],
         NEW i \in Intents, NEW D, NEW G, NEW x \in Nat, AtMost(G, x), NEW r \in BOOLEAN
  PROVE  /\ G = {} => WithHandoffs(i, D, G, r) = i
         /\ G # {} => Named(i, WithHandoffs(i, D, G, r), D, x, r)
<1>1. CASE G = {}
  BY <1>1 DEF WithHandoffs
<1>2. CASE G = {x}
  <2>1. (CHOOSE index \in G : TRUE) = x
    BY <1>2
  <2>2. G # {} /\ WithHandoffs(i, D, G, r) = WithPre(i, D, x, r)
    BY <1>2, <2>1 DEF WithHandoffs
  <2> QED BY <2>2, WithPreFacts
<1> QED BY <1>1, <1>2 DEF AtMost

\* The index of a distribution.
LEMMA DistributionFacts ==
  ASSUME NEW i \in Intents, NEW first \in BOOLEAN, own \in Owns
  PROVE  \E x \in Nat :
           /\ AtMost(Distribution(i, first), x)
           /\ Distribution(i, first) = {} => ~first /\ own.key # i.key
           /\ Distribution(i, first) # {} => first \/ own.key = i.key
           /\ first => x = i.index
           /\ ~first => x = own.index
<1>1. i.index \in Nat /\ own.index \in Nat
  BY DEF Intents, Owns
<1>2. CASE first
  <2>1. Distribution(i, first) = {i.index}
    BY <1>2, Zenon DEF Distribution
  <2> QED BY <1>1, <1>2, <2>1 DEF AtMost
<1>3. CASE ~first /\ own.key = i.key
  <2>1. Distribution(i, first) = {own.index}
    BY <1>3, Zenon DEF Distribution
  <2> QED BY <1>1, <1>3, <2>1 DEF AtMost
<1>4. CASE ~first /\ own.key # i.key
  <2>1. Distribution(i, first) = {}
    BY <1>4, Zenon DEF Distribution
  <2> QED BY <1>1, <1>4, <2>1 DEF AtMost
<1> QED BY <1>2, <1>3, <1>4

\* The ID of a new pre-message is not the one of an accepted message.
LEMMA FreshID ==
  ASSUME NEW i \in Intents, NEW d \in Devices, IdOK(i, d)
  PROVE  <<d, i.issued[d] + 1>> \notin i.accepted
<1>1. i.issued[d] \in Nat
  BY IntentFields
<1> QED BY <1>1 DEF IdOK

(* The fields of a new pre-message.                                        *)
LEMMA PreOfFields ==
  ASSUME attempt \in Attempts, session \in [Devices -> Nat],
         NEW i \in Intents, NEW d \in Devices, NEW x \in Nat, NEW r \in BOOLEAN
  PROVE  /\ PreOf(i, x, r, d) # None
         /\ PreOf(i, x, r, d).enc = attempt.enc[d] /\ PreOf(i, x, r, d).reg = session[d]
         /\ PreOf(i, x, r, d).index = x /\ PreOf(i, x, r, d).n = i.issued[d] + 1
<1>1. i.issued[d] \in Nat /\ attempt.enc[d] \in Nat /\ session[d] \in Nat
  BY DEF Intents, Attempts
<1>2. PreOf(i, x, r, d) \in PreMessages
  BY <1>1 DEF PreOf, PreMessages
<1> QED BY <1>2, GroupSendAssumption DEF PreOf

(* A new pre-message, with or without a new device message, keeps the      *)
(* promises about its device.                                              *)
LEMMA NewPreOK ==
  ASSUME attempt \in Attempts, session \in [Devices -> Nat],
         NEW i \in Intents, NEW j \in Intents, NEW d \in Devices,
         NEW box, NEW lnk, NEW rg \in [Devices -> Nat], NEW ow \in Owns,
         NEW x \in Nat, NEW r \in BOOLEAN,
         DeviceOK(i, d, box, lnk, rg, ow),
         SameBase(i, j), j.status = i.status,
         j.pre[d] = PreOf(i, x, r, d), j.issued[d] = i.issued[d] + 1,
         session[d] <= rg[d], i.key = ow.key => x <= ow.index,
         session[d] # 0, attempt.enc[d] = session[d] \/ d \in i.met,
         \/ j.dev[d] = session[d]
         \/ /\ j.dev[d] = i.dev[d] /\ (i.status = "stored" => i.dev[d] # None)
            /\ i.pre[d] # None => i.pre[d].reg <= session[d]
  PROVE  DeviceOK(j, d, box, lnk, rg, ow)
<1>1. /\ i.issued[d] \in Nat /\ rg[d] \in Nat /\ session[d] \in Nat /\ session[d] # None
      /\ i.dev[d] # None => i.dev[d] \in Nat
      /\ i.pre[d] # None => i.pre[d].reg \in Nat
  BY IntentFields, GroupSendAssumption
<1>2. /\ j.pre[d].n = i.issued[d] + 1 /\ j.pre[d].reg = session[d] /\ j.pre[d].index = x
      /\ j.pre[d].enc = attempt.enc[d] /\ j.pre[d] # None
  BY PreOfFields
<1>3. <<d, j.pre[d].n>> \notin j.accepted
  BY <1>2, FreshID DEF DeviceOK, SameBase
<1>4. PreOK(j, d, box, lnk, rg)
  BY <1>1, <1>2, <1>3 DEF PreOK, SameBase
<1>5. IdOK(j, d)
  <2>1. \A q \in i.accepted : q[1] = d => q[2] \in Nat
    BY DEF Intents
  <2> QED BY <1>1, <2>1 DEF DeviceOK, IdOK, SameBase
<1>6. CoverOK(j, d, box, lnk, rg, ow.key)
  BY <1>1, <1>2 DEF DeviceOK, CoverOK, SameBase
<1>7. MemberOK(j, d, lnk, rg)
  BY <1>1 DEF DeviceOK, MemberOK, SameBase
<1>8. IndexOK(j, d, ow)
  BY <1>2 DEF IndexOK, SameBase
<1> QED BY <1>4, <1>5, <1>6, <1>7, <1>8 DEF DeviceOK

(* A new device message keeps them when its session has the key or a pre-  *)
(* message gives it, when no session reached the device, or after a        *)
(* rotation.                                                               *)
LEMMA NewDevOK ==
  ASSUME NEW i \in Intents, NEW j \in Intents, NEW d \in Devices,
         NEW box, NEW lnk, NEW rg \in [Devices -> Nat], NEW ow \in Owns,
         NEW ss \in [Devices -> Nat],
         DeviceOK(i, d, box, lnk, rg, ow), SameBase(i, j),
         i.status \in {"prepared", "stored"}, j.status = "stored",
         j.pre[d] = i.pre[d], j.issued[d] = i.issued[d], j.dev[d] = ss[d], ss[d] <= rg[d],
         \/ i.key # ow.key
         \/ d \in i.met
         \/ Served(i, d, box, lnk, rg, ss)
  PROVE  DeviceOK(j, d, box, lnk, rg, ow)
<1>1. /\ rg[d] \in Nat /\ ss[d] \in Nat /\ ss[d] # None
  BY GroupSendAssumption
<1>2. PreOK(j, d, box, lnk, rg)
  BY <1>1 DEF DeviceOK, PreOK, SameBase
<1>3. IdOK(j, d)
  BY DEF DeviceOK, IdOK, SameBase
<1>4. CoverOK(j, d, box, lnk, rg, ow.key)
  BY <1>1 DEF CoverOK, SameBase, Served
<1>5. MemberOK(j, d, lnk, rg)
  BY <1>1 DEF DeviceOK, MemberOK, SameBase
<1>6. IndexOK(j, d, ow)
  BY DEF DeviceOK, IndexOK, SameBase
<1> QED BY <1>2, <1>3, <1>4, <1>5, <1>6 DEF DeviceOK

(* A pre-message can go when its install has the key, or after a rotation. *)
LEMMA DropPreOK ==
  ASSUME NEW i \in Intents, NEW j \in Intents, NEW d \in Devices,
         NEW box, NEW lnk, NEW rg \in [Devices -> Nat], NEW ow \in Owns,
         DeviceOK(i, d, box, lnk, rg, ow), SameBase(i, j), j.status = i.status,
         j.pre[d] = None, j.issued[d] = i.issued[d], j.dev[d] = i.dev[d],
         \/ i.key # ow.key
         \/ i.pre[d] = None
         \/ Reached(box, lnk, rg, d, i.pre[d].reg, i.key)
  PROVE  DeviceOK(j, d, box, lnk, rg, ow)
<1>1. /\ rg[d] \in Nat
      /\ i.pre[d] # None => i.pre[d].reg \in Nat
      /\ i.dev[d] # None => i.dev[d] \in Nat
  BY IntentFields
<1>2. PreOK(j, d, box, lnk, rg)
  BY DEF PreOK
<1>3. IdOK(j, d)
  BY DEF DeviceOK, IdOK, SameBase
<1>4. CoverOK(j, d, box, lnk, rg, ow.key)
  <2>1. CASE i.key # ow.key
    BY <2>1 DEF DeviceOK, CoverOK, SameBase
  <2>2. CASE i.pre[d] = None
    BY <2>2 DEF DeviceOK, CoverOK, SameBase
  <2>3. CASE i.pre[d] # None /\ Reached(box, lnk, rg, d, i.pre[d].reg, i.key)
    <3>1. i.pre[d].reg <= rg[d]
      BY <2>3 DEF DeviceOK, PreOK
    <3>2. i.dev[d] # None /\ i.dev[d] <= i.pre[d].reg => Reached(box, lnk, rg, d, i.dev[d], i.key)
      BY <1>1, <2>3, <3>1 DEF Reached
    <3> HIDE DEF Reached
    <3> QED BY <3>2 DEF DeviceOK, CoverOK, SameBase
  <2> QED BY <2>1, <2>2, <2>3
<1>5. MemberOK(j, d, lnk, rg)
  BY DEF DeviceOK, MemberOK, SameBase
<1>6. IndexOK(j, d, ow)
  BY DEF IndexOK
<1> QED BY <1>2, <1>3, <1>4, <1>5, <1>6 DEF DeviceOK

(* The messages of a device can go when the device left, or when the send  *)
(* completes.                                                              *)
LEMMA DropAllOK ==
  ASSUME NEW i \in Intents, NEW j \in Intents, NEW d \in Devices,
         NEW box, NEW lnk, NEW rg, NEW ow,
         DeviceOK(i, d, box, lnk, rg, ow), SameBase(i, j),
         j.pre[d] = None, j.issued[d] = i.issued[d], j.dev[d] = None,
         \/ j.status = "stored" /\ (d \in i.members => d \notin lnk)
         \/ j.status = "complete" /\ (d \in i.members => <<d, 0>> \in i.accepted \/ d \notin lnk)
  PROVE  DeviceOK(j, d, box, lnk, rg, ow)
  BY DEF DeviceOK, PreOK, IdOK, CoverOK, MemberOK, IndexOK, SameBase

-----------------------------------------------------------------------------
(* The steps of one task that leave the mailboxes alone.                   *)

(* A step that changes neither mailboxes nor the own key.                  *)
LEMMA MailProperties ==
  ASSUME OpensInv, KeyInv, mailbox' = mailbox, own' = own
  PROVE  OpensInv' /\ KeyInv'
  BY DEF OpensInv, KeyInv

(* A step of one task that posts nothing.                                  *)
LEMMA QuietOne ==
  ASSUME IInv, attempt # None,
         linked' = linked, reg' = reg, own' = own, mailbox' = mailbox,
         LedgerStep(session', rows', mailbox), faults' \in Nat, changes' \in Nat,
         NEW d \in Devices, NEW j, intent' = [intent EXCEPT ![attempt.send] = j],
         OneDevice(d, j, attempt', session'),
         DeviceOK(j, d, mailbox, linked, reg, own),
         TaskOK(attempt', j, d, mailbox, linked, reg, session', own.key),
         attempt.first /\ j.pre[d] # None => j.pre[d].index <= j.index
  PROVE  IInv'
<1>1. OpensInv' /\ KeyInv'
  BY MailProperties DEF IInv
<1>2. MailStep(mailbox') /\ FirstStep(mailbox')
  BY SameMail, FirstSame
<1>3. LedgerStep(session', rows', mailbox') /\ DeviceOK(j, d, mailbox', linked, reg, own)
      /\ TaskOK(attempt', j, d, mailbox', linked, reg, session', own.key)
  OBVIOUS
<1> QED BY <1>1, <1>2, <1>3, OneDeviceStep

\* The attempt b is a with another task of d.
Moved(a, b, d, t) ==
  /\ b \in Attempts /\ b.send = a.send /\ b.first = a.first /\ b.phase = a.phase
  /\ b.task[d] = t /\ b.refreshed = a.refreshed /\ b.removed = a.removed /\ b.enc = a.enc
  /\ \A e \in Devices \ {d} : b.task[e] = a.task[e]

(* What Move changes of the attempt.                                       *)
LEMMA MoveOnly ==
  ASSUME attempt \in Attempts, NEW d \in Devices, NEW t, t \in Tasks, Move(d, t)
  PROVE  Moved(attempt, attempt', d, t)
<1> DEFINE T == [attempt.task EXCEPT ![d] = t]
<1>1. T \in [Devices -> Tasks] /\ T[d] = t /\ \A e \in Devices \ {d} : T[e] = attempt.task[e]
  BY DEF Attempts
<1>2. attempt' = [attempt EXCEPT !.task = T]
  BY DEF Move
<1> HIDE DEF T
<1>3. attempt'.send = attempt.send /\ attempt'.first = attempt.first /\ attempt'.phase = attempt.phase
      /\ attempt'.task = T /\ attempt'.refreshed = attempt.refreshed /\ attempt'.removed = attempt.removed
      /\ attempt'.enc = attempt.enc
  BY <1>2 DEF Attempts
<1>4. attempt' \in Attempts
  BY <1>1, <1>2 DEF Attempts
<1> QED BY <1>1, <1>3, <1>4 DEF Moved

\* What holds where a task of a device runs.
LEMMA RunningFacts ==
  ASSUME IInv, NEW d \in Devices, attempt # None, attempt.task[d] \notin Waiting
  PROVE  /\ attempt \in Attempts /\ Current \in Intents
         /\ attempt.phase \in {"pre", "preLeft", "device"} /\ Current.status = "stored"
         /\ Current.key <= own.key
         /\ DeviceOK(Current, d, mailbox, linked, reg, own)
         /\ TaskOK(attempt, Current, d, mailbox, linked, reg, session, own.key)
         /\ reg \in [Devices -> Nat] /\ session \in [Devices -> Nat] /\ own \in Owns
         /\ session[d] <= reg[d] /\ (d \in linked => reg[d] # 0)
         /\ attempt.first => FirstOK(Current, mailbox, own)
<1>1. /\ attempt \in Attempts /\ Current \in Intents
      /\ IntentOK(Current, mailbox, linked, reg, own)
      /\ AttemptOK(attempt, Current, mailbox, linked, reg, session, own)
  BY CurrentFacts
<1>2. TaskOK(attempt, Current, d, mailbox, linked, reg, session, own.key)
  BY <1>1 DEF AttemptOK
<1>3. attempt.phase \in Phases
  BY <1>1 DEF Attempts
<1>4. attempt.phase \in {"pre", "preLeft", "device"}
  BY <1>2, <1>3 DEF TaskOK, Phases, Waiting
<1> QED BY <1>1, <1>2, <1>4 DEF AttemptOK, Unstored, IntentOK, IInv, TypeOK, RelayInv, Owns

(* An intent says the same as itself.                                      *)
LEMMA SameForRefl ==
  ASSUME NEW i, NEW d
  PROVE  SameFor(i, i, d)
  BY DEF SameFor

\* A step that only moves the task of one device.
LEMMA MoveStep ==
  ASSUME IInv, NEW d \in Devices, attempt # None, NEW t \in Tasks, Move(d, t),
         linked' = linked, reg' = reg, own' = own, mailbox' = mailbox, intent' = intent,
         LedgerStep(session', rows', mailbox), faults' \in Nat, changes' \in Nat,
         \A e \in Devices \ {d} : session'[e] = session[e],
         TaskOK(attempt', Current, d, mailbox, linked, reg, session', own.key)
  PROVE  IInv'
<1>1. /\ attempt \in Attempts /\ Current \in Intents
      /\ DeviceOK(Current, d, mailbox, linked, reg, own)
      /\ attempt.first => FirstOK(Current, mailbox, own)
  BY CurrentFacts DEF AttemptOK, IntentOK
<1>2. /\ attempt' \in Attempts /\ attempt'.send = attempt.send /\ attempt'.first = attempt.first
      /\ attempt'.phase = attempt.phase
      /\ attempt'.refreshed = attempt.refreshed /\ attempt'.removed = attempt.removed
      /\ attempt'.enc = attempt.enc
      /\ \A e \in Devices \ {d} : attempt'.task[e] = attempt.task[e]
  <2>1. Moved(attempt, attempt', d, t)
    BY <1>1, MoveOnly
  <2> QED BY <2>1 DEF Moved
<1>3. OneDevice(d, Current, attempt', session')
  BY <1>1, <1>2, SameForRefl DEF OneDevice, SameTask
<1>4. attempt.first /\ Current.pre[d] # None => Current.pre[d].index <= Current.index
  BY <1>1 DEF FirstOK
<1>5. intent' = [intent EXCEPT ![attempt.send] = Current]
  BY SelfIntent
<1> QED BY <1>1, <1>3, <1>4, <1>5, QuietOne

(* The counters are numbers.                                               *)
LEMMA CounterTypes ==
  ASSUME IInv
  PROVE  faults \in Nat /\ changes \in Nat /\ faults + 1 \in Nat /\ changes + 1 \in Nat
  BY DEF IInv, TypeOK

(* recordSenderKeyHandoff writes a row only for an accepted pre-message,   *)
(* and the row names the registration of that message.                     *)
LEMMA RecordHandoffStep ==
  ASSUME IInv, NEW d \in Devices, RecordHandoff(d)
  PROVE  IInv'
<1>1. attempt # None /\ attempt.task[d] = "row"
  BY DEF RecordHandoff, Running
<1>2. /\ attempt \in Attempts /\ Current \in Intents
      /\ DeviceOK(Current, d, mailbox, linked, reg, own)
      /\ TaskOK(attempt, Current, d, mailbox, linked, reg, session, own.key)
  BY <1>1, RunningFacts DEF Waiting
<1>3. Current.pre[d] # None /\ <<d, Current.pre[d].n>> \in Current.accepted
  BY <1>1, <1>2 DEF TaskOK
<1>4. /\ Current.key \in Nat /\ Current.pre[d].reg \in Nat /\ Current.pre[d].reg <= reg[d]
      /\ Reached(mailbox, linked, reg, d, Current.pre[d].reg, Current.key)
  BY <1>2, <1>3, IntentFields DEF DeviceOK, PreOK
<1>5. LedgerStep(session', rows', mailbox)
  <2>1. /\ HandoffRow(d) \in Rows /\ HandoffRow(d).reg <= reg[HandoffRow(d).dev]
        /\ Reached(mailbox, linked, reg, HandoffRow(d).dev, HandoffRow(d).reg, HandoffRow(d).key)
    BY <1>4 DEF HandoffRow, Rows
  <2>2. session' = session /\ rows' = rows \union {HandoffRow(d)}
    BY DEF RecordHandoff
  <2> QED BY <2>1, <2>2, SameMail DEF LedgerStep
<1>6. /\ attempt'.phase = attempt.phase /\ attempt'.task[d] = "confirm"
      /\ attempt'.refreshed = attempt.refreshed /\ attempt'.removed = attempt.removed
  <2>1. Moved(attempt, attempt', d, "confirm")
    BY <1>2, MoveOnly DEF RecordHandoff, Tasks
  <2> QED BY <2>1 DEF Moved
<1>7. TaskOK(attempt', Current, d, mailbox, linked, reg, session', own.key)
  <2>1. session' = session
    BY DEF RecordHandoff
  <2> HIDE DEF Served, Reached
  <2> QED BY <1>1, <1>2, <1>3, <1>4, <1>6, <2>1 DEF TaskOK, Waiting, Naming
<1>8. "confirm" \in Tasks
  BY DEF Tasks
<1> QED BY <1>1, <1>5, <1>7, <1>8, MoveStep, CounterTypes DEF RecordHandoff, relayVars

(* A message of this ID that the Relay holds is a distribution of the key. *)
LEMMA HoldsKey ==
  ASSUME IInv, attempt # None, NEW d \in Devices, NEW n \in Nat, n # 0, Holds(d, n)
  PROVE  HasKey(mailbox, d, Current.key)
<1>1. PICK p \in DOMAIN mailbox[d] : mailbox[d][p].send = attempt.send /\ mailbox[d][p].n = n
  BY DEF Holds
<1>2. MailOK(mailbox[d][p], intent, own)
  BY DEF IInv, MailInv
<1> QED BY <1>1, <1>2 DEF HasKey, MailOK, IsDistribution, Current

(* A message that the Relay holds under the ID of a repaired pre-message   *)
(* settles it: the install has the key, though no row says so.             *)
LEMMA HoldPreStep ==
  ASSUME IInv, NEW d \in Devices, HoldPre(d)
  PROVE  IInv'
<1>1. /\ attempt # None /\ attempt.task[d] \in {"pre", "preAgain"}
      /\ Holds(d, Current.pre[d].n) /\ Move(d, "confirm")
      /\ UNCHANGED <<relayVars, mailbox, session, own, rows, intent, faults>>
  BY DEF HoldPre, Running
<1>2. /\ attempt \in Attempts /\ Current \in Intents
      /\ TaskOK(attempt, Current, d, mailbox, linked, reg, session, own.key)
  BY <1>1, RunningFacts DEF Waiting
<1>3. Current.pre[d] # None
  BY <1>1, <1>2 DEF TaskOK
<1>4. Reached(mailbox, linked, reg, d, Current.pre[d].reg, Current.key)
  <2>1. Current.pre[d].n \in Nat /\ Current.pre[d].n # 0
    BY <1>2, <1>3, IntentFields
  <2> QED BY <1>1, <2>1, HoldsKey DEF Reached
<1>5. /\ attempt'.phase = attempt.phase /\ attempt'.task[d] = "confirm"
      /\ attempt'.refreshed = attempt.refreshed /\ attempt'.removed = attempt.removed
  <2>1. Moved(attempt, attempt', d, "confirm")
    BY <1>1, <1>2, MoveOnly DEF Tasks
  <2> QED BY <2>1 DEF Moved
<1>6. TaskOK(attempt', Current, d, mailbox, linked, reg, session', own.key)
  <2> HIDE DEF Served, Reached
  <2> QED BY <1>1, <1>2, <1>3, <1>4, <1>5 DEF TaskOK, Waiting, Naming
<1>7. "confirm" \in Tasks
  BY DEF Tasks
<1> QED BY <1>1, <1>6, <1>7, MoveStep, CounterTypes, SameMail DEF relayVars

(* A second refusal, or a device message that finds no device, fails the   *)
(* task.                                                                   *)
LEMMA RefusedStep ==
  ASSUME IInv, NEW d \in Devices, Refused(d)
  PROVE  IInv'
<1>1. /\ attempt # None /\ attempt.task[d] \in {"preAgain", "device", "deviceAgain"}
      /\ Move(d, "failed") /\ UNCHANGED <<relayVars, mailbox, session, own, rows, intent, faults>>
  BY DEF Refused, Running
<1>2. /\ attempt \in Attempts /\ attempt.phase \in {"pre", "preLeft", "device"}
      /\ TaskOK(attempt, Current, d, mailbox, linked, reg, session, own.key)
  BY <1>1, RunningFacts DEF Waiting
<1>3. /\ attempt'.phase = attempt.phase /\ attempt'.task[d] = "failed"
      /\ attempt'.refreshed = attempt.refreshed /\ attempt'.removed = attempt.removed
  <2>1. Moved(attempt, attempt', d, "failed")
    BY <1>1, <1>2, MoveOnly DEF Tasks
  <2> QED BY <2>1 DEF Moved
<1>4. TaskOK(attempt', Current, d, mailbox, linked, reg, session', own.key)
  BY <1>1, <1>2, <1>3 DEF TaskOK, Waiting, Naming
<1>5. "failed" \in Tasks
  BY DEF Tasks
<1> QED BY <1>1, <1>4, <1>5, MoveStep, CounterTypes, SameMail DEF relayVars

(* A refresh that archives the session and gets no new one leaves no row   *)
(* of the device.                                                          *)
LEMMA FailRefreshStep ==
  ASSUME IInv, NEW d \in Devices, FailRefresh(d)
  PROVE  IInv'
<1>1. /\ attempt # None /\ attempt.task[d] \in {"pre", "device"}
      /\ Move(d, "failed") /\ UNCHANGED <<relayVars, mailbox, own, intent>>
      /\ session' = [session EXCEPT ![d] = 0] /\ rows' = RowsWithout(d) /\ faults' = faults + 1
  BY DEF FailRefresh, Running, Fault
<1>2. /\ attempt \in Attempts /\ attempt.phase \in {"pre", "preLeft", "device"}
      /\ TaskOK(attempt, Current, d, mailbox, linked, reg, session, own.key)
      /\ session \in [Devices -> Nat] /\ reg \in [Devices -> Nat]
  BY <1>1, RunningFacts DEF Waiting
<1>3. /\ attempt'.phase = attempt.phase /\ attempt'.task[d] = "failed"
      /\ attempt'.refreshed = attempt.refreshed /\ attempt'.removed = attempt.removed
  <2>1. Moved(attempt, attempt', d, "failed")
    BY <1>1, <1>2, MoveOnly DEF Tasks
  <2> QED BY <2>1 DEF Moved
<1>4. TaskOK(attempt', Current, d, mailbox, linked, reg, session', own.key)
  <2>1. /\ d \notin attempt.removed /\ attempt.phase \notin Unstored
        /\ d \in attempt.refreshed => Current.dev[d] # None
    BY <1>1, <1>2 DEF TaskOK, Unstored
  <2> QED BY <1>2, <1>3, <2>1 DEF TaskOK, Waiting, Naming
<1>5. "failed" \in Tasks
  BY DEF Tasks
<1>6. LedgerStep(session', rows', mailbox)
  BY <1>1, <1>2, SameMail DEF LedgerStep
<1>7. \A e \in Devices \ {d} : session'[e] = session[e]
  BY <1>1, <1>2
<1> QED BY <1>1, <1>4, <1>5, <1>6, <1>7, MoveStep, CounterTypes DEF relayVars

(* A pre-message for a device that left: the device is removed, and not    *)
(* refreshed.                                                              *)
LEMMA RemovedPreStep ==
  ASSUME IInv, NEW d \in Devices, RemovedPre(d)
  PROVE  IInv'
<1>1. /\ attempt # None /\ attempt.task[d] \in {"pre", "preAgain"} /\ d \notin linked
      /\ attempt' = [attempt EXCEPT !.task[d] = "confirm", !.refreshed = attempt.refreshed \ {d},
                                    !.removed = attempt.removed \union {d}]
      /\ UNCHANGED <<relayVars, mailbox, session, own, rows, intent, faults>>
  BY DEF RemovedPre, Running
<1>2. /\ attempt \in Attempts /\ Current \in Intents
      /\ attempt.phase \in {"pre", "preLeft", "device"}
      /\ DeviceOK(Current, d, mailbox, linked, reg, own)
      /\ TaskOK(attempt, Current, d, mailbox, linked, reg, session, own.key)
      /\ attempt.first => FirstOK(Current, mailbox, own)
  BY <1>1, RunningFacts DEF Waiting
<1> DEFINE T == [attempt.task EXCEPT ![d] = "confirm"]
<1>3. /\ T \in [Devices -> Tasks] /\ T[d] = "confirm"
      /\ \A e \in Devices \ {d} : T[e] = attempt.task[e]
  BY <1>2 DEF Attempts, Tasks
<1>4. /\ attempt' \in Attempts /\ attempt'.send = attempt.send /\ attempt'.first = attempt.first
      /\ attempt'.phase = attempt.phase /\ attempt'.task[d] = "confirm"
      /\ attempt'.refreshed = attempt.refreshed \ {d}
      /\ attempt'.removed = attempt.removed \union {d} /\ attempt'.enc = attempt.enc
      /\ \A e \in Devices \ {d} : attempt'.task[e] = attempt.task[e]
  <2>1. attempt' = [attempt EXCEPT !.task = T, !.refreshed = attempt.refreshed \ {d},
                                   !.removed = attempt.removed \union {d}]
    BY <1>1
  <2> HIDE DEF T
  <2>2. attempt' \in Attempts
    BY <1>2, <1>3, <2>1 DEF Attempts
  <2>3. /\ attempt'.send = attempt.send /\ attempt'.first = attempt.first
        /\ attempt'.phase = attempt.phase /\ attempt'.task = T
        /\ attempt'.refreshed = attempt.refreshed \ {d}
        /\ attempt'.removed = attempt.removed \union {d} /\ attempt'.enc = attempt.enc
    BY <1>2, <2>1 DEF Attempts
  <2> QED BY <1>3, <2>2, <2>3
<1>5. TaskOK(attempt', Current, d, mailbox, linked, reg, session', own.key)
  <2>1. d \notin attempt'.refreshed /\ d \in attempt'.removed /\ attempt.phase \notin Unstored
    BY <1>2, <1>4 DEF Unstored
  <2> QED BY <1>1, <1>2, <1>4, <2>1 DEF TaskOK, Waiting, Naming
<1>6. OneDevice(d, Current, attempt', session')
  BY <1>1, <1>2, <1>4, SameForRefl DEF OneDevice, SameTask
<1>7. attempt.first /\ Current.pre[d] # None => Current.pre[d].index <= Current.index
  BY <1>2 DEF FirstOK
<1>8. intent' = [intent EXCEPT ![attempt.send] = Current]
  BY <1>1, SelfIntent
<1> QED BY <1>1, <1>2, <1>5, <1>6, <1>7, <1>8, QuietOne, CounterTypes, SameMail DEF relayVars

(* repairRejectedPreMessageInTurn, up to the encryption: the refreshed     *)
(* session encrypts a distribution, or after a rotation the task settles   *)
(* without one.                                                            *)
LEMMA RepairPreStep ==
  ASSUME IInv, NEW d \in Devices, RepairPre(d)
  PROVE  IInv'
<1> DEFINE G == Distribution(Current, attempt.first)
<1> DEFINE t == IF G = {} THEN "confirm" ELSE "namePre"
<1> DEFINE T == [attempt.task EXCEPT ![d] = t]
<1> DEFINE E == [attempt.enc EXCEPT ![d] = session'[d]]
<1>1. /\ attempt # None /\ attempt.task[d] = "pre" /\ d \in linked
      /\ session' = [session EXCEPT ![d] = reg[d]] /\ rows' = RowsWithout(d)
      /\ UNCHANGED <<relayVars, mailbox, own, intent, faults>>
  BY DEF RepairPre, Running, Stale
<1>2. attempt' = [attempt EXCEPT !.refreshed = attempt.refreshed \union {d}, !.enc = E, !.task = T]
  BY DEF RepairPre
<1>3. /\ attempt \in Attempts /\ Current \in Intents
      /\ attempt.phase \in {"pre", "preLeft", "device"} /\ Current.status = "stored"
      /\ DeviceOK(Current, d, mailbox, linked, reg, own)
      /\ TaskOK(attempt, Current, d, mailbox, linked, reg, session, own.key)
      /\ reg \in [Devices -> Nat] /\ session \in [Devices -> Nat] /\ own \in Owns
      /\ session[d] <= reg[d] /\ reg[d] # 0
      /\ attempt.first => FirstOK(Current, mailbox, own)
  BY <1>1, RunningFacts DEF Waiting
<1>4. /\ session' \in [Devices -> Nat] /\ session'[d] = reg[d]
      /\ \A e \in Devices \ {d} : session'[e] = session[e]
      /\ LedgerStep(session', rows', mailbox)
  <2>1. /\ session' \in [Devices -> Nat] /\ session'[d] = reg[d]
        /\ \A e \in Devices \ {d} : session'[e] = session[e]
    BY <1>1, <1>3
  <2>2. LedgerStep(session, RowsWithout(d), mailbox)
    BY SameMail
  <2> QED BY <1>1, <1>3, <2>1, <2>2 DEF LedgerStep
<1>5. /\ T \in [Devices -> Tasks] /\ T[d] = t
      /\ E \in [Devices -> Nat] /\ E[d] = session'[d]
      /\ \A e \in Devices \ {d} : T[e] = attempt.task[e] /\ E[e] = attempt.enc[e]
  <2>1. attempt.task \in [Devices -> Tasks] /\ attempt.enc \in [Devices -> Nat] /\ t \in Tasks
    BY <1>3 DEF Attempts, Tasks
  <2>2. session'[d] \in Nat
    BY <1>4
  <2> HIDE DEF t
  <2> QED BY <2>1, <2>2
<1>6. /\ attempt' \in Attempts /\ attempt'.send = attempt.send /\ attempt'.first = attempt.first
      /\ attempt'.phase = attempt.phase /\ attempt'.task = T /\ attempt'.enc = E
      /\ attempt'.refreshed = attempt.refreshed \union {d}
      /\ attempt'.removed = attempt.removed
  <2> HIDE DEF T, E
  <2>1. attempt' \in Attempts
    BY <1>2, <1>3, <1>5 DEF Attempts
  <2> QED BY <1>2, <1>3, <2>1 DEF Attempts
<1>7. (G = {} => Current.key # own.key) /\ (G # {} => Current.key = own.key)
  <2>1. attempt.first \in BOOLEAN
    BY <1>3 DEF Attempts
  <2>2. G # {} => attempt.first \/ own.key = Current.key
    BY <1>3, <2>1, DistributionFacts
  <2>3. G = {} => own.key # Current.key
    BY <1>3, <2>1, DistributionFacts
  <2> QED BY <1>3, <2>2, <2>3 DEF FirstOK
<1> HIDE DEF G, T, E
<1>8. /\ Current.pre[d] # None /\ Current.dev[d] # None /\ d \notin attempt.removed
      /\ Current.pre[d].reg <= reg[d]
  BY <1>1, <1>3 DEF TaskOK, DeviceOK, PreOK
<1>9. TaskOK(attempt', Current, d, mailbox, linked, reg, session', own.key)
  <2>1. /\ attempt'.task[d] = t /\ attempt'.enc[d] = session'[d]
        /\ d \in attempt'.refreshed /\ d \notin attempt'.removed
        /\ attempt'.phase \in {"pre", "preLeft", "device"} /\ attempt'.phase \notin Unstored
    BY <1>3, <1>5, <1>6, <1>8 DEF Unstored
  <2>2. session'[d] # 0 /\ Current.pre[d].reg <= session'[d]
    BY <1>3, <1>4, <1>8
  <2>3. CASE G = {}
    BY <1>7, <1>8, <2>1, <2>2, <2>3 DEF TaskOK, Waiting, Naming
  <2>4. CASE G # {}
    BY <1>7, <1>8, <2>1, <2>2, <2>4 DEF TaskOK, Waiting, Naming
  <2> QED BY <2>3, <2>4
<1>10. OneDevice(d, Current, attempt', session')
  <2>1. ASSUME NEW e \in Devices \ {d} PROVE SameTask(attempt, attempt', e)
    BY <1>5, <1>6 DEF SameTask
  <2> QED BY <1>3, <1>4, <1>6, <2>1, SameForRefl DEF OneDevice
<1>11. attempt.first /\ Current.pre[d] # None => Current.pre[d].index <= Current.index
  BY <1>3 DEF FirstOK
<1>12. intent' = [intent EXCEPT ![attempt.send] = Current]
  BY <1>1, SelfIntent
<1> QED BY <1>1, <1>3, <1>4, <1>9, <1>10, <1>11, <1>12, QuietOne, CounterTypes DEF relayVars

\* The intent j is i with a new pre-message for d.
NamedOne(i, j, d, x, r) ==
  /\ j \in Intents /\ SameBase(i, j) /\ j.status = i.status /\ j.dev = i.dev
  /\ j.pre[d] = PreOf(i, x, r, d) /\ j.issued[d] = i.issued[d] + 1
  /\ \A e \in Devices \ {d} : j.pre[e] = i.pre[e] /\ j.issued[e] = i.issued[e]

\* The distribution that an attempt gives while the key is current.
LEMMA HandoffOne ==
  ASSUME attempt \in Attempts, session \in [Devices -> Nat], own \in Owns,
         NEW i \in Intents, NEW d \in Devices, i.key = own.key,
         attempt.first => i.index <= own.index
  PROVE  \E x \in Nat :
           /\ NamedOne(i, WithHandoffs(i, {d}, Distribution(i, attempt.first), TRUE), d, x, TRUE)
           /\ x <= own.index
           /\ attempt.first => x = i.index
<1> DEFINE G == Distribution(i, attempt.first)
<1> DEFINE D == {d}
<1> DEFINE j == WithHandoffs(i, D, G, TRUE)
<1>1. attempt.first \in BOOLEAN
  BY DEF Attempts
<1>2. PICK x \in Nat : /\ AtMost(G, x)
                       /\ G = {} => ~attempt.first /\ own.key # i.key
                       /\ attempt.first => x = i.index
                       /\ ~attempt.first => x = own.index
  BY <1>1, DistributionFacts
<1>3. G # {} /\ x <= own.index /\ (attempt.first => x = i.index)
  BY <1>2 DEF Owns
<1>4. \A e \in Devices : e \in D <=> e = d
  OBVIOUS
<1> HIDE DEF G, D
<1>5. Named(i, j, D, x, TRUE)
  BY <1>2, <1>3, WithHandoffsFacts
<1> HIDE DEF j
<1>6. NamedOne(i, j, d, x, TRUE)
  BY <1>4, <1>5 DEF Named, NamedOne
<1> QED BY <1>3, <1>6 DEF G, D, j

(* repairRejectedPreMessageInTurn, from the read of the registration on:   *)
(* the new pre-message names the session of this moment.                   *)
LEMMA NamePreStep ==
  ASSUME IInv, NEW d \in Devices, NamePre(d)
  PROVE  IInv'
<1> DEFINE j == WithHandoffs(Current, {d}, Distribution(Current, attempt.first), TRUE)
<1>1. /\ attempt # None /\ attempt.task[d] = "namePre"
      /\ intent' = [intent EXCEPT ![attempt.send] = j] /\ Move(d, "preAgain")
      /\ UNCHANGED <<relayVars, mailbox, session, own, rows, faults>>
  BY DEF NamePre, Running, SetIntent
<1>2. /\ attempt \in Attempts /\ Current \in Intents
      /\ attempt.phase \in {"pre", "preLeft", "device"} /\ Current.status = "stored"
      /\ DeviceOK(Current, d, mailbox, linked, reg, own)
      /\ TaskOK(attempt, Current, d, mailbox, linked, reg, session, own.key)
      /\ reg \in [Devices -> Nat] /\ session \in [Devices -> Nat] /\ own \in Owns
      /\ session[d] <= reg[d]
      /\ attempt.first => FirstOK(Current, mailbox, own)
  BY <1>1, RunningFacts DEF Waiting
<1>3. /\ Current.pre[d] # None /\ Current.dev[d] # None /\ Current.key = own.key
      /\ Current.pre[d].reg <= session[d] /\ session[d] # 0
      /\ attempt.enc[d] = session[d] \/ d \in Current.met
      /\ d \notin attempt.removed
  BY <1>1, <1>2 DEF TaskOK, Naming
<1>4. PICK x \in Nat : /\ NamedOne(Current, j, d, x, TRUE) /\ x <= own.index
                       /\ attempt.first => x = Current.index
  <2>1. attempt.first => Current.index <= own.index
    BY <1>2 DEF FirstOK
  <2> QED BY <1>2, <1>3, <2>1, HandoffOne
<1> HIDE DEF j
<1>5. /\ j \in Intents /\ SameBase(Current, j) /\ j.status = Current.status /\ j.dev = Current.dev
      /\ j.pre[d] = PreOf(Current, x, TRUE, d) /\ j.issued[d] = Current.issued[d] + 1
      /\ \A e \in Devices \ {d} : j.pre[e] = Current.pre[e] /\ j.issued[e] = Current.issued[e]
  BY <1>4 DEF NamedOne
<1>6. j.pre[d] # None /\ j.pre[d].reg = session[d] /\ j.pre[d].index = x
  <2>1. TRUE \in BOOLEAN
    OBVIOUS
  <2>2. /\ PreOf(Current, x, TRUE, d) # None /\ PreOf(Current, x, TRUE, d).reg = session[d]
        /\ PreOf(Current, x, TRUE, d).index = x
    BY <1>2, <1>4, <2>1, PreOfFields
  <2> QED BY <1>5, <2>2
<1>7. DeviceOK(j, d, mailbox, linked, reg, own)
  <2>1. TRUE \in BOOLEAN
    OBVIOUS
  <2> QED BY <1>2, <1>3, <1>4, <1>5, <2>1, NewPreOK
<1>8. /\ attempt' \in Attempts /\ attempt'.send = attempt.send /\ attempt'.first = attempt.first
      /\ attempt'.phase = attempt.phase /\ attempt'.task[d] = "preAgain"
      /\ attempt'.refreshed = attempt.refreshed /\ attempt'.removed = attempt.removed
      /\ attempt'.enc = attempt.enc
      /\ \A e \in Devices \ {d} : attempt'.task[e] = attempt.task[e]
  <2>1. Moved(attempt, attempt', d, "preAgain")
    BY <1>1, <1>2, MoveOnly DEF Tasks
  <2> QED BY <2>1 DEF Moved
<1>9. TaskOK(attempt', j, d, mailbox, linked, reg, session', own.key)
  <2>1. Served(j, d, mailbox, linked, reg, session')
    BY <1>1, <1>3, <1>6 DEF Served
  <2>2. /\ attempt'.phase \in {"pre", "preLeft", "device"} /\ attempt'.phase \notin Unstored
        /\ j.dev[d] # None /\ d \notin attempt'.removed /\ session'[d] # 0
    BY <1>1, <1>2, <1>3, <1>5, <1>8 DEF Unstored
  <2> QED BY <1>6, <1>8, <2>1, <2>2 DEF TaskOK, Waiting, Naming
<1>10. OneDevice(d, j, attempt', session')
  <2>1. ASSUME NEW e \in Devices \ {d}
        PROVE  SameFor(Current, j, e) /\ SameTask(attempt, attempt', e)
    BY <1>5, <1>8 DEF SameFor, SameTask, SameBase
  <2> QED BY <1>1, <1>5, <1>8, <2>1 DEF OneDevice, SameBase
<1>11. attempt.first /\ j.pre[d] # None => j.pre[d].index <= j.index
  <2>1. attempt.first => x = j.index
    BY <1>4, <1>5 DEF SameBase
  <2>2. x \in Nat /\ x <= x
    BY <1>4
  <2> QED BY <1>6, <2>1, <2>2
<1> QED BY <1>1, <1>7, <1>9, <1>10, <1>11, QuietOne, CounterTypes, SameMail DEF relayVars

(* The renewal of one device message after the repair of its pre-message.  *)
LEMMA RenewDeviceStep ==
  ASSUME IInv, NEW d \in Devices, RenewDevice(d)
  PROVE  IInv'
<1> DEFINE j == WithDevice(Current, {d}, session)
<1>1. /\ attempt # None /\ attempt.task[d] = "renew"
      /\ intent' = [intent EXCEPT ![attempt.send] = j] /\ Move(d, "deviceAgain")
      /\ UNCHANGED <<relayVars, mailbox, session, own, rows, faults>>
  BY DEF RenewDevice, Running, SetIntent
<1>2. /\ attempt \in Attempts /\ Current \in Intents
      /\ attempt.phase \in {"pre", "preLeft", "device"} /\ Current.status = "stored"
      /\ DeviceOK(Current, d, mailbox, linked, reg, own)
      /\ TaskOK(attempt, Current, d, mailbox, linked, reg, session, own.key)
      /\ reg \in [Devices -> Nat] /\ session \in [Devices -> Nat] /\ own \in Owns
      /\ session[d] <= reg[d]
      /\ attempt.first => FirstOK(Current, mailbox, own)
  BY <1>1, RunningFacts DEF Waiting
<1>3. /\ attempt' \in Attempts /\ attempt'.send = attempt.send /\ attempt'.first = attempt.first
      /\ attempt'.phase = attempt.phase /\ attempt'.task[d] = "deviceAgain"
      /\ attempt'.refreshed = attempt.refreshed /\ attempt'.removed = attempt.removed
      /\ attempt'.enc = attempt.enc
      /\ \A e \in Devices \ {d} : attempt'.task[e] = attempt.task[e]
  <2>1. Moved(attempt, attempt', d, "deviceAgain")
    BY <1>1, <1>2, MoveOnly DEF Tasks
  <2> QED BY <2>1 DEF Moved
<1>4. /\ j \in Intents /\ SameBase(Current, j) /\ j.status = Current.status
      /\ j.pre = Current.pre /\ j.issued = Current.issued /\ j.dev[d] = session[d]
      /\ \A e \in Devices \ {d} : j.dev[e] = Current.dev[e]
  BY <1>2, WithDeviceFacts
<1> HIDE DEF j
<1>5. /\ d \in attempt.refreshed /\ attempt.phase = "device" /\ Current.pre[d] = None
  BY <1>1, <1>2 DEF TaskOK
<1>6. Current.key # own.key \/ d \in Current.met \/ Served(Current, d, mailbox, linked, reg, session)
  BY <1>1, <1>2, <1>5 DEF TaskOK
<1>7. DeviceOK(j, d, mailbox, linked, reg, own)
  BY <1>2, <1>4, <1>6, NewDevOK
<1>8. Served(Current, d, mailbox, linked, reg, session) => Served(j, d, mailbox, linked, reg, session)
  BY <1>4 DEF Served, SameBase
<1>9. session[d] # None
  BY <1>2, GroupSendAssumption
<1>10. TaskOK(attempt', j, d, mailbox, linked, reg, session', own.key)
  <2>1. /\ session' = session /\ j.pre[d] = None /\ j.dev[d] # None /\ d \notin attempt'.removed
        /\ session[d] # 0
    BY <1>1, <1>2, <1>3, <1>4, <1>5, <1>9 DEF TaskOK
  <2>2. attempt'.phase = "device" /\ attempt'.phase \notin Unstored
    BY <1>3, <1>5 DEF Unstored
  <2> QED BY <1>3, <1>4, <1>5, <1>6, <1>8, <2>1, <2>2 DEF TaskOK, SameBase, Waiting, Naming
<1>11. OneDevice(d, j, attempt', session')
  <2>1. ASSUME NEW e \in Devices \ {d}
        PROVE  SameFor(Current, j, e) /\ SameTask(attempt, attempt', e)
    BY <1>3, <1>4 DEF SameFor, SameTask, SameBase
  <2> QED BY <1>1, <1>3, <1>4, <2>1 DEF OneDevice, SameBase
<1>12. j.pre[d] = None
  BY <1>4, <1>5
<1> QED BY <1>1, <1>7, <1>10, <1>11, <1>12, QuietOne, CounterTypes, SameMail DEF relayVars

(* The intent without one pre-message.                                     *)
LEMMA DropOneFacts ==
  ASSUME NEW i \in Intents, NEW d \in Devices
  PROVE  /\ [i EXCEPT !.pre[d] = None] \in Intents
         /\ SameBase(i, [i EXCEPT !.pre[d] = None])
         /\ [i EXCEPT !.pre[d] = None].status = i.status
         /\ [i EXCEPT !.pre[d] = None].dev = i.dev
         /\ [i EXCEPT !.pre[d] = None].issued = i.issued
         /\ [i EXCEPT !.pre[d] = None].pre[d] = None
         /\ \A e \in Devices \ {d} : [i EXCEPT !.pre[d] = None].pre[e] = i.pre[e]
<1> DEFINE P == [i.pre EXCEPT ![d] = None]
<1>1. /\ P \in [Devices -> PreMessages \union {None}] /\ P[d] = None
      /\ \A e \in Devices \ {d} : P[e] = i.pre[e]
  BY DEF Intents
<1>2. [i EXCEPT !.pre[d] = None] = [i EXCEPT !.pre = P]
  OBVIOUS
<1> HIDE DEF P
<1> QED BY <1>1, <1>2 DEF Intents, SameBase

(* The confirmation of the pre-message of a repaired device.               *)
LEMMA ConfirmRepairStep ==
  ASSUME IInv, NEW d \in Devices, ConfirmRepair(d)
  PROVE  IInv'
<1> DEFINE kept == [Current EXCEPT !.pre[d] = None]
<1> DEFINE D == {d}
<1> DEFINE j == IF d \in attempt.removed THEN WithoutDevices(kept, D) ELSE kept
<1> DEFINE t == IF d \in attempt.removed THEN "done"
                ELSE IF d \in attempt.refreshed THEN "renew" ELSE "deviceAgain"
<1>1. /\ attempt # None /\ attempt.task[d] = "confirm" /\ attempt.phase = "device"
      /\ intent' = [intent EXCEPT ![attempt.send] = j] /\ Move(d, t)
      /\ UNCHANGED <<relayVars, mailbox, session, own, rows, faults>>
  BY DEF ConfirmRepair, SetIntent
<1>2. /\ attempt \in Attempts /\ Current \in Intents /\ Current.status = "stored"
      /\ DeviceOK(Current, d, mailbox, linked, reg, own)
      /\ TaskOK(attempt, Current, d, mailbox, linked, reg, session, own.key)
      /\ reg \in [Devices -> Nat] /\ session \in [Devices -> Nat] /\ own \in Owns
  BY <1>1, RunningFacts DEF Waiting
<1>3. t \in Tasks
  BY DEF Tasks
<1>4. \A e \in Devices : e \in D <=> e = d
  OBVIOUS
<1>5. /\ kept \in Intents /\ SameBase(Current, kept) /\ kept.status = Current.status
      /\ kept.dev = Current.dev /\ kept.issued = Current.issued /\ kept.pre[d] = None
      /\ \A e \in Devices \ {d} : kept.pre[e] = Current.pre[e]
  BY <1>2, DropOneFacts
<1> HIDE DEF kept, D, t
<1>6. /\ attempt' \in Attempts /\ attempt'.send = attempt.send /\ attempt'.first = attempt.first
      /\ attempt'.phase = attempt.phase /\ attempt'.task[d] = t
      /\ attempt'.refreshed = attempt.refreshed /\ attempt'.removed = attempt.removed
      /\ attempt'.enc = attempt.enc
      /\ \A e \in Devices \ {d} : attempt'.task[e] = attempt.task[e]
  <2>1. Moved(attempt, attempt', d, t)
    BY <1>1, <1>2, <1>3, MoveOnly
  <2> QED BY <2>1 DEF Moved
<1>7. /\ j \in Intents /\ SameBase(Current, j) /\ j.status = Current.status
      /\ j.issued = Current.issued /\ j.pre[d] = None
      /\ d \in attempt.removed => j.dev[d] = None
      /\ d \notin attempt.removed => j.dev[d] = Current.dev[d]
      /\ \A e \in Devices \ {d} : j.pre[e] = Current.pre[e] /\ j.dev[e] = Current.dev[e]
  <2>1. CASE d \in attempt.removed
    <3>1. j = WithoutDevices(kept, D)
      BY <2>1
    <3> HIDE DEF j
    <3> QED BY <1>4, <1>5, <2>1, <3>1, WithoutDevicesFacts DEF SameBase
  <2>2. CASE d \notin attempt.removed
    BY <1>5, <2>2
  <2> QED BY <2>1, <2>2
<1> HIDE DEF j
<1>8. d \notin attempt.removed =>
        /\ Current.pre[d] # None /\ Current.dev[d] # None
        /\ \/ Current.key # own.key
           \/ Reached(mailbox, linked, reg, d, Current.pre[d].reg, Current.key)
  BY <1>1, <1>2 DEF TaskOK, DeviceOK, PreOK
<1>9. DeviceOK(j, d, mailbox, linked, reg, own)
  <2>1. CASE d \in attempt.removed
    <3>1. d \in Current.members => d \notin linked
      BY <1>2, <2>1 DEF TaskOK
    <3> QED BY <1>2, <1>7, <2>1, <3>1, DropAllOK
  <2>2. CASE d \notin attempt.removed
    BY <1>2, <1>7, <1>8, <2>2, DropPreOK
  <2> QED BY <2>1, <2>2
<1>10. TaskOK(attempt', j, d, mailbox, linked, reg, session', own.key)
  <2>1. d \in attempt.refreshed /\ Current.key = own.key /\ d \notin Current.met =>
          Served(j, d, mailbox, linked, reg, session)
    <3>1. SUFFICES ASSUME d \in attempt.refreshed, Current.key = own.key, d \notin Current.met
                   PROVE  Served(j, d, mailbox, linked, reg, session)
      OBVIOUS
    <3>2. Served(Current, d, mailbox, linked, reg, session) /\ d \notin attempt.removed
      BY <1>1, <1>2, <3>1 DEF TaskOK
    <3>3. Reached(mailbox, linked, reg, d, Current.pre[d].reg, Current.key)
      BY <1>8, <3>1, <3>2
    <3>4. session[d] # 0 /\ Reached(mailbox, linked, reg, d, session[d], j.key)
      BY <1>7, <3>2, <3>3 DEF Served, SameBase
    <3> QED BY <3>4 DEF Served
  <2>2. session' = session
    BY <1>1
  <2>6. attempt'.phase = "device" /\ attempt'.phase \notin Unstored
    BY <1>1, <1>6 DEF Unstored
  <2>3. CASE d \in attempt.removed
    <3>1. t = "done" /\ d \notin attempt.refreshed /\ (d \in j.members => d \notin linked)
      BY <1>2, <1>7, <2>3 DEF t, TaskOK, SameBase
    <3> QED BY <1>1, <1>6, <1>7, <2>2, <2>3, <2>6, <3>1 DEF TaskOK, Waiting, Naming
  <2>4. CASE d \notin attempt.removed /\ d \in attempt.refreshed
    <3>1. t = "renew" /\ session[d] # 0
      BY <1>1, <1>2, <2>4 DEF t, TaskOK
    <3> QED BY <1>1, <1>6, <1>7, <1>8, <2>1, <2>2, <2>4, <2>6, <3>1 DEF TaskOK, SameBase, Waiting, Naming
  <2>5. CASE d \notin attempt.removed /\ d \notin attempt.refreshed
    <3>1. t = "deviceAgain"
      BY <2>5 DEF t
    <3> QED BY <1>1, <1>6, <1>7, <1>8, <2>2, <2>5, <2>6, <3>1 DEF TaskOK, Waiting, Naming
  <2> QED BY <2>3, <2>4, <2>5
<1>11. OneDevice(d, j, attempt', session')
  <2>1. ASSUME NEW e \in Devices \ {d}
        PROVE  SameFor(Current, j, e) /\ SameTask(attempt, attempt', e)
    BY <1>6, <1>7 DEF SameFor, SameTask, SameBase
  <2> QED BY <1>1, <1>6, <1>7, <2>1 DEF OneDevice, SameBase
<1>12. j.pre[d] = None
  BY <1>7
<1> QED BY <1>1, <1>9, <1>10, <1>11, <1>12, QuietOne, CounterTypes, SameMail DEF relayVars

(* repairStaleGroupDevice, up to the encryption: the new device message    *)
(* names a session that has a row, or the key has rotated, or the session  *)
(* encrypts a distribution first.                                          *)
LEMMA RepairDeviceStep ==
  ASSUME IInv, NEW d \in Devices, RepairDevice(d)
  PROVE  IInv'
<1> DEFINE held == [key |-> Current.key, dev |-> d, reg |-> session'[d]] \in rows'
<1> DEFINE D == {d}
<1> DEFINE G == Distribution(Current, attempt.first)
<1> DEFINE j == WithDevice(Current, D, session')
<1> DEFINE T == [attempt.task EXCEPT ![d] = "nameDevice"]
<1> DEFINE E == [attempt.enc EXCEPT ![d] = session'[d]]
<1>1. /\ attempt # None /\ attempt.task[d] = "device" /\ d \in linked
      /\ IF session[d] \in {0, Current.dev[d]}
           THEN session' = [session EXCEPT ![d] = reg[d]] /\ rows' = RowsWithout(d)
           ELSE session' = session /\ rows' = rows
      /\ UNCHANGED <<relayVars, mailbox, own, faults>>
  BY DEF RepairDevice, Running, Stale
<1>2. /\ held \/ G = {} => intent' = [intent EXCEPT ![attempt.send] = j] /\ Move(d, "deviceAgain")
      /\ ~(held \/ G = {}) => intent' = intent /\ attempt' = [attempt EXCEPT !.task = T, !.enc = E]
  BY DEF RepairDevice, SetIntent
<1>3. /\ attempt \in Attempts /\ Current \in Intents /\ Current.status = "stored"
      /\ DeviceOK(Current, d, mailbox, linked, reg, own)
      /\ TaskOK(attempt, Current, d, mailbox, linked, reg, session, own.key)
      /\ reg \in [Devices -> Nat] /\ session \in [Devices -> Nat] /\ own \in Owns
      /\ session[d] <= reg[d] /\ reg[d] # 0
      /\ attempt.first => FirstOK(Current, mailbox, own)
  BY <1>1, RunningFacts DEF Waiting
<1>4. /\ session' \in [Devices -> Nat] /\ session'[d] # 0 /\ session'[d] <= reg[d]
      /\ \A e \in Devices \ {d} : session'[e] = session[e]
      /\ LedgerStep(session', rows', mailbox)
  <2>1. CASE session[d] \in {0, Current.dev[d]}
    <3>1. /\ session' \in [Devices -> Nat] /\ session'[d] = reg[d]
          /\ \A e \in Devices \ {d} : session'[e] = session[e]
      BY <1>1, <1>3, <2>1
    <3>2. LedgerStep(session, RowsWithout(d), mailbox)
      BY SameMail
    <3> QED BY <1>1, <1>3, <2>1, <3>1, <3>2 DEF LedgerStep
  <2>2. CASE session[d] \notin {0, Current.dev[d]}
    BY <1>1, <1>3, <2>2, SameMail
  <2> QED BY <2>1, <2>2
<1>5. held => Reached(mailbox, linked, reg, d, session'[d], Current.key)
  BY <1>4 DEF LedgerStep
<1>6. (G = {} => Current.key # own.key) /\ (G # {} => Current.key = own.key)
  <2>1. attempt.first \in BOOLEAN
    BY <1>3 DEF Attempts
  <2>2. G # {} => attempt.first \/ own.key = Current.key
    BY <1>3, <2>1, DistributionFacts
  <2>3. G = {} => own.key # Current.key
    BY <1>3, <2>1, DistributionFacts
  <2> QED BY <1>3, <2>2, <2>3 DEF FirstOK
<1>7. /\ Current.pre[d] = None /\ Current.dev[d] # None /\ attempt.phase = "device"
      /\ attempt.phase \notin Unstored /\ d \notin attempt.removed
  BY <1>1, <1>3 DEF TaskOK, Unstored
<1> HIDE DEF held, G
<1>8. CASE held \/ G = {}
  <2>1. \A e \in Devices : e \in D <=> e = d
    OBVIOUS
  <2> HIDE DEF D
  <2>2. /\ j \in Intents /\ SameBase(Current, j) /\ j.status = Current.status /\ j.pre = Current.pre
        /\ j.issued = Current.issued /\ j.dev[d] = session'[d]
        /\ \A e \in Devices \ {d} : j.dev[e] = Current.dev[e]
    BY <1>3, <1>4, <2>1, WithDeviceFacts
  <2> HIDE DEF j
  <2>3. Current.key # own.key \/ Served(Current, d, mailbox, linked, reg, session')
    BY <1>4, <1>5, <1>6, <1>8 DEF Served
  <2>4. DeviceOK(j, d, mailbox, linked, reg, own)
    BY <1>3, <1>4, <2>2, <2>3, NewDevOK
  <2>5. /\ attempt' \in Attempts /\ attempt'.send = attempt.send /\ attempt'.first = attempt.first
        /\ attempt'.phase = attempt.phase /\ attempt'.task[d] = "deviceAgain"
        /\ attempt'.refreshed = attempt.refreshed /\ attempt'.removed = attempt.removed
        /\ attempt'.enc = attempt.enc
        /\ \A e \in Devices \ {d} : attempt'.task[e] = attempt.task[e]
    <3>1. Moved(attempt, attempt', d, "deviceAgain")
      BY <1>2, <1>3, <1>8, MoveOnly DEF Tasks
    <3> QED BY <3>1 DEF Moved
  <2>6. TaskOK(attempt', j, d, mailbox, linked, reg, session', own.key)
    <3>1. j.dev[d] # None /\ j.pre[d] = None /\ d \notin attempt'.removed
      BY <1>4, <1>7, <2>2, <2>5, GroupSendAssumption
    <3>2. j.key # own.key \/ Served(j, d, mailbox, linked, reg, session')
      BY <2>2, <2>3 DEF Served, SameBase
    <3>3. attempt'.phase = "device" /\ attempt'.phase \notin Unstored
      BY <1>7, <2>5
    <3> HIDE DEF Served
    <3> QED BY <1>4, <2>5, <3>1, <3>2, <3>3 DEF TaskOK, Waiting, Naming
  <2>7. OneDevice(d, j, attempt', session')
    <3>1. ASSUME NEW e \in Devices \ {d}
          PROVE  SameFor(Current, j, e) /\ SameTask(attempt, attempt', e)
      BY <2>2, <2>5 DEF SameFor, SameTask, SameBase
    <3> QED BY <1>4, <2>2, <2>5, <3>1 DEF OneDevice, SameBase
  <2>8. j.pre[d] = None
    BY <1>7, <2>2
  <2> QED BY <1>1, <1>2, <1>4, <1>8, <2>4, <2>6, <2>7, <2>8, QuietOne, CounterTypes DEF relayVars
<1>9. CASE ~(held \/ G = {})
  <2>1. /\ T \in [Devices -> Tasks] /\ T[d] = "nameDevice"
        /\ E \in [Devices -> Nat] /\ E[d] = session'[d]
        /\ \A e \in Devices \ {d} : T[e] = attempt.task[e] /\ E[e] = attempt.enc[e]
    <3>1. /\ attempt.task \in [Devices -> Tasks] /\ attempt.enc \in [Devices -> Nat]
          /\ "nameDevice" \in Tasks /\ session'[d] \in Nat
      BY <1>3, <1>4 DEF Attempts, Tasks
    <3> QED BY <3>1
  <2> HIDE DEF T, E
  <2>2. /\ attempt' \in Attempts /\ attempt'.send = attempt.send /\ attempt'.first = attempt.first
        /\ attempt'.phase = attempt.phase /\ attempt'.task = T /\ attempt'.enc = E
        /\ attempt'.refreshed = attempt.refreshed
        /\ attempt'.removed = attempt.removed
    <3>1. attempt' \in Attempts
      BY <1>2, <1>3, <1>9, <2>1 DEF Attempts
    <3> QED BY <1>2, <1>3, <1>9, <3>1 DEF Attempts
  <2>3. TaskOK(attempt', Current, d, mailbox, linked, reg, session', own.key)
    <3>1. /\ attempt'.task[d] = "nameDevice" /\ attempt'.enc[d] = session'[d]
          /\ attempt'.phase = "device" /\ attempt'.phase \notin Unstored
          /\ d \notin attempt'.removed /\ Current.key = own.key
      BY <1>6, <1>7, <1>9, <2>1, <2>2
    <3> QED BY <1>4, <1>7, <3>1 DEF TaskOK, Waiting, Naming
  <2>4. OneDevice(d, Current, attempt', session')
    <3>1. ASSUME NEW e \in Devices \ {d} PROVE SameTask(attempt, attempt', e)
      BY <2>1, <2>2 DEF SameTask
    <3> QED BY <1>3, <1>4, <2>2, <3>1, SameForRefl DEF OneDevice
  <2>5. intent' = [intent EXCEPT ![attempt.send] = Current]
    BY <1>1, <1>2, <1>9, SelfIntent
  <2> QED BY <1>1, <1>3, <1>4, <1>7, <2>3, <2>4, <2>5, QuietOne, CounterTypes DEF relayVars
<1> QED BY <1>8, <1>9

(* repairStaleGroupDevice, from the read of the registration on: the new   *)
(* device message names the session that the new pre-message names.        *)
LEMMA NameDeviceStep ==
  ASSUME IInv, NEW d \in Devices, NameDevice(d)
  PROVE  IInv'
<1> DEFINE h == WithHandoffs(Current, {d}, Distribution(Current, attempt.first), TRUE)
<1> DEFINE D == {d}
<1> DEFINE j == WithDevice(h, D, session)
<1>1. /\ attempt # None /\ attempt.task[d] = "nameDevice"
      /\ intent' = [intent EXCEPT ![attempt.send] = j] /\ Move(d, "pre")
      /\ UNCHANGED <<relayVars, mailbox, session, own, rows, faults>>
  BY DEF NameDevice, Running, SetIntent
<1>2. /\ attempt \in Attempts /\ Current \in Intents /\ Current.status = "stored"
      /\ DeviceOK(Current, d, mailbox, linked, reg, own)
      /\ TaskOK(attempt, Current, d, mailbox, linked, reg, session, own.key)
      /\ reg \in [Devices -> Nat] /\ session \in [Devices -> Nat] /\ own \in Owns
      /\ session[d] <= reg[d]
      /\ attempt.first => FirstOK(Current, mailbox, own)
  BY <1>1, RunningFacts DEF Waiting
<1>3. /\ Current.pre[d] = None /\ Current.dev[d] # None /\ Current.key = own.key
      /\ session[d] # 0 /\ (attempt.enc[d] = session[d] \/ d \in Current.met)
      /\ d \notin attempt.removed /\ attempt.phase = "device"
  BY <1>1, <1>2 DEF TaskOK, Naming
<1>4. PICK x \in Nat : /\ NamedOne(Current, h, d, x, TRUE) /\ x <= own.index
                       /\ attempt.first => x = Current.index
  <2>1. attempt.first => Current.index <= own.index
    BY <1>2 DEF FirstOK
  <2> QED BY <1>2, <1>3, <2>1, HandoffOne
<1> HIDE DEF h
<1>5. /\ h \in Intents /\ SameBase(Current, h) /\ h.status = Current.status /\ h.dev = Current.dev
      /\ h.pre[d] = PreOf(Current, x, TRUE, d) /\ h.issued[d] = Current.issued[d] + 1
      /\ \A e \in Devices \ {d} : h.pre[e] = Current.pre[e] /\ h.issued[e] = Current.issued[e]
  BY <1>4 DEF NamedOne
<1>6. \A e \in Devices : e \in D <=> e = d
  OBVIOUS
<1> HIDE DEF D
<1>7. /\ j \in Intents /\ SameBase(h, j) /\ j.status = h.status /\ j.pre = h.pre
      /\ j.issued = h.issued /\ j.dev[d] = session[d]
      /\ \A e \in Devices \ {d} : j.dev[e] = h.dev[e]
  BY <1>2, <1>5, <1>6, WithDeviceFacts
<1> HIDE DEF j
<1>8. SameBase(Current, j) /\ j.status = Current.status
  BY <1>5, <1>7 DEF SameBase
<1>9. j.pre[d] # None /\ j.pre[d].reg = session[d] /\ j.pre[d].index = x
  <2>1. TRUE \in BOOLEAN
    OBVIOUS
  <2>2. /\ PreOf(Current, x, TRUE, d) # None /\ PreOf(Current, x, TRUE, d).reg = session[d]
        /\ PreOf(Current, x, TRUE, d).index = x
    BY <1>2, <1>4, <2>1, PreOfFields
  <2> QED BY <1>5, <1>7, <2>2
<1>10. DeviceOK(j, d, mailbox, linked, reg, own)
  <2>1. TRUE \in BOOLEAN
    OBVIOUS
  <2>2. j.pre[d] = PreOf(Current, x, TRUE, d) /\ j.issued[d] = Current.issued[d] + 1
    BY <1>5, <1>7
  <2> QED BY <1>2, <1>3, <1>4, <1>7, <1>8, <2>1, <2>2, NewPreOK
<1>11. /\ attempt' \in Attempts /\ attempt'.send = attempt.send /\ attempt'.first = attempt.first
       /\ attempt'.phase = attempt.phase /\ attempt'.task[d] = "pre"
       /\ attempt'.refreshed = attempt.refreshed /\ attempt'.removed = attempt.removed
       /\ attempt'.enc = attempt.enc
       /\ \A e \in Devices \ {d} : attempt'.task[e] = attempt.task[e]
  <2>1. Moved(attempt, attempt', d, "pre")
    BY <1>1, <1>2, MoveOnly DEF Tasks
  <2> QED BY <2>1 DEF Moved
<1>12. TaskOK(attempt', j, d, mailbox, linked, reg, session', own.key)
  <2>1. Served(j, d, mailbox, linked, reg, session')
    BY <1>1, <1>3, <1>9 DEF Served
  <2>2. /\ attempt'.phase = "device" /\ attempt'.phase \notin Unstored
        /\ d \notin attempt'.removed /\ session'[d] # 0
    BY <1>1, <1>3, <1>11 DEF Unstored
  <2>3. j.dev[d] # None
    BY <1>2, <1>7, GroupSendAssumption
  <2> QED BY <1>9, <1>11, <2>1, <2>2, <2>3 DEF TaskOK, Waiting, Naming
<1>13. OneDevice(d, j, attempt', session')
  <2>1. ASSUME NEW e \in Devices \ {d}
        PROVE  SameFor(Current, j, e) /\ SameTask(attempt, attempt', e)
    BY <1>5, <1>7, <1>8, <1>11 DEF SameFor, SameTask, SameBase
  <2> QED BY <1>1, <1>7, <1>8, <1>11, <2>1 DEF OneDevice, SameBase
<1>14. attempt.first /\ j.pre[d] # None => j.pre[d].index <= j.index
  <2>1. attempt.first => x = j.index
    BY <1>4, <1>8 DEF SameBase
  <2>2. x \in Nat /\ x <= x
    BY <1>4
  <2> QED BY <1>9, <2>1, <2>2
<1> QED BY <1>1, <1>10, <1>12, <1>13, <1>14, QuietOne, CounterTypes, SameMail DEF relayVars

-----------------------------------------------------------------------------
(* The posts.                                                              *)

\* The sequence c starts with the n elements of b.
Extends(b, c, n) == \A q \in 1 .. n : c[q] = b[q]

(* A longer mailbox leaves the earlier positions as they were.             *)
LEMMA ExtendsKeeps ==
  ASSUME NEW b, NEW c, NEW n \in Nat, NEW p \in 1 .. n, Extends(b, c, n), NEW key
  PROVE  (OpensAt(b, p) => OpensAt(c, p)) /\ (KeyAt(b, p, key) => KeyAt(c, p, key))
<1>1. c[p] = b[p] /\ \A q \in 1 .. p - 1 : c[q] = b[q]
  BY DEF Extends
<1>2. \A q \in 1 .. p - 1 : \A r \in 1 .. q - 1 : c[r] = b[r]
  BY DEF Extends
<1>3. OpensAt(b, p) => OpensAt(c, p)
  BY <1>1, <1>2, Zenon DEF OpensAt
<1>4. KeyAt(b, p, key) => KeyAt(c, p, key)
  BY <1>1, Zenon DEF KeyAt
<1> QED BY <1>3, <1>4

(* The mailbox with one more message.                                      *)
LEMMA AppendFacts ==
  ASSUME NEW S, NEW b \in Seq(S), NEW m \in S
  PROVE  /\ Append(b, m) \in Seq(S) /\ Len(b) \in Nat
         /\ DOMAIN b = 1 .. Len(b) /\ DOMAIN Append(b, m) = 1 .. Len(b) + 1
         /\ Append(b, m)[Len(b) + 1] = m
         /\ Extends(b, Append(b, m), Len(b))
  BY DEF Extends

\* The first distribution of a key.
LEMMA FirstDistribution ==
  ASSUME NEW b, NEW n \in Nat, NEW key, \E q \in 1 .. n : IsDistribution(b[q], key)
  PROVE  \E q \in 1 .. n : /\ IsDistribution(b[q], key)
                           /\ \A r \in 1 .. q - 1 : ~IsDistribution(b[r], key)
<1> DEFINE T == {q \in 1 .. n : IsDistribution(b[q], key)}
<1>1. T \subseteq Nat /\ T # {}
  OBVIOUS
<1>2. \A q \in T : q \in 1 .. n /\ IsDistribution(b[q], key)
  OBVIOUS
<1>3. \A q \in 1 .. n : IsDistribution(b[q], key) => q \in T
  OBVIOUS
<1> HIDE DEF T
<1>4. PICK x \in T : \A y \in T : x <= y
  BY <1>1, LeastElement
<1>5. ASSUME NEW r \in 1 .. x - 1 PROVE ~IsDistribution(b[r], key)
  <2>1. x \in 1 .. n
    BY <1>2
  <2>2. r \in 1 .. n /\ ~(x <= r)
    BY <2>1
  <2>3. r \notin T
    BY <1>4, <2>2
  <2> QED BY <1>3, <2>2, <2>3
<1> QED BY <1>2, <1>5

\* What the attempt may post to d under the ID n.
Postable(d, n, row) ==
  /\ row \in Messages /\ row.send = attempt.send /\ row.n = n /\ row.key = Current.key
  /\ OpensOrMet(row)
  /\ n # 0 /\ attempt.first => row.index <= Current.index
  /\ n # 0 /\ row.key = own.key => row.index <= own.index
  /\ n = 0 => /\ ~row.met /\ row.key = own.key => HasKey(mailbox, d, row.key)
              /\ row.first => attempt.first /\ row.index = Current.index

\* What the post to d did.
Arrived(d, n, box2) ==
  /\ MailStep(box2) /\ FirstStep(box2)
  /\ \A e \in Devices : \A p \in DOMAIN box2[e] : OpensAt(box2[e], p) /\ KeyAt(box2[e], p, own.key)
  /\ n # 0 => HasKey(box2, d, Current.key)

(* The core of the two properties of the mailboxes: the Relay takes a      *)
(* postable message.  A distribution of the first attempt is at no later   *)
(* index than the send, and a group message comes after a distribution.    *)
LEMMA Deliver ==
  ASSUME IInv, attempt # None, attempt.phase \notin Unstored, NEW d \in Devices, NEW n \in Nat,
         NEW row, Postable(d, n, row)
  PROVE  Arrived(d, n, [mailbox EXCEPT ![d] = Delivered(d, n, row)])
<1>1. /\ attempt \in Attempts /\ attempt.send \in Sends /\ Current \in Intents
      /\ Current = intent[attempt.send] /\ Current # None /\ Current.status = "stored"
      /\ Current.key <= own.key
      /\ attempt.first => FirstOK(Current, mailbox, own)
  BY CurrentFacts, GroupSendAssumption DEF AttemptOK, IntentOK, Current
<1>2. /\ mailbox \in [Devices -> Seq(Messages)] /\ reg \in [Devices -> Nat] /\ own \in Owns
      /\ \A e \in Devices : \A p \in DOMAIN mailbox[e] :
           OpensAt(mailbox[e], p) /\ KeyAt(mailbox[e], p, own.key) /\ MailOK(mailbox[e][p], intent, own)
  BY DEF IInv, TypeOK, Owns, MailInv, OpensInv, KeyInv
<1>3. MailStep(mailbox) /\ FirstStep(mailbox)
  BY SameMail, FirstSame
<1> DEFINE box2 == [mailbox EXCEPT ![d] = Delivered(d, n, row)]
<1>4. CASE Holds(d, n)
  <2>1. box2 = mailbox
    BY <1>2, <1>4 DEF Delivered
  <2>2. ASSUME n # 0 PROVE HasKey(mailbox, d, Current.key)
    BY <1>4, <2>2, HoldsKey
  <2> QED BY <1>2, <1>3, <2>1, <2>2 DEF Arrived
<1>5. CASE ~Holds(d, n)
  <2> DEFINE b == mailbox[d]
  <2> DEFINE c == Append(b, row)
  <2>1. /\ box2 = [mailbox EXCEPT ![d] = c] /\ box2[d] = c
        /\ \A e \in Devices \ {d} : box2[e] = mailbox[e]
    BY <1>2, <1>5 DEF Delivered
  <2>2. /\ c \in Seq(Messages) /\ Len(b) \in Nat
        /\ DOMAIN b = 1 .. Len(b) /\ DOMAIN c = 1 .. Len(b) + 1
        /\ c[Len(b) + 1] = row /\ Extends(b, c, Len(b))
    BY <1>2, AppendFacts DEF Postable
  <2> DEFINE L == Len(b)
  <2> HIDE DEF box2, b, c, L
  <2>3. /\ c \in Seq(Messages) /\ L \in Nat /\ DOMAIN b = 1 .. L /\ DOMAIN c = 1 .. L + 1
        /\ c[L + 1] = row /\ Extends(b, c, L) /\ \A p \in 1 .. L : c[p] = b[p]
    BY <2>2 DEF L, Extends
  <2>4. ASSUME NEW p \in DOMAIN c PROVE p \in 1 .. L \/ p = L + 1
    BY <2>3
  <2>5. box2 \in [Devices -> Seq(Messages)]
    BY <1>2, <2>1, <2>3
  <2>6. \A key : HasKey(mailbox, d, key) => HasKey(box2, d, key)
    <3>1. \A p \in 1 .. L : p \in 1 .. L + 1
      BY <2>3
    <3> QED BY <2>1, <2>3, <3>1, Zenon DEF HasKey, b
  <2>7. n # 0 => HasKey(box2, d, Current.key)
    <3>1. L + 1 \in 1 .. L + 1
      BY <2>3
    <3> QED BY <2>1, <2>3, <3>1 DEF HasKey, IsDistribution, Postable
  <2>8. Grows(mailbox, linked, reg, box2, linked, reg)
    <3>1. \A e \in Devices : \A key : HasKey(mailbox, e, key) => HasKey(box2, e, key)
      BY <2>1, <2>6 DEF HasKey
    <3> HIDE DEF HasKey
    <3> QED BY <1>2, <3>1 DEF Grows, Reached
  <2>9. MailOK(row, intent, own)
    BY <1>1, <1>2 DEF MailOK, Postable
  <2>10. ASSUME NEW e \in Devices, NEW p \in DOMAIN box2[e]
         PROVE  MailOK(box2[e][p], intent, own)
    <3>1. CASE e # d
      BY <1>2, <2>1, <3>1
    <3>2. CASE e = d
      BY <1>2, <2>1, <2>3, <2>4, <2>9, <3>2 DEF b
    <3> QED BY <3>1, <3>2
  <2>11. FirstStep(box2)
    <3>1. SUFFICES ASSUME attempt.first, NEW e \in Devices, NEW p \in DOMAIN box2[e],
                          IsDistribution(box2[e][p], Current.key)
                   PROVE  box2[e][p].index <= Current.index
      BY DEF FirstStep
    <3>2. CASE e # d
      BY <1>3, <2>1, <3>1, <3>2 DEF FirstStep
    <3>3. CASE e = d /\ p \in 1 .. L
      BY <1>3, <2>1, <2>3, <3>1, <3>3 DEF FirstStep, b
    <3>4. CASE e = d /\ p = L + 1
      BY <2>1, <2>3, <3>1, <3>4 DEF Postable, IsDistribution
    <3> QED BY <2>1, <2>4, <3>2, <3>3, <3>4
  <2>12. n = 0 /\ ~row.met /\ row.key = own.key => \E q \in 1 .. L : IsDistribution(c[q], row.key)
    <3>1. n = 0 /\ ~row.met /\ row.key = own.key => HasKey(mailbox, d, row.key)
      BY DEF Postable
    <3> QED BY <2>3, <3>1, Zenon DEF HasKey, b
  <2>13. KeyAt(c, L + 1, own.key)
    <3>1. (L + 1) - 1 = L
      BY <2>3
    <3> QED BY <2>3, <2>12, <3>1 DEF KeyAt, Postable
  <2>14. OpensAt(c, L + 1)
    <3>1. SUFFICES ASSUME row.n = 0, row.first, ~row.met
                   PROVE  \E q \in 1 .. L :
                            /\ IsDistribution(c[q], row.key) /\ c[q].index <= row.index
                            /\ \A r \in 1 .. q - 1 : ~IsDistribution(c[r], row.key)
      <4>1. (L + 1) - 1 = L
        BY <2>3
      <4> QED BY <2>3, <4>1, Zenon DEF OpensAt
    <3>2. n = 0 /\ attempt.first /\ row.index = Current.index /\ row.key = Current.key
      BY <3>1 DEF Postable
    <3>3. row.key = own.key
      BY <1>1, <3>2 DEF FirstOK
    <3>4. \E q \in 1 .. L : IsDistribution(c[q], row.key)
      BY <2>12, <3>1, <3>2, <3>3
    <3>5. PICK q \in 1 .. L : /\ IsDistribution(c[q], row.key)
                              /\ \A r \in 1 .. q - 1 : ~IsDistribution(c[r], row.key)
      BY <2>3, <3>4, FirstDistribution
    <3>6. c[q].index <= row.index
      <4>1. q \in DOMAIN box2[d] /\ box2[d][q] = c[q]
        BY <2>1, <2>3
      <4> QED BY <2>11, <3>2, <3>5, <4>1 DEF FirstStep
    <3> QED BY <3>5, <3>6
  <2>15. ASSUME NEW e \in Devices, NEW p \in DOMAIN box2[e]
         PROVE  OpensAt(box2[e], p) /\ KeyAt(box2[e], p, own.key)
    <3>1. CASE e # d
      BY <1>2, <2>1, <3>1
    <3>2. CASE e = d /\ p \in 1 .. L
      <4>1. OpensAt(b, p) /\ KeyAt(b, p, own.key)
        BY <1>2, <2>3, <3>2 DEF b
      <4> QED BY <2>1, <2>3, <3>2, <4>1, ExtendsKeeps
    <3>3. CASE e = d /\ p = L + 1
      BY <2>1, <2>13, <2>14, <3>3
    <3> QED BY <2>1, <2>4, <3>1, <3>2, <3>3
  <2>16. MailStep(box2)
    BY <2>5, <2>8, <2>10 DEF MailStep
  <2> QED BY <2>7, <2>11, <2>15, <2>16 DEF Arrived, box2
<1> QED BY <1>4, <1>5

(* What the delivery shows, as properties of the new mailboxes.            *)
LEMMA ArrivedProperties ==
  ASSUME NEW d, NEW n, Arrived(d, n, mailbox'), own' = own
  PROVE  /\ MailStep(mailbox') /\ FirstStep(mailbox')
         /\ OpensInv' /\ KeyInv'
<1>1. \A e \in Devices : \A p \in DOMAIN mailbox'[e] :
        OpensAt(mailbox'[e], p) /\ KeyAt(mailbox'[e], p, own'.key)
  BY DEF Arrived
<1>2. OpensInv'
  BY <1>1, Zenon DEF OpensInv, OpensAt
<1>3. KeyInv'
  BY <1>1, Zenon DEF KeyInv, KeyAt
<1> QED BY <1>2, <1>3 DEF Arrived

\* The mailboxes as they are.
LEMMA NothingArrived ==
  ASSUME IInv, attempt # None, NEW d
  PROVE  Arrived(d, 0, mailbox)
  BY SameMail, FirstSame DEF Arrived, IInv, OpensInv, KeyInv

\* The progress entry of an acceptance.
Accept(i, d, n) == [i EXCEPT !.accepted = @ \union {<<d, n>>}]

(* The progress entry of a message changes what the intent says of its     *)
(* device alone.                                                           *)
LEMMA AcceptFacts ==
  ASSUME NEW i \in Intents, NEW d \in Devices, NEW n \in Nat
  PROVE  /\ Accept(i, d, n) \in Intents
         /\ Accept(i, d, n).accepted = i.accepted \union {<<d, n>>}
         /\ Accept(i, d, n).status = i.status /\ Accept(i, d, n).key = i.key
         /\ Accept(i, d, n).index = i.index /\ Accept(i, d, n).members = i.members
         /\ Accept(i, d, n).met = i.met /\ Accept(i, d, n).pre = i.pre
         /\ Accept(i, d, n).dev = i.dev /\ Accept(i, d, n).issued = i.issued
         /\ \A e \in Devices \ {d} : SameFor(i, Accept(i, d, n), e)
<1> DEFINE A == i.accepted \union {<<d, n>>}
<1>1. A \in SUBSET (Devices \X Nat)
  BY DEF Intents
<1>2. \A q : q[1] # d => (q \in A <=> q \in i.accepted)
  OBVIOUS
<1>3. Accept(i, d, n) = [i EXCEPT !.accepted = A]
  BY DEF Accept
<1> HIDE DEF A
<1>4. /\ Accept(i, d, n) \in Intents /\ Accept(i, d, n).accepted = A
      /\ Accept(i, d, n).status = i.status /\ Accept(i, d, n).key = i.key
      /\ Accept(i, d, n).index = i.index /\ Accept(i, d, n).members = i.members
      /\ Accept(i, d, n).met = i.met /\ Accept(i, d, n).pre = i.pre
      /\ Accept(i, d, n).dev = i.dev /\ Accept(i, d, n).issued = i.issued
  BY <1>1, <1>3 DEF Intents
<1> HIDE DEF Accept
<1> QED BY <1>2, <1>4 DEF SameFor, A

\* The Relay accepts the message n of d.
LEMMA AcceptOK ==
  ASSUME NEW i \in Intents, NEW j \in Intents, NEW d \in Devices, NEW n \in Nat,
         NEW box, NEW lnk, NEW rg, NEW ow,
         DeviceOK(i, d, box, lnk, rg, ow), j = Accept(i, d, n),
         n <= i.issued[d],
         i.pre[d] # None /\ n = i.pre[d].n => Reached(box, lnk, rg, d, i.pre[d].reg, i.key)
  PROVE  DeviceOK(j, d, box, lnk, rg, ow)
<1>1. /\ j.accepted = i.accepted \union {<<d, n>>}
      /\ j.status = i.status /\ j.key = i.key /\ j.members = i.members /\ j.met = i.met
      /\ j.pre = i.pre /\ j.dev = i.dev /\ j.issued = i.issued
  BY AcceptFacts
<1>2. \A m : <<d, m>> \in j.accepted => <<d, m>> \in i.accepted \/ m = n
  BY <1>1
<1>3. \A m : <<d, m>> \in i.accepted => <<d, m>> \in j.accepted
  BY <1>1
<1>4. PreOK(j, d, box, lnk, rg)
  BY <1>1, <1>2, Zenon DEF DeviceOK, PreOK
<1>5. IdOK(j, d)
  BY <1>1 DEF DeviceOK, IdOK
<1>6. CoverOK(j, d, box, lnk, rg, ow.key)
  BY <1>1, Zenon DEF DeviceOK, CoverOK
<1>7. MemberOK(j, d, lnk, rg)
  BY <1>1, <1>3, Zenon DEF DeviceOK, MemberOK
<1>8. IndexOK(j, d, ow)
  BY <1>1, Zenon DEF DeviceOK, IndexOK
<1> QED BY <1>4, <1>5, <1>6, <1>7, <1>8 DEF DeviceOK

\* Where a task of d runs, the conditions on d hold for the new mailboxes too.
LEMMA AfterMail ==
  ASSUME IInv, NEW d \in Devices, attempt # None, attempt.task[d] \notin Waiting, NEW box2, MailStep(box2)
  PROVE  /\ DeviceOK(Current, d, box2, linked, reg, own)
         /\ TaskOK(attempt, Current, d, box2, linked, reg, session, own.key)
<1>1. /\ Current \in Intents /\ Current.key <= own.key
      /\ DeviceOK(Current, d, mailbox, linked, reg, own)
      /\ TaskOK(attempt, Current, d, mailbox, linked, reg, session, own.key)
      /\ reg \in [Devices -> Nat] /\ session \in [Devices -> Nat] /\ own \in Owns
      /\ session[d] <= reg[d]
  BY RunningFacts
<1>2. KeyMoves(own, own)
  BY <1>1 DEF KeyMoves, Owns
<1>3. DeviceOK(Current, d, box2, linked, reg, own)
  BY <1>1, <1>2, DeviceGrows DEF MailStep
<1>4. TaskOK(attempt, Current, d, box2, linked, reg, session, own.key)
  BY <1>1, TaskGrows DEF MailStep
<1> QED BY <1>3, <1>4

\* A post that ends with the intent j and the task t of d.
LEMMA PostStep ==
  ASSUME IInv, NEW d \in Devices, attempt # None, attempt.task[d] \notin Waiting,
         NEW n, Arrived(d, n, mailbox'), UNCHANGED <<relayVars, session, own, rows>>,
         faults' \in Nat, NEW j, intent' = [intent EXCEPT ![attempt.send] = j],
         \/ j = Current
         \/ \E m \in Nat : j = Accept(Current, d, m),
         NEW t, t \in Tasks, Move(d, t),
         DeviceOK(j, d, mailbox', linked, reg, own),
         TaskOK(attempt', j, d, mailbox', linked, reg, session, own.key)
  PROVE  IInv'
<1>1. /\ attempt \in Attempts /\ Current \in Intents
      /\ attempt.first => FirstOK(Current, mailbox, own)
  BY RunningFacts
<1>2. Moved(attempt, attempt', d, t)
  BY <1>1, MoveOnly
<1>3. /\ j \in Intents /\ j.key = Current.key /\ j.index = Current.index
      /\ j.status = Current.status /\ j.pre = Current.pre
      /\ \A e \in Devices \ {d} : SameFor(Current, j, e)
  <2>1. CASE j = Current
    BY <1>1, <2>1, SameForRefl
  <2>2. CASE \E m \in Nat : j = Accept(Current, d, m)
    BY <1>1, <2>2, AcceptFacts
  <2> QED BY <2>1, <2>2
<1>4. OneDevice(d, j, attempt', session')
  BY <1>2, <1>3 DEF OneDevice, Moved, SameTask
<1>5. attempt.first /\ j.pre[d] # None => j.pre[d].index <= j.index
  BY <1>1, <1>3 DEF FirstOK
<1>6. /\ MailStep(mailbox') /\ FirstStep(mailbox') /\ OpensInv' /\ KeyInv'
  BY ArrivedProperties
<1>7. LedgerStep(session', rows', mailbox')
  BY <1>6, RowsGrow
<1>8. TaskOK(attempt', j, d, mailbox', linked, reg, session', own.key)
  OBVIOUS
<1> QED BY <1>4, <1>5, <1>6, <1>7, <1>8, OneDeviceStep, CounterTypes DEF relayVars

(* The pre-message of a running task can be posted.                        *)
LEMMA PreRowPostable ==
  ASSUME IInv, NEW d \in Devices, attempt # None, attempt.task[d] \in {"pre", "preAgain"}
  PROVE  /\ Deliverable(d, Current.pre[d].reg) => Postable(d, Current.pre[d].n, PreRow(d))
         /\ Current.pre[d] # None
         /\ Current.pre[d].n \in Nat \ {0} /\ attempt.phase \notin Unstored
<1>1. /\ attempt \in Attempts /\ Current \in Intents
      /\ attempt.phase \in {"pre", "preLeft", "device"}
      /\ DeviceOK(Current, d, mailbox, linked, reg, own)
      /\ TaskOK(attempt, Current, d, mailbox, linked, reg, session, own.key)
      /\ attempt.first => FirstOK(Current, mailbox, own)
  BY RunningFacts DEF Waiting
<1>2. Current.pre[d] # None
  BY <1>1 DEF TaskOK
<1>3. /\ Current.pre[d].n \in Nat \ {0} /\ Current.pre[d].index \in Nat /\ Current.key \in Nat
      /\ attempt.phase \notin Unstored
  BY <1>1, <1>2, IntentFields DEF Unstored
<1>4. attempt.send \in Sends
  BY <1>1 DEF Attempts
<1>5. PreRow(d) \in Messages
  <2>1. (d \in Current.met) \in BOOLEAN /\ (Current.pre[d].enc = reg[d]) \in BOOLEAN
    OBVIOUS
  <2> QED BY <1>3, <1>4, <2>1, Zenon DEF PreRow, Messages
<1>6. /\ PreRow(d).send = attempt.send /\ PreRow(d).n = Current.pre[d].n
      /\ PreRow(d).key = Current.key /\ PreRow(d).index = Current.pre[d].index
  BY DEF PreRow
<1>7. attempt.first => PreRow(d).index <= Current.index
  BY <1>1, <1>2, <1>6 DEF FirstOK
<1>8. PreRow(d).key = own.key => PreRow(d).index <= own.index
  BY <1>1, <1>2, <1>6 DEF DeviceOK, IndexOK
<1>9. Deliverable(d, Current.pre[d].reg) => OpensOrMet(PreRow(d))
  <2>1. SUFFICES ASSUME Deliverable(d, Current.pre[d].reg)
                 PROVE  PreRow(d).opens \/ PreRow(d).met
    BY DEF OpensOrMet
  <2>2. Current.pre[d].reg = reg[d] /\ (Current.pre[d].enc = reg[d] \/ d \in Current.met)
    BY <1>1, <1>2, <2>1 DEF Deliverable, DeviceOK, PreOK
  <2> QED BY <2>2, Zenon DEF PreRow
<1> HIDE DEF PreRow
<1> QED BY <1>1, <1>2, <1>3, <1>5, <1>6, <1>7, <1>8, <1>9 DEF Postable

(* postPreMessage, with a new post or with an acceptance that the progress *)
(* already has.                                                            *)
LEMMA PostPreStep ==
  ASSUME IInv, NEW d \in Devices, PostPre(d)
  PROVE  IInv'
<1> DEFINE n == Current.pre[d].n
<1>1. /\ attempt # None /\ attempt.task[d] \in {"pre", "preAgain"}
      /\ Posted(d, n, Current.pre[d].reg, PreRow(d)) /\ Move(d, "row")
      /\ UNCHANGED <<relayVars, session, own, rows, faults>>
  BY DEF PostPre, Running
<1>2. /\ Deliverable(d, Current.pre[d].reg) => Postable(d, n, PreRow(d))
      /\ Current.pre[d] # None /\ n \in Nat \ {0} /\ attempt.phase \notin Unstored
  BY <1>1, PreRowPostable
<1>3. /\ attempt \in Attempts /\ Current \in Intents
      /\ attempt.phase \in {"pre", "preLeft", "device"}
      /\ DeviceOK(Current, d, mailbox, linked, reg, own)
      /\ TaskOK(attempt, Current, d, mailbox, linked, reg, session, own.key)
  BY <1>1, RunningFacts DEF Waiting
<1>4. "row" \in Tasks
  BY DEF Tasks
<1>5. Moved(attempt, attempt', d, "row")
  BY <1>1, <1>3, <1>4, MoveOnly
<1>6. d \notin attempt.removed
  BY <1>1, <1>3 DEF TaskOK
<1>7. CASE <<d, n>> \in Current.accepted
  <2>1. mailbox' = mailbox /\ intent' = intent
    BY <1>1, <1>7 DEF Posted
  <2>2. TaskOK(attempt', Current, d, mailbox', linked, reg, session, own.key)
    BY <1>1, <1>2, <1>3, <1>5, <1>6, <1>7, <2>1 DEF TaskOK, Moved, Waiting, Naming, Unstored
  <2>3. Arrived(d, 0, mailbox')
    BY <1>1, <2>1, NothingArrived
  <2>4. intent' = [intent EXCEPT ![attempt.send] = Current]
    BY <1>1, <2>1, SelfIntent
  <2>5. DeviceOK(Current, d, mailbox', linked, reg, own)
    BY <1>3, <2>1
  <2> QED BY <1>1, <1>4, <2>2, <2>3, <2>4, <2>5, PostStep, CounterTypes DEF Waiting
<1>8. CASE <<d, n>> \notin Current.accepted
  <2> DEFINE j == Accept(Current, d, n)
  <2>1. /\ mailbox' = [mailbox EXCEPT ![d] = Delivered(d, n, PreRow(d))]
        /\ intent' = [intent EXCEPT ![attempt.send] = j] /\ Deliverable(d, Current.pre[d].reg)
    BY <1>1, <1>8 DEF Posted, SetIntent, Accept
  <2>2. Arrived(d, n, mailbox')
    BY <1>1, <1>2, <2>1, Deliver
  <2>3. MailStep(mailbox') /\ HasKey(mailbox', d, Current.key)
    BY <1>2, <2>2 DEF Arrived
  <2>4. /\ DeviceOK(Current, d, mailbox', linked, reg, own)
        /\ TaskOK(attempt, Current, d, mailbox', linked, reg, session, own.key)
    BY <1>1, <2>3, AfterMail DEF Waiting
  <2>5. /\ j \in Intents /\ j.accepted = Current.accepted \union {<<d, n>>}
        /\ j.status = Current.status /\ j.key = Current.key /\ j.members = Current.members
        /\ j.met = Current.met /\ j.pre = Current.pre /\ j.dev = Current.dev
    BY <1>2, <1>3, AcceptFacts
  <2>6. DeviceOK(j, d, mailbox', linked, reg, own)
    <3>1. Reached(mailbox', linked, reg, d, Current.pre[d].reg, Current.key)
      BY <2>3 DEF Reached
    <3>2. n <= Current.issued[d]
      BY <1>2, <1>3 DEF DeviceOK, PreOK
    <3> HIDE DEF j, n
    <3> QED BY <1>2, <1>3, <2>4, <2>5, <3>1, <3>2, AcceptOK DEF j
  <2>7. Served(Current, d, mailbox', linked, reg, session) => Served(j, d, mailbox', linked, reg, session)
    BY <2>5 DEF Served
  <2>8. TaskOK(attempt', j, d, mailbox', linked, reg, session, own.key)
    <3>1. j.pre[d] # None /\ <<d, j.pre[d].n>> \in j.accepted /\ d \notin attempt'.removed
      BY <1>2, <1>5, <1>6, <2>5 DEF Moved
    <3> HIDE DEF j, n, Served
    <3> QED BY <1>1, <1>3, <1>5, <2>4, <2>5, <2>7, <3>1 DEF TaskOK, Moved, Waiting, Naming, Unstored
  <2>9. \E m \in Nat : j = Accept(Current, d, m)
    BY <1>2
  <2> HIDE DEF j
  <2> QED BY <1>1, <1>4, <2>1, <2>2, <2>6, <2>8, <2>9, PostStep, CounterTypes DEF Waiting
<1> QED BY <1>7, <1>8

\* A lost answer fails the task, whatever the Relay did.
LEMMA LostStep ==
  ASSUME IInv, NEW d \in Devices, attempt # None, attempt.task[d] \notin Waiting,
         NEW n, Arrived(d, n, mailbox'), UNCHANGED <<relayVars, session, own, rows, intent>>,
         faults' \in Nat, Move(d, "failed"), d \notin attempt.removed
  PROVE  IInv'
<1>1. attempt \in Attempts /\ attempt.phase \in {"pre", "preLeft", "device"}
  BY RunningFacts
<1>2. /\ DeviceOK(Current, d, mailbox', linked, reg, own)
      /\ TaskOK(attempt, Current, d, mailbox', linked, reg, session, own.key)
  BY AfterMail DEF Arrived, Waiting
<1>3. "failed" \in Tasks
  BY DEF Tasks
<1>4. Moved(attempt, attempt', d, "failed")
  BY <1>1, <1>3, MoveOnly
<1>5. TaskOK(attempt', Current, d, mailbox', linked, reg, session, own.key)
  BY <1>1, <1>2, <1>4 DEF TaskOK, Moved, Waiting, Naming, Unstored
<1>6. intent' = [intent EXCEPT ![attempt.send] = Current]
  BY SelfIntent
<1> QED BY <1>2, <1>3, <1>5, <1>6, PostStep

(* A pre-message whose answer is lost.                                     *)
LEMMA LosePreStep ==
  ASSUME IInv, NEW d \in Devices, LosePre(d)
  PROVE  IInv'
<1> DEFINE n == Current.pre[d].n
<1>1. /\ attempt # None /\ attempt.task[d] \in {"pre", "preAgain"} /\ faults' = faults + 1
      /\ \/ mailbox' = mailbox
         \/ /\ Deliverable(d, Current.pre[d].reg)
            /\ mailbox' = [mailbox EXCEPT ![d] = Delivered(d, n, PreRow(d))]
      /\ Move(d, "failed") /\ UNCHANGED <<relayVars, session, own, rows, intent>>
  BY DEF LosePre, Running, PostLost, Fault
<1>2. /\ Deliverable(d, Current.pre[d].reg) => Postable(d, n, PreRow(d))
      /\ n \in Nat \ {0} /\ attempt.phase \notin Unstored
  BY <1>1, PreRowPostable
<1>3. d \notin attempt.removed
  BY <1>1, RunningFacts DEF TaskOK, Waiting
<1>4. \E m : Arrived(d, m, mailbox')
  <2>1. CASE mailbox' = mailbox
    BY <1>1, <2>1, NothingArrived
  <2>2. CASE /\ Deliverable(d, Current.pre[d].reg)
             /\ mailbox' = [mailbox EXCEPT ![d] = Delivered(d, n, PreRow(d))]
    <3>1. Postable(d, n, PreRow(d)) /\ n \in Nat
      BY <1>2, <2>2
    <3> HIDE DEF n
    <3>2. Arrived(d, n, mailbox')
      BY <1>1, <1>2, <2>2, <3>1, Deliver
    <3> QED BY <3>2
  <2> QED BY <1>1, <2>1, <2>2
<1> QED BY <1>1, <1>3, <1>4, LostStep, CounterTypes DEF Waiting

(* The group message of a running task can be posted where the Relay takes *)
(* it: the install that its registration names has the key.                *)
LEMMA GroupRowPostable ==
  ASSUME IInv, NEW d \in Devices, attempt # None, attempt.task[d] \in {"device", "deviceAgain"},
         Deliverable(d, Current.dev[d])
  PROVE  Postable(d, 0, GroupRow(d)) /\ attempt.phase \notin Unstored
<1>1. /\ attempt \in Attempts /\ Current \in Intents /\ Current.status = "stored"
      /\ attempt.phase \in {"pre", "preLeft", "device"}
      /\ DeviceOK(Current, d, mailbox, linked, reg, own)
      /\ TaskOK(attempt, Current, d, mailbox, linked, reg, session, own.key)
  BY RunningFacts DEF Waiting
<1>2. Current.pre[d] = None /\ Current.dev[d] # None
  BY <1>1 DEF TaskOK
<1>3. d \notin Current.met /\ Current.key = own.key => HasKey(mailbox, d, Current.key)
  BY <1>1, <1>2 DEF DeviceOK, CoverOK, Deliverable, Reached
<1>4. /\ attempt.send \in Sends /\ attempt.first \in BOOLEAN
      /\ Current.key \in Nat /\ Current.index \in Nat
  BY <1>1, IntentFields DEF Attempts
<1>5. GroupRow(d) \in Messages
  <2>1. (d \in Current.met) \in BOOLEAN
    OBVIOUS
  <2>2. 0 \in Nat /\ TRUE \in BOOLEAN
    OBVIOUS
  <2> QED BY <1>4, <2>1, <2>2, Zenon DEF GroupRow, Messages
<1>6. /\ GroupRow(d).send = attempt.send /\ GroupRow(d).n = 0
      /\ GroupRow(d).key = Current.key /\ GroupRow(d).index = Current.index
      /\ GroupRow(d).first = attempt.first /\ GroupRow(d).met = (d \in Current.met)
  BY DEF GroupRow
<1>7. GroupRow(d).first => attempt.first
  BY <1>6, Zenon
<1>8. ~GroupRow(d).met => d \notin Current.met
  BY <1>6, Zenon
<1> HIDE DEF GroupRow
<1> QED BY <1>1, <1>3, <1>5, <1>6, <1>7, <1>8 DEF Postable, OpensOrMet, Unstored

(* A group message whose answer is lost.                                   *)
LEMMA LoseDeviceStep ==
  ASSUME IInv, NEW d \in Devices, LoseDevice(d)
  PROVE  IInv'
<1>1. /\ attempt # None /\ attempt.task[d] \in {"device", "deviceAgain"} /\ faults' = faults + 1
      /\ \/ mailbox' = mailbox
         \/ /\ Deliverable(d, Current.dev[d])
            /\ mailbox' = [mailbox EXCEPT ![d] = Delivered(d, 0, GroupRow(d))]
      /\ Move(d, "failed") /\ UNCHANGED <<relayVars, session, own, rows, intent>>
  BY DEF LoseDevice, Running, PostLost, Fault
<1>2. d \notin attempt.removed
  BY <1>1, RunningFacts DEF TaskOK, Waiting
<1>3. \E m : Arrived(d, m, mailbox')
  <2>1. CASE mailbox' = mailbox
    BY <1>1, <2>1, NothingArrived
  <2>2. CASE /\ Deliverable(d, Current.dev[d])
             /\ mailbox' = [mailbox EXCEPT ![d] = Delivered(d, 0, GroupRow(d))]
    <3>1. Arrived(d, 0, mailbox')
      BY <1>1, <2>2, Deliver, GroupRowPostable
    <3> QED BY <3>1
  <2> QED BY <1>1, <2>1, <2>2
<1> QED BY <1>1, <1>2, <1>3, LostStep, CounterTypes DEF Waiting

(* sendGroupDeviceMessage, with a new post or with an acceptance that the  *)
(* progress already has.                                                   *)
LEMMA PostDeviceStep ==
  ASSUME IInv, NEW d \in Devices, PostDevice(d)
  PROVE  IInv'
<1>1. /\ attempt # None /\ attempt.task[d] \in {"device", "deviceAgain"}
      /\ Posted(d, 0, Current.dev[d], GroupRow(d)) /\ Move(d, "done")
      /\ UNCHANGED <<relayVars, session, own, rows, faults>>
  BY DEF PostDevice, Running
<1>2. /\ attempt \in Attempts /\ Current \in Intents
      /\ DeviceOK(Current, d, mailbox, linked, reg, own)
      /\ TaskOK(attempt, Current, d, mailbox, linked, reg, session, own.key)
  BY <1>1, RunningFacts DEF Waiting
<1>3. "done" \in Tasks
  BY DEF Tasks
<1>4. Moved(attempt, attempt', d, "done")
  BY <1>1, <1>2, <1>3, MoveOnly
<1>5. d \notin attempt.removed /\ attempt.phase = "device"
  BY <1>1, <1>2 DEF TaskOK
<1>6. CASE <<d, 0>> \in Current.accepted
  <2>1. mailbox' = mailbox /\ intent' = intent
    BY <1>1, <1>6 DEF Posted
  <2>2. TaskOK(attempt', Current, d, mailbox', linked, reg, session, own.key)
    BY <1>1, <1>2, <1>4, <1>5, <1>6, <2>1 DEF TaskOK, Moved, Waiting, Naming, Unstored
  <2>3. Arrived(d, 0, mailbox')
    BY <1>1, <2>1, NothingArrived
  <2>4. intent' = [intent EXCEPT ![attempt.send] = Current]
    BY <1>1, <2>1, SelfIntent
  <2>5. DeviceOK(Current, d, mailbox', linked, reg, own)
    BY <1>2, <2>1
  <2> QED BY <1>1, <1>3, <2>2, <2>3, <2>4, <2>5, PostStep, CounterTypes DEF Waiting
<1>7. CASE <<d, 0>> \notin Current.accepted
  <2> DEFINE j == Accept(Current, d, 0)
  <2>1. /\ mailbox' = [mailbox EXCEPT ![d] = Delivered(d, 0, GroupRow(d))]
        /\ intent' = [intent EXCEPT ![attempt.send] = j] /\ Deliverable(d, Current.dev[d])
    BY <1>1, <1>7 DEF Posted, SetIntent, Accept
  <2>2. Arrived(d, 0, mailbox')
    BY <1>1, <2>1, Deliver, GroupRowPostable
  <2>3. /\ DeviceOK(Current, d, mailbox', linked, reg, own)
        /\ TaskOK(attempt, Current, d, mailbox', linked, reg, session, own.key)
    BY <1>1, <2>2, AfterMail DEF Arrived, Waiting
  <2>4. /\ j \in Intents /\ j.accepted = Current.accepted \union {<<d, 0>>}
        /\ j.status = Current.status /\ j.key = Current.key /\ j.members = Current.members
        /\ j.met = Current.met /\ j.pre = Current.pre /\ j.dev = Current.dev
    BY <1>2, AcceptFacts
  <2>5. DeviceOK(j, d, mailbox', linked, reg, own)
    <3>1. Current.issued[d] \in Nat /\ (Current.pre[d] # None => Current.pre[d].n # 0)
      BY <1>2, IntentFields
    <3>2. 0 \in Nat /\ 0 <= Current.issued[d]
      BY <3>1
    <3> HIDE DEF j
    <3> QED BY <1>2, <2>3, <2>4, <3>1, <3>2, AcceptOK DEF j
  <2>6. Served(Current, d, mailbox', linked, reg, session) => Served(j, d, mailbox', linked, reg, session)
    BY <2>4 DEF Served
  <2>7. TaskOK(attempt', j, d, mailbox', linked, reg, session, own.key)
    <3>1. <<d, 0>> \in j.accepted
      BY <2>4
    <3> HIDE DEF j, Served
    <3> QED BY <1>1, <1>4, <1>5, <2>3, <2>4, <2>6, <3>1 DEF TaskOK, Moved, Waiting, Naming, Unstored
  <2>8. \E m \in Nat : j = Accept(Current, d, m)
    OBVIOUS
  <2> HIDE DEF j
  <2> QED BY <1>1, <1>3, <2>1, <2>2, <2>5, <2>7, <2>8, PostStep, CounterTypes DEF Waiting
<1> QED BY <1>6, <1>7

-----------------------------------------------------------------------------
(* The steps of the whole intent.                                          *)

(* A step of the whole intent that posts nothing.                          *)
LEMMA QuietAll ==
  ASSUME IInv, attempt # None, UNCHANGED <<relayVars, mailbox, session, own, rows, faults>>,
         NEW j, intent' = [intent EXCEPT ![attempt.send] = j], Replaces(Current, j),
         IntentOK(j, mailbox, linked, reg, own),
         attempt' \in Attempts \union {None},
         attempt' # None =>
           /\ attempt'.send = attempt.send
           /\ AttemptOK(attempt', j, mailbox, linked, reg, session, own)
  PROVE  IInv'
<1>1. OpensInv' /\ KeyInv'
  BY MailProperties DEF IInv
<1>2. /\ MailStep(mailbox') /\ LedgerStep(session', rows', mailbox')
      /\ IntentOK(j, mailbox', linked, reg, own)
      /\ attempt' # None => /\ attempt'.send = attempt.send
                            /\ AttemptOK(attempt', j, mailbox', linked, reg, session', own)
  BY SameMail
<1> QED BY <1>1, <1>2, AttemptStep, CounterTypes DEF relayVars

(* The fields of a new attempt.                                            *)
LEMMA AttemptFacts ==
  ASSUME NEW s \in Sends, NEW first \in BOOLEAN, NEW phase \in Phases,
         NEW tasks \in [Devices -> Tasks]
  PROVE  /\ Attempt(s, first, phase, tasks) \in Attempts
         /\ Attempt(s, first, phase, tasks).send = s
         /\ Attempt(s, first, phase, tasks).first = first
         /\ Attempt(s, first, phase, tasks).phase = phase
         /\ Attempt(s, first, phase, tasks).task = tasks
         /\ Attempt(s, first, phase, tasks).refreshed = {}
         /\ Attempt(s, first, phase, tasks).removed = {}
         /\ \A d \in Devices : Attempt(s, first, phase, tasks).enc[d] = 0
<1> DEFINE E == [d \in Devices |-> 0]
<1>1. E \in [Devices -> Nat] /\ \A d \in Devices : E[d] = 0
  OBVIOUS
<1>2. Attempt(s, first, phase, tasks) =
        [send |-> s, first |-> first, phase |-> phase, task |-> tasks,
         refreshed |-> {}, removed |-> {}, enc |-> E]
  BY DEF Attempt
<1> HIDE DEF E
<1> QED BY <1>1, <1>2 DEF Attempts

\* A phase of pre-messages that starts.
LEMMA FreshPre ==
  ASSUME NEW s \in Sends, NEW first \in BOOLEAN, NEW phase \in {"pre", "preLeft"},
         NEW i \in Intents, i.status = "stored",
         NEW box, NEW lnk, NEW rg, NEW ss, NEW ow, first => FirstOK(i, box, ow)
  PROVE  /\ Attempt(s, first, phase, PreTasks(i)) \in Attempts
         /\ Attempt(s, first, phase, PreTasks(i)).send = s
         /\ AttemptOK(Attempt(s, first, phase, PreTasks(i)), i, box, lnk, rg, ss, ow)
<1> DEFINE a == Attempt(s, first, phase, PreTasks(i))
<1>1. PreTasks(i) \in [Devices -> Tasks] /\ phase \in Phases
  BY DEF PreTasks, Tasks, Phases
<1>2. /\ a \in Attempts /\ a.send = s /\ a.first = first /\ a.phase = phase
      /\ a.task = PreTasks(i) /\ a.refreshed = {} /\ a.removed = {}
  BY <1>1, AttemptFacts
<1>3. \A d \in Devices : /\ i.pre[d] # None => a.task[d] = "pre"
                         /\ i.pre[d] = None => a.task[d] = "idle"
  BY <1>2 DEF PreTasks
<1> HIDE DEF a
<1>4. ASSUME NEW d \in Devices PROVE TaskOK(a, i, d, box, lnk, rg, ss, ow.key)
  <2>1. CASE i.pre[d] # None
    BY <1>2, <1>3, <2>1 DEF TaskOK, Waiting, Naming, Unstored
  <2>2. CASE i.pre[d] = None
    BY <1>2, <1>3, <2>2 DEF TaskOK, Waiting, Naming, Unstored
  <2> QED BY <2>1, <2>2
<1>5. /\ i # None /\ i.status = IF a.phase \in Unstored THEN "prepared" ELSE "stored"
      /\ a.phase # "handoff"
  BY <1>2, GroupSendAssumption DEF Unstored
<1>6. a.first => FirstOK(i, box, ow)
  BY <1>2
<1>7. AttemptOK(a, i, box, lnk, rg, ss, ow)
  BY <1>4, <1>5, <1>6 DEF AttemptOK
<1> QED BY <1>2, <1>7 DEF a

\* No pre-message waits.
NoPre(i) == \A d \in Devices : i.pre[d] = None

\* The phase of the device messages starts: no pre-message waits.
LEMMA FreshDevice ==
  ASSUME NEW s \in Sends, NEW first \in BOOLEAN, NEW i \in Intents, i.status = "stored", NoPre(i),
         NEW box, NEW lnk, NEW rg, NEW ss, NEW ow, first => FirstOK(i, box, ow)
  PROVE  /\ Attempt(s, first, "device", DeviceTasks(i)) \in Attempts
         /\ Attempt(s, first, "device", DeviceTasks(i)).send = s
         /\ AttemptOK(Attempt(s, first, "device", DeviceTasks(i)), i, box, lnk, rg, ss, ow)
<1> DEFINE a == Attempt(s, first, "device", DeviceTasks(i))
<1>1. DeviceTasks(i) \in [Devices -> Tasks] /\ "device" \in Phases
  BY DEF DeviceTasks, Tasks, Phases
<1>2. /\ a \in Attempts /\ a.send = s /\ a.first = first /\ a.phase = "device"
      /\ a.task = DeviceTasks(i) /\ a.refreshed = {} /\ a.removed = {}
  BY <1>1, AttemptFacts
<1>3. \A d \in Devices : /\ i.dev[d] # None => a.task[d] = "device"
                         /\ i.dev[d] = None => a.task[d] = "idle"
  BY <1>2 DEF DeviceTasks, Targeted
<1> HIDE DEF a
<1>4. ASSUME NEW d \in Devices PROVE TaskOK(a, i, d, box, lnk, rg, ss, ow.key)
  <2>1. CASE i.dev[d] # None
    BY <1>2, <1>3, <2>1 DEF TaskOK, NoPre, Waiting, Naming, Unstored
  <2>2. CASE i.dev[d] = None
    BY <1>2, <1>3, <2>2 DEF TaskOK, NoPre, Waiting, Naming, Unstored
  <2> QED BY <2>1, <2>2
<1>5. /\ i # None /\ i.status = IF a.phase \in Unstored THEN "prepared" ELSE "stored"
      /\ a.phase # "handoff"
  BY <1>2, GroupSendAssumption DEF Unstored
<1>6. a.first => FirstOK(i, box, ow)
  BY <1>2
<1>7. AttemptOK(a, i, box, lnk, rg, ss, ow)
  BY <1>4, <1>5, <1>6 DEF AttemptOK
<1> QED BY <1>2, <1>7 DEF a

\* What holds of each device of the running attempt.
LEMMA AllFacts ==
  ASSUME IInv, attempt # None
  PROVE  /\ attempt \in Attempts /\ attempt.send \in Sends /\ attempt.first \in BOOLEAN
         /\ Current \in Intents /\ Current.key <= own.key
         /\ reg \in [Devices -> Nat] /\ session \in [Devices -> Nat] /\ own \in Owns
         /\ \A d \in Devices : session[d] <= reg[d] /\ (d \in linked => reg[d] # 0)
         /\ \A d \in Devices : DeviceOK(Current, d, mailbox, linked, reg, own)
         /\ \A d \in Devices : TaskOK(attempt, Current, d, mailbox, linked, reg, session, own.key)
         /\ attempt.first => FirstOK(Current, mailbox, own)
         /\ attempt.phase \in Unstored => Current.status = "prepared"
         /\ attempt.phase \notin Unstored => Current.status = "stored"
         /\ attempt.phase = "handoff" => attempt.first
<1>1. /\ attempt \in Attempts /\ attempt.send \in Sends /\ Current \in Intents
      /\ IntentOK(Current, mailbox, linked, reg, own)
      /\ AttemptOK(attempt, Current, mailbox, linked, reg, session, own)
  BY CurrentFacts
<1>2. attempt.first \in BOOLEAN
  BY <1>1 DEF Attempts
<1> QED BY <1>1, <1>2 DEF IInv, TypeOK, RelayInv, Owns, IntentOK, AttemptOK

\* No pre-message is later than x.
PreWithin(i, x) == \A d \in Devices : i.pre[d] # None => i.pre[d].index <= x

(* The conditions of the first attempt survive new messages at no later    *)
(* index.                                                                  *)
LEMMA FirstOfSame ==
  ASSUME NEW i, NEW j, NEW box, NEW ow, SameBase(i, j), FirstOK(i, box, ow),
         PreWithin(j, i.index)
  PROVE  FirstOK(j, box, ow)
  BY DEF FirstOK, SameBase, PreWithin

(* renewRefreshedDeviceMessages: each refreshed session has the key when   *)
(* the second pre-message phase settled.                                   *)
LEMMA RenewStep ==
  ASSUME IInv, Renew
  PROVE  IInv'
<1> DEFINE D == attempt.refreshed \intersect Targeted(Current)
<1> DEFINE j == WithDevice(Current, D, session)
<1>1. /\ attempt # None /\ attempt.phase = "renew"
      /\ intent' = [intent EXCEPT ![attempt.send] = j]
      /\ attempt' = Attempt(attempt.send, attempt.first, "device", DeviceTasks(j))
      /\ UNCHANGED <<relayVars, mailbox, session, own, rows, faults>>
  BY DEF Renew, SetIntent
<1>2. /\ attempt \in Attempts /\ attempt.send \in Sends /\ attempt.first \in BOOLEAN
      /\ Current \in Intents /\ Current.key <= own.key /\ Current.status = "stored"
      /\ reg \in [Devices -> Nat] /\ session \in [Devices -> Nat] /\ own \in Owns
      /\ \A d \in Devices : session[d] <= reg[d]
      /\ \A d \in Devices : DeviceOK(Current, d, mailbox, linked, reg, own)
      /\ \A d \in Devices : TaskOK(attempt, Current, d, mailbox, linked, reg, session, own.key)
      /\ attempt.first => FirstOK(Current, mailbox, own)
  BY <1>1, AllFacts DEF Unstored
<1>3. \A d \in D : d \in attempt.refreshed
  OBVIOUS
<1> HIDE DEF D
<1>4. /\ j \in Intents /\ SameBase(Current, j) /\ j.status = "stored" /\ j.pre = Current.pre
      /\ j.issued = Current.issued
      /\ \A d \in Devices : j.dev[d] = IF d \in D THEN session[d] ELSE Current.dev[d]
  BY <1>2, WithDeviceFacts
<1> HIDE DEF j
<1>5. \A d \in Devices : Current.pre[d] = None /\ attempt.task[d] = "idle"
  BY <1>1, <1>2 DEF TaskOK
<1>6. ASSUME NEW d \in Devices PROVE DeviceOK(j, d, mailbox, linked, reg, own)
  <2>1. CASE d \in D
    <3>1. \/ Current.key # own.key \/ d \in Current.met
          \/ Served(Current, d, mailbox, linked, reg, session)
      BY <1>2, <1>3, <1>5, <2>1 DEF TaskOK
    <3> QED BY <1>2, <1>4, <2>1, <3>1, NewDevOK
  <2>2. CASE d \notin D
    <3>1. SameFor(Current, j, d)
      BY <1>2, <1>4, <2>2 DEF SameFor, SameBase
    <3> QED BY <1>2, <3>1, SameDevice
  <2> QED BY <2>1, <2>2
<1>7. IntentOK(j, mailbox, linked, reg, own)
  BY <1>2, <1>4, <1>6 DEF IntentOK, SameBase
<1>8. attempt.first => FirstOK(j, mailbox, own)
  <2>1. PreWithin(j, Current.index)
    BY <1>4, <1>5 DEF PreWithin
  <2> QED BY <1>2, <1>4, <2>1, FirstOfSame
<1>9. /\ attempt' \in Attempts /\ attempt'.send = attempt.send
      /\ AttemptOK(attempt', j, mailbox, linked, reg, session, own)
  <2>1. NoPre(j)
    BY <1>4, <1>5 DEF NoPre
  <2> QED BY <1>1, <1>2, <1>4, <1>8, <2>1, FreshDevice
<1>10. Replaces(Current, j)
  BY <1>4 DEF Replaces, SameBase
<1> QED BY <1>1, <1>7, <1>9, <1>10, QuietAll

(* completeOutgoingMessageIntent: each device of the members has an        *)
(* acceptance, or it left.                                                 *)
LEMMA EndDevicesStep ==
  ASSUME IInv, EndDevices
  PROVE  IInv'
<1>1. /\ attempt # None /\ attempt.phase = "device" /\ attempt' = None
      /\ \A d \in Devices : attempt.task[d] \in {"idle", "done", "failed"}
      /\ UNCHANGED <<relayVars, mailbox, session, own, rows, faults>>
  BY DEF EndDevices, AllIn
<1>2. /\ attempt \in Attempts /\ attempt.send \in Sends
      /\ Current \in Intents /\ Current.key <= own.key /\ Current.status = "stored"
      /\ \A d \in Devices : DeviceOK(Current, d, mailbox, linked, reg, own)
      /\ \A d \in Devices : TaskOK(attempt, Current, d, mailbox, linked, reg, session, own.key)
  BY <1>1, AllFacts DEF Unstored
<1>3. CASE Settled("failed") # {}
  <2>1. intent' = [intent EXCEPT ![attempt.send] = Current]
    BY <1>1, <1>3, SelfIntent DEF EndDevices
  <2>2. Replaces(Current, Current) /\ IntentOK(Current, mailbox, linked, reg, own)
    BY <1>2 DEF Replaces, IntentOK
  <2> QED BY <1>1, <2>1, <2>2, QuietAll
<1>4. CASE Settled("failed") = {}
  <2> DEFINE w == WithoutDevices(Current, Devices)
  <2> DEFINE j == [w EXCEPT !.status = "complete"]
  <2>1. intent' = [intent EXCEPT ![attempt.send] = j]
    BY <1>4 DEF EndDevices, SetIntent
  <2>2. /\ w \in Intents /\ SameBase(Current, w) /\ w.issued = Current.issued
        /\ \A d \in Devices : w.pre[d] = None /\ w.dev[d] = None
    BY <1>2, WithoutDevicesFacts
  <2> HIDE DEF w
  <2>3. /\ j \in Intents /\ SameBase(Current, j) /\ j.issued = Current.issued
        /\ j.status = "complete"
        /\ \A d \in Devices : j.pre[d] = None /\ j.dev[d] = None
    BY <2>2 DEF Intents, SameBase
  <2> HIDE DEF j
  <2>4. ASSUME NEW d \in Devices PROVE DeviceOK(j, d, mailbox, linked, reg, own)
    <3>1. attempt.task[d] \in {"idle", "done"}
      BY <1>1, <1>4 DEF Settled
    <3>2. d \in Current.members => <<d, 0>> \in Current.accepted \/ d \notin linked
      BY <1>1, <1>2, <3>1 DEF TaskOK, DeviceOK, MemberOK
    <3> QED BY <1>2, <2>3, <3>2, DropAllOK
  <2>5. IntentOK(j, mailbox, linked, reg, own) /\ Replaces(Current, j)
    BY <1>2, <2>3, <2>4 DEF IntentOK, SameBase, Replaces
  <2> QED BY <1>1, <2>1, <2>5, QuietAll
<1> QED BY <1>3, <1>4

(* storeNewGroupIntent: each device message names a session that has the   *)
(* key or whose pre-message is in the intent.                              *)
LEMMA StoreIntentStep ==
  ASSUME IInv, StoreIntent
  PROVE  IInv'
<1> DEFINE M == Current.members
<1> DEFINE w == WithDevice(Current, M, session)
<1> DEFINE j == [w EXCEPT !.status = "stored"]
<1>1. /\ attempt # None /\ attempt.phase = "prepared"
      /\ intent' = [intent EXCEPT ![attempt.send] = j]
      /\ attempt' = Attempt(attempt.send, attempt.first, "pre", PreTasks(j))
      /\ UNCHANGED <<relayVars, mailbox, session, own, rows, faults>>
  BY DEF StoreIntent, Current
<1>2. /\ attempt \in Attempts /\ attempt.send \in Sends /\ attempt.first \in BOOLEAN
      /\ Current \in Intents /\ Current.key <= own.key /\ Current.status = "prepared"
      /\ reg \in [Devices -> Nat] /\ session \in [Devices -> Nat] /\ own \in Owns
      /\ \A d \in Devices : session[d] <= reg[d]
      /\ \A d \in Devices : DeviceOK(Current, d, mailbox, linked, reg, own)
      /\ \A d \in Devices : TaskOK(attempt, Current, d, mailbox, linked, reg, session, own.key)
      /\ attempt.first => FirstOK(Current, mailbox, own)
  BY <1>1, AllFacts DEF Unstored
<1>3. /\ w \in Intents /\ SameBase(Current, w) /\ w.pre = Current.pre /\ w.issued = Current.issued
      /\ \A d \in Devices : w.dev[d] = IF d \in M THEN session[d] ELSE Current.dev[d]
  <2> HIDE DEF M
  <2> QED BY <1>2, WithDeviceFacts
<1> HIDE DEF w
<1>4. /\ j \in Intents /\ SameBase(Current, j) /\ j.status = "stored" /\ j.pre = Current.pre
      /\ j.issued = Current.issued
      /\ \A d \in Devices : j.dev[d] = IF d \in M THEN session[d] ELSE Current.dev[d]
  BY <1>3 DEF Intents, SameBase
<1> HIDE DEF j
<1>5. \A d \in Devices :
        /\ d \in M /\ d \notin Current.met => Served(Current, d, mailbox, linked, reg, session)
        /\ d \notin M => Current.pre[d] = None
        /\ Current.dev[d] = None
  BY <1>1, <1>2 DEF TaskOK, Unstored
<1>6. ASSUME NEW d \in Devices PROVE DeviceOK(j, d, mailbox, linked, reg, own)
  <2>1. CASE d \in M
    BY <1>2, <1>4, <1>5, <2>1, NewDevOK
  <2>2. CASE d \notin M
    BY <1>2, <1>4, <1>5, <2>2, DropAllOK
  <2> QED BY <2>1, <2>2
<1>7. IntentOK(j, mailbox, linked, reg, own) /\ Replaces(Current, j)
  BY <1>2, <1>4, <1>6 DEF IntentOK, SameBase, Replaces
<1>8. attempt.first => FirstOK(j, mailbox, own)
  <2>1. attempt.first => PreWithin(j, Current.index)
    BY <1>2, <1>4 DEF FirstOK, PreWithin
  <2> QED BY <1>2, <1>4, <2>1, FirstOfSame
<1>9. /\ attempt' \in Attempts /\ attempt'.send = attempt.send
      /\ AttemptOK(attempt', j, mailbox, linked, reg, session, own)
  BY <1>1, <1>2, <1>4, <1>8, FreshPre
<1> QED BY <1>1, <1>7, <1>9, QuietAll

\* The intent after the confirmation of the settled pre-messages.
LEMMA ConfirmedFacts ==
  ASSUME NEW i \in Intents
  PROVE  /\ Confirmed(i) \in Intents /\ SameBase(i, Confirmed(i))
         /\ Confirmed(i).status = i.status /\ Confirmed(i).issued = i.issued
         /\ \A d \in Devices :
              /\ d \in attempt.removed => Confirmed(i).pre[d] = None /\ Confirmed(i).dev[d] = None
              /\ d \notin attempt.removed =>
                   /\ Confirmed(i).dev[d] = i.dev[d]
                   /\ attempt.task[d] = "confirm" => Confirmed(i).pre[d] = None
                   /\ attempt.task[d] # "confirm" => Confirmed(i).pre[d] = i.pre[d]
<1> DEFINE P == [d \in Devices |-> IF d \in Settled("confirm") THEN None ELSE i.pre[d]]
<1> DEFINE w == [i EXCEPT !.pre = P]
<1> DEFINE V == attempt.removed
<1>1. /\ P \in [Devices -> PreMessages \union {None}]
      /\ \A d \in Devices : /\ attempt.task[d] = "confirm" => P[d] = None
                            /\ attempt.task[d] # "confirm" => P[d] = i.pre[d]
  BY DEF Intents, Settled
<1>2. Confirmed(i) = WithoutDevices(w, V)
  BY DEF Confirmed
<1> HIDE DEF P
<1>3. /\ w \in Intents /\ SameBase(i, w) /\ w.status = i.status /\ w.issued = i.issued
      /\ w.dev = i.dev /\ w.pre = P
  BY <1>1 DEF Intents, SameBase
<1> HIDE DEF w, V
<1>4. /\ Confirmed(i) \in Intents /\ SameBase(w, Confirmed(i))
      /\ Confirmed(i).status = w.status /\ Confirmed(i).issued = w.issued
      /\ \A d \in Devices :
           /\ Confirmed(i).pre[d] = IF d \in V THEN None ELSE w.pre[d]
           /\ Confirmed(i).dev[d] = IF d \in V THEN None ELSE w.dev[d]
  BY <1>2, <1>3, WithoutDevicesFacts
<1>5. SameBase(i, Confirmed(i))
  BY <1>3, <1>4 DEF SameBase
<1> QED BY <1>1, <1>3, <1>4, <1>5 DEF V

(* confirmOutgoingPreMessages: each pre-message that goes reached its      *)
(* install, or its device left, or the key rotated.                        *)
LEMMA ConfirmPreStep ==
  ASSUME IInv, ConfirmPre
  PROVE  IInv'
<1> DEFINE j == Confirmed(Current)
<1> DEFINE idle == [d \in Devices |-> "idle"]
<1> DEFINE next == IF attempt.phase = "pre" THEN "leave" ELSE "renew"
<1>1. /\ attempt # None /\ attempt.phase \in {"pre", "preLeft"}
      /\ \A d \in Devices : attempt.task[d] \in {"idle", "confirm", "failed"}
      /\ intent' = [intent EXCEPT ![attempt.send] = j]
      /\ attempt' = IF Settled("failed") # {} THEN None
                    ELSE IF attempt.refreshed = {}
                      THEN Attempt(attempt.send, attempt.first, "device", DeviceTasks(j))
                      ELSE [attempt EXCEPT !.phase = next, !.task = idle]
      /\ UNCHANGED <<relayVars, mailbox, session, own, rows, faults>>
  BY DEF ConfirmPre, AllIn, SetIntent
<1>2. /\ attempt \in Attempts /\ attempt.send \in Sends /\ attempt.first \in BOOLEAN
      /\ Current \in Intents /\ Current.key <= own.key /\ Current.status = "stored"
      /\ reg \in [Devices -> Nat] /\ session \in [Devices -> Nat] /\ own \in Owns
      /\ \A d \in Devices : DeviceOK(Current, d, mailbox, linked, reg, own)
      /\ \A d \in Devices : TaskOK(attempt, Current, d, mailbox, linked, reg, session, own.key)
      /\ attempt.first => FirstOK(Current, mailbox, own)
  BY <1>1, AllFacts DEF Unstored
<1>3. /\ j \in Intents /\ SameBase(Current, j) /\ j.status = "stored" /\ j.issued = Current.issued
      /\ \A d \in Devices :
           /\ d \in attempt.removed => j.pre[d] = None /\ j.dev[d] = None
           /\ d \notin attempt.removed =>
                /\ j.dev[d] = Current.dev[d]
                /\ attempt.task[d] = "confirm" => j.pre[d] = None
                /\ attempt.task[d] # "confirm" => j.pre[d] = Current.pre[d]
  BY <1>2, ConfirmedFacts
<1> HIDE DEF j
<1>4. \A d \in Devices :
        /\ attempt.task[d] = "idle" => Current.pre[d] = None
        /\ attempt.task[d] = "confirm" /\ d \notin attempt.removed =>
             /\ Current.pre[d] # None
             /\ \/ Current.key # own.key
                \/ Reached(mailbox, linked, reg, d, Current.pre[d].reg, Current.key)
        /\ d \in attempt.removed /\ d \in Current.members => d \notin linked
  BY <1>1, <1>2 DEF TaskOK
<1>5. ASSUME NEW d \in Devices PROVE DeviceOK(j, d, mailbox, linked, reg, own)
  <2>1. CASE d \in attempt.removed
    BY <1>2, <1>3, <1>4, <2>1, DropAllOK
  <2>2. CASE d \notin attempt.removed /\ attempt.task[d] = "confirm"
    BY <1>2, <1>3, <1>4, <2>2, DropPreOK
  <2>3. CASE d \notin attempt.removed /\ attempt.task[d] # "confirm"
    <3>1. SameFor(Current, j, d)
      BY <1>2, <1>3, <2>3 DEF SameFor, SameBase
    <3> QED BY <1>2, <3>1, SameDevice
  <2> QED BY <2>1, <2>2, <2>3
<1>6. IntentOK(j, mailbox, linked, reg, own) /\ Replaces(Current, j)
  BY <1>2, <1>3, <1>5 DEF IntentOK, SameBase, Replaces
<1>7. attempt.first => FirstOK(j, mailbox, own)
  <2>1. \A d \in Devices : j.pre[d] = None \/ j.pre[d] = Current.pre[d]
    BY <1>3
  <2>2. attempt.first => PreWithin(j, Current.index)
    BY <1>2, <2>1 DEF FirstOK, PreWithin
  <2> QED BY <1>2, <1>3, <2>2, FirstOfSame
<1>8. CASE Settled("failed") # {}
  <2>1. attempt' = None
    BY <1>1, <1>8
  <2> QED BY <1>1, <1>6, <2>1, QuietAll
<1>9. CASE Settled("failed") = {}
  <2>1. \A d \in Devices : attempt.task[d] \in {"idle", "confirm"}
    BY <1>1, <1>9 DEF Settled
  <2>2. NoPre(j)
    BY <1>3, <1>4, <2>1 DEF NoPre
  <2>3. CASE attempt.refreshed = {}
    <3>1. /\ attempt' \in Attempts /\ attempt'.send = attempt.send
          /\ AttemptOK(attempt', j, mailbox, linked, reg, session, own)
      <4>1. attempt' = Attempt(attempt.send, attempt.first, "device", DeviceTasks(j))
        BY <1>1, <1>9, <2>3
      <4> QED BY <1>2, <1>3, <1>7, <2>2, <4>1, FreshDevice
    <3> QED BY <1>1, <1>6, <3>1, QuietAll
  <2>4. CASE attempt.refreshed # {}
    <3>1. attempt' = [attempt EXCEPT !.phase = next, !.task = idle]
      BY <1>1, <1>9, <2>4
    <3>2. next \in {"leave", "renew"} /\ next \in Phases /\ idle \in [Devices -> Tasks]
      BY DEF Phases, Tasks
    <3>3. \A d \in Devices : idle[d] = "idle"
      OBVIOUS
    <3> HIDE DEF next, idle
    <3>4. /\ attempt' \in Attempts /\ attempt'.send = attempt.send
          /\ attempt'.first = attempt.first /\ attempt'.phase = next /\ attempt'.task = idle
          /\ attempt'.refreshed = attempt.refreshed /\ attempt'.removed = attempt.removed
      BY <1>2, <3>1, <3>2 DEF Attempts
    <3>5. ASSUME NEW d \in Devices
          PROVE  TaskOK(attempt', j, d, mailbox, linked, reg, session, own.key)
      <4>1. j.pre[d] = None /\ attempt'.task[d] = "idle" /\ attempt'.phase \in {"leave", "renew"}
        BY <2>2, <3>2, <3>3, <3>4 DEF NoPre
      <4>2. d \in attempt.removed /\ d \in j.members => d \notin linked
        BY <1>3, <1>4 DEF SameBase
      <4>3. d \in attempt.refreshed =>
              /\ d \notin attempt.removed /\ j.dev[d] # None /\ session[d] # 0
              /\ Current.key = own.key /\ d \notin Current.met =>
                   Served(Current, d, mailbox, linked, reg, session)
        <5>1. /\ attempt.task[d] \in {"idle", "confirm"} /\ attempt.phase # "reread"
              /\ TaskOK(attempt, Current, d, mailbox, linked, reg, session, own.key)
          BY <1>1, <1>2, <2>1
        <5>2. d \in attempt.refreshed =>
                /\ d \notin attempt.removed /\ Current.dev[d] # None /\ session[d] # 0
                /\ Current.key = own.key /\ d \notin Current.met =>
                     Served(Current, d, mailbox, linked, reg, session)
          BY <5>1 DEF TaskOK
        <5> QED BY <1>3, <5>2
      <4>4. d \in attempt.refreshed /\ j.key = own.key /\ d \notin j.met =>
              Served(j, d, mailbox, linked, reg, session)
        <5>1. SUFFICES ASSUME d \in attempt.refreshed, j.key = own.key, d \notin j.met
                       PROVE  Served(j, d, mailbox, linked, reg, session)
          OBVIOUS
        <5>2. /\ Served(Current, d, mailbox, linked, reg, session) /\ d \notin attempt.removed
              /\ Current.key = own.key
          BY <1>3, <4>3, <5>1 DEF SameBase
        <5>3. Current.pre[d] # None =>
                Reached(mailbox, linked, reg, d, Current.pre[d].reg, Current.key)
          BY <1>4, <2>1, <5>2
        <5>4. session[d] # 0 /\ Reached(mailbox, linked, reg, d, session[d], j.key)
          BY <1>3, <5>2, <5>3 DEF Served, SameBase
        <5> QED BY <5>4 DEF Served
      <4> HIDE DEF Served
      <4> QED BY <3>4, <4>1, <4>2, <4>3, <4>4 DEF TaskOK, Waiting, Naming, Unstored
    <3>6. AttemptOK(attempt', j, mailbox, linked, reg, session, own)
      <4>1. /\ j # None /\ j.status = IF attempt'.phase \in Unstored THEN "prepared" ELSE "stored"
            /\ attempt'.phase # "handoff"
        BY <1>3, <3>2, <3>4, GroupSendAssumption DEF Unstored
      <4>2. attempt'.first => FirstOK(j, mailbox, own)
        BY <1>7, <3>4
      <4> QED BY <3>5, <4>1, <4>2 DEF AttemptOK
    <3> QED BY <1>1, <1>6, <3>4, <3>6, QuietAll
  <2> QED BY <2>3, <2>4
<1> QED BY <1>8, <1>9

\* A row of the ledger that names the session of a device.
LEMMA HandedOffReached ==
  ASSUME IInv, NEW d, NEW key, HandedOff(d, key)
  PROVE  session[d] # 0 /\ Reached(mailbox, linked, reg, d, session[d], key)
<1> DEFINE r == [key |-> key, dev |-> d, reg |-> session[d]]
<1>1. session[d] # 0 /\ r \in rows
  BY DEF HandedOff
<1>2. r.key = key /\ r.dev = d /\ r.reg = session[d]
  OBVIOUS
<1> HIDE DEF r
<1> QED BY <1>1, <1>2 DEF IInv, RowsInv

\* The attempt b encrypts the distribution for the devices of D.
Encrypted(a, b, phase, D, ss) ==
  /\ b \in Attempts /\ b.send = a.send /\ b.first = a.first /\ b.phase = phase
  /\ b.refreshed = a.refreshed /\ b.removed = a.removed /\ b.enc = ss
  /\ \A d \in Devices : b.task[d] = IF d \in D THEN "name" ELSE "idle"

(* What the encryption of distributions changes of an attempt.             *)
LEMMA EncryptingFacts ==
  ASSUME NEW a \in Attempts, NEW phase \in Phases, NEW D, NEW ss \in [Devices -> Nat]
  PROVE  Encrypted(a, Encrypting(a, phase, D, ss), phase, D, ss)
<1> DEFINE T == [d \in Devices |-> IF d \in D THEN "name" ELSE "idle"]
<1>1. /\ T \in [Devices -> Tasks]
      /\ \A d \in Devices : T[d] = IF d \in D THEN "name" ELSE "idle"
  BY DEF Tasks
<1>2. Encrypting(a, phase, D, ss) = [a EXCEPT !.phase = phase, !.enc = ss, !.task = T]
  BY DEF Encrypting
<1> DEFINE b == Encrypting(a, phase, D, ss)
<1> HIDE DEF T
<1>3. /\ b \in Attempts /\ b.send = a.send /\ b.first = a.first /\ b.phase = phase
      /\ b.refreshed = a.refreshed /\ b.removed = a.removed /\ b.enc = ss /\ b.task = T
  BY <1>1, <1>2 DEF Attempts
<1> HIDE DEF b
<1>4. Encrypted(a, b, phase, D, ss)
  BY <1>1, <1>3 DEF Encrypted
<1> QED BY <1>4 DEF b

(* leaveStaleSharedBody, up to the encryption: the refreshed devices       *)
(* without a row have a session.                                           *)
LEMMA LeaveStep ==
  ASSUME IInv, Leave
  PROVE  IInv'
<1> DEFINE D == IF Distribution(Current, attempt.first) = {} THEN {}
                ELSE Needing(attempt.refreshed, Current)
<1>1. /\ attempt # None /\ attempt.phase = "leave"
      /\ attempt' = Encrypting(attempt, "left", D, session)
      /\ UNCHANGED <<relayVars, mailbox, session, own, rows, intent, faults>>
  BY DEF Leave
<1>2. /\ attempt \in Attempts /\ Current \in Intents /\ Current.status = "stored"
      /\ session \in [Devices -> Nat] /\ Current.key <= own.key
      /\ \A d \in Devices : DeviceOK(Current, d, mailbox, linked, reg, own)
      /\ \A d \in Devices : TaskOK(attempt, Current, d, mailbox, linked, reg, session, own.key)
      /\ attempt.first => FirstOK(Current, mailbox, own)
  BY <1>1, AllFacts DEF Unstored
<1>3. \A d \in Devices : d \in D => d \in attempt.refreshed
  BY DEF Needing
<1> HIDE DEF D
<1>4. Encrypted(attempt, attempt', "left", D, session)
  BY <1>1, <1>2, EncryptingFacts DEF Phases
<1>5. /\ attempt' \in Attempts /\ attempt'.send = attempt.send /\ attempt'.first = attempt.first
      /\ attempt'.phase = "left" /\ attempt'.refreshed = attempt.refreshed
      /\ attempt'.removed = attempt.removed /\ attempt'.enc = session
      /\ \A d \in Devices : /\ d \in D => attempt'.task[d] = "name"
                            /\ d \notin D => attempt'.task[d] = "idle"
  BY <1>4 DEF Encrypted
<1>6. ASSUME NEW d \in Devices
      PROVE  TaskOK(attempt', Current, d, mailbox, linked, reg, session, own.key)
  <2>1. /\ attempt.task[d] = "idle" /\ Current.pre[d] = None
        /\ d \in attempt.removed => /\ d \in Current.members => d \notin linked
                                    /\ d \notin attempt.refreshed
        /\ d \in attempt.refreshed =>
             /\ Current.dev[d] # None /\ session[d] # 0
             /\ Current.key = own.key /\ d \notin Current.met =>
                  Served(Current, d, mailbox, linked, reg, session)
    BY <1>1, <1>2 DEF TaskOK
  <2>2. attempt'.phase \notin Unstored /\ attempt'.enc[d] = session[d]
    BY <1>5 DEF Unstored
  <2> HIDE DEF Served
  <2>3. CASE d \in D
    <3>1. d \in attempt'.refreshed /\ d \notin attempt'.removed /\ attempt'.task[d] = "name"
      BY <1>3, <1>5, <2>1, <2>3
    <3> QED BY <1>5, <2>1, <2>2, <3>1 DEF TaskOK, Waiting, Naming
  <2>4. CASE d \notin D
    <3>1. attempt'.task[d] = "idle"
      BY <1>5, <2>4
    <3> QED BY <1>5, <2>1, <2>2, <3>1 DEF TaskOK, Waiting, Naming
  <2> QED BY <2>3, <2>4
<1>7. AttemptOK(attempt', Current, mailbox, linked, reg, session, own)
  <2>1. /\ Current # None
        /\ Current.status = IF attempt'.phase \in Unstored THEN "prepared" ELSE "stored"
        /\ attempt'.phase # "handoff" /\ (attempt'.first => FirstOK(Current, mailbox, own))
    BY <1>2, <1>5, GroupSendAssumption DEF Unstored
  <2> QED BY <1>6, <2>1 DEF AttemptOK
<1>8. intent' = [intent EXCEPT ![attempt.send] = Current]
  BY <1>1, SelfIntent
<1>9. IntentOK(Current, mailbox, linked, reg, own) /\ Replaces(Current, Current)
  BY <1>2 DEF IntentOK, Replaces
<1> QED BY <1>1, <1>5, <1>7, <1>8, <1>9, QuietAll

(* leaveStaleSharedBody, from the reads of the registrations on: a         *)
(* refreshed device without a row gets the key again before its new device *)
(* message.                                                                *)
LEMMA NameLeftStep ==
  ASSUME IInv, NameLeft
  PROVE  IInv'
<1> DEFINE N == Settled("name")
<1> DEFINE G == Distribution(Current, attempt.first)
<1> DEFINE D == attempt.refreshed \intersect Targeted(Current)
<1> DEFINE h == WithHandoffs(Current, N, G, TRUE)
<1> DEFINE j == WithDevice(h, D, session)
<1> DEFINE waits == \E d \in Devices : j.pre[d] # None
<1>1. /\ attempt # None /\ attempt.phase = "left"
      /\ intent' = [intent EXCEPT ![attempt.send] = j]
      /\ attempt' = Attempt(attempt.send, attempt.first, IF waits THEN "preLeft" ELSE "device",
                            IF waits THEN PreTasks(j) ELSE DeviceTasks(j))
      /\ UNCHANGED <<relayVars, mailbox, session, own, rows, faults>>
  BY DEF NameLeft, SetIntent
<1>2. /\ attempt \in Attempts /\ attempt.send \in Sends /\ attempt.first \in BOOLEAN
      /\ Current \in Intents /\ Current.key <= own.key /\ Current.status = "stored"
      /\ reg \in [Devices -> Nat] /\ session \in [Devices -> Nat] /\ own \in Owns
      /\ \A d \in Devices : session[d] <= reg[d]
      /\ \A d \in Devices : DeviceOK(Current, d, mailbox, linked, reg, own)
      /\ \A d \in Devices : TaskOK(attempt, Current, d, mailbox, linked, reg, session, own.key)
      /\ attempt.first => FirstOK(Current, mailbox, own)
  BY <1>1, AllFacts DEF Unstored
<1>3. ASSUME NEW d \in Devices
      PROVE  /\ Current.pre[d] = None
             /\ d \in N => /\ d \in attempt.refreshed
                           /\ attempt.enc[d] = session[d] \/ d \in Current.met
             /\ d \in attempt.refreshed =>
                  /\ Current.dev[d] # None /\ session[d] # 0
                  /\ \/ Current.key # own.key \/ d \in Current.met
                     \/ Served(Current, d, mailbox, linked, reg, session)
  <2>1. d \in N => attempt.task[d] = "name"
    BY DEF Settled
  <2>2. attempt.task[d] \in Waiting /\ TaskOK(attempt, Current, d, mailbox, linked, reg, session, own.key)
    BY <1>1, <1>2 DEF TaskOK
  <2> HIDE DEF Served, N
  <2> QED BY <1>1, <2>1, <2>2 DEF TaskOK, Waiting, Naming
<1>4. PICK x \in Nat : /\ AtMost(G, x)
                       /\ G = {} => ~attempt.first /\ own.key # Current.key
                       /\ attempt.first => x = Current.index
                       /\ ~attempt.first => x = own.index
  BY <1>2, DistributionFacts
<1>5. \A d \in Devices : d \in D <=> d \in attempt.refreshed
  BY <1>2, <1>3 DEF Targeted, Attempts
<1>6. TRUE \in BOOLEAN
  OBVIOUS
<1> HIDE DEF N, G, D
<1>7. /\ h \in Intents /\ SameBase(Current, h) /\ h.status = "stored" /\ h.dev = Current.dev
      /\ \A d \in Devices :
           /\ d \in N /\ G # {} => /\ h.pre[d] = PreOf(Current, x, TRUE, d)
                                   /\ h.issued[d] = Current.issued[d] + 1
           /\ d \notin N \/ G = {} => h.pre[d] = Current.pre[d] /\ h.issued[d] = Current.issued[d]
  <2>1. CASE G = {}
    <3>1. h = Current
      BY <1>2, <1>4, <1>6, <2>1, WithHandoffsFacts
    <3> QED BY <1>2, <2>1, <3>1 DEF SameBase
  <2>2. CASE G # {}
    <3>1. Named(Current, h, N, x, TRUE)
      BY <1>2, <1>4, <1>6, <2>2, WithHandoffsFacts
    <3> HIDE DEF h
    <3> QED BY <1>2, <2>2, <3>1 DEF Named
  <2> QED BY <2>1, <2>2
<1> HIDE DEF h
<1>8. /\ j \in Intents /\ SameBase(h, j) /\ j.status = "stored" /\ j.pre = h.pre
      /\ j.issued = h.issued
      /\ \A d \in Devices : j.dev[d] = IF d \in D THEN session[d] ELSE h.dev[d]
  BY <1>2, <1>7, WithDeviceFacts
<1> HIDE DEF j
<1>9. SameBase(Current, j)
  BY <1>7, <1>8 DEF SameBase
<1>10. G # {} /\ Current.key = own.key => x <= own.index
  BY <1>2, <1>4 DEF FirstOK, Owns
<1>11. ASSUME NEW d \in Devices PROVE DeviceOK(j, d, mailbox, linked, reg, own)
  <2>1. CASE d \in N /\ G # {}
    <3>1. /\ j.pre[d] = PreOf(Current, x, TRUE, d) /\ j.issued[d] = Current.issued[d] + 1
          /\ j.dev[d] = session[d] /\ session[d] # 0 /\ session[d] <= reg[d]
          /\ attempt.enc[d] = session[d] \/ d \in Current.met
      BY <1>2, <1>3, <1>5, <1>7, <1>8, <2>1
    <3>2. j.status = Current.status
      BY <1>2, <1>8
    <3> QED BY <1>2, <1>4, <1>6, <1>8, <1>9, <1>10, <2>1, <3>1, <3>2, NewPreOK
  <2>2. CASE d \in attempt.refreshed /\ ~(d \in N /\ G # {})
    <3>1. /\ j.pre[d] = Current.pre[d] /\ j.issued[d] = Current.issued[d]
          /\ j.dev[d] = session[d] /\ session[d] <= reg[d]
          /\ \/ Current.key # own.key \/ d \in Current.met
             \/ Served(Current, d, mailbox, linked, reg, session)
      BY <1>2, <1>3, <1>5, <1>7, <1>8, <2>2
    <3> QED BY <1>2, <1>8, <1>9, <3>1, NewDevOK
  <2>3. CASE d \notin attempt.refreshed
    <3>1. d \notin N /\ d \notin D
      BY <1>3, <1>5, <2>3
    <3>2. /\ j.pre[d] = Current.pre[d] /\ j.dev[d] = Current.dev[d]
          /\ j.issued[d] = Current.issued[d] /\ j.status = Current.status
      BY <1>2, <1>7, <1>8, <3>1
    <3>3. SameFor(Current, j, d)
      BY <1>9, <3>2 DEF SameFor, SameBase
    <3> QED BY <1>2, <3>3, SameDevice
  <2> QED BY <1>3, <2>1, <2>2, <2>3
<1>12. IntentOK(j, mailbox, linked, reg, own) /\ Replaces(Current, j)
  BY <1>2, <1>8, <1>9, <1>11 DEF IntentOK, SameBase, Replaces
<1>13. attempt.first => FirstOK(j, mailbox, own)
  <2>1. ASSUME NEW d \in Devices, j.pre[d] # None PROVE j.pre[d].index = x
    <3>1. d \in N /\ G # {}
      BY <1>3, <1>7, <1>8, <2>1
    <3>2. j.pre[d] = PreOf(Current, x, TRUE, d)
      BY <1>7, <1>8, <3>1
    <3> QED BY <3>2 DEF PreOf
  <2>2. attempt.first => PreWithin(j, Current.index)
    <3>1. Current.index \in Nat
      BY <1>2 DEF Intents
    <3> QED BY <1>4, <2>1, <3>1 DEF PreWithin
  <2> QED BY <1>2, <1>9, <2>2, FirstOfSame
<1>14. /\ attempt' \in Attempts /\ attempt'.send = attempt.send
       /\ AttemptOK(attempt', j, mailbox, linked, reg, session, own)
  <2>1. CASE waits
    <3>1. attempt' = Attempt(attempt.send, attempt.first, "preLeft", PreTasks(j))
      BY <1>1, <2>1
    <3> QED BY <1>2, <1>8, <1>13, <3>1, FreshPre
  <2>2. CASE ~waits
    <3>1. attempt' = Attempt(attempt.send, attempt.first, "device", DeviceTasks(j))
      BY <1>1, <2>2
    <3>2. NoPre(j)
      BY <2>2 DEF NoPre
    <3> QED BY <1>2, <1>8, <1>13, <3>1, <3>2, FreshDevice
  <2> QED BY <2>1, <2>2
<1> QED BY <1>1, <1>12, <1>14, QuietAll

-----------------------------------------------------------------------------
(* What happens around the attempts.                                       *)

\* A step that leaves the intents alone, and ends the attempt or leaves it alone.
LEMMA ChangeStep ==
  ASSUME IInv, TypeOK', RelayInv', RowsInv', MailInv', OpensInv', KeyInv',
         Grows(mailbox, linked, reg, mailbox', linked', reg'), KeyMoves(own, own'),
         intent' = intent,
         \/ attempt' = None
         \/ /\ attempt' = attempt /\ own' = own /\ session' = session
            /\ attempt # None => FirstStep(mailbox')
  PROVE  IInv'
<1>1. /\ intent \in [Sends -> Intents \union {None}] /\ reg \in [Devices -> Nat]
      /\ own \in Owns /\ own' \in Owns /\ session \in [Devices -> Nat]
      /\ \A d \in Devices : session[d] <= reg[d]
  BY DEF IInv, TypeOK, RelayInv, Owns
<1>2. ASSUME NEW s \in Sends, intent[s] # None
      PROVE  IntentOK(intent[s], mailbox', linked', reg', own')
  <2>1. intent[s] \in Intents /\ IntentOK(intent[s], mailbox, linked, reg, own)
    BY <1>1, <1>2 DEF IInv, IntentInv
  <2>2. ASSUME NEW d \in Devices PROVE DeviceOK(intent[s], d, mailbox', linked', reg', own')
    BY <1>1, <2>1, DeviceGrows DEF IntentOK
  <2>3. intent[s].key <= own'.key
    <3>1. intent[s].key \in Nat /\ intent[s].key <= own.key
      BY <2>1 DEF Intents, IntentOK
    <3> QED BY <1>1, <3>1 DEF KeyMoves, Owns
  <2> QED BY <2>2, <2>3 DEF IntentOK
<1>3. IntentInv'
  BY <1>2 DEF IntentInv
<1>4. AttemptInv'
  <2>1. CASE attempt' = None
    BY <2>1 DEF AttemptInv
  <2>2. CASE attempt' = attempt /\ attempt # None /\ own' = own /\ session' = session
    <3>1. FirstStep(mailbox')
      BY <2>2
    <3>2. /\ attempt \in Attempts /\ Current \in Intents
          /\ IntentOK(Current, mailbox, linked, reg, own)
          /\ AttemptOK(attempt, Current, mailbox, linked, reg, session, own)
      BY <2>2, CurrentFacts
    <3>3. ASSUME NEW d \in Devices
          PROVE  TaskOK(attempt, Current, d, mailbox', linked', reg', session, own.key)
      <4>1. /\ DeviceOK(Current, d, mailbox, linked, reg, own)
            /\ TaskOK(attempt, Current, d, mailbox, linked, reg, session, own.key)
        BY <3>2 DEF IntentOK, AttemptOK
      <4> QED BY <1>1, <3>2, <4>1, TaskGrows
    <3>4. attempt.first => FirstOK(Current, mailbox', own)
      BY <3>1, <3>2 DEF AttemptOK, FirstOK, FirstStep
    <3>5. AttemptOK(attempt, Current, mailbox', linked', reg', session, own)
      BY <3>2, <3>3, <3>4 DEF AttemptOK
    <3> QED BY <2>2, <3>5 DEF AttemptInv, Current
  <2>3. CASE attempt' = attempt /\ attempt = None
    BY <2>3 DEF AttemptInv
  <2> QED BY <2>1, <2>2, <2>3
<1> QED BY <1>3, <1>4 DEF IInv

\* The mailbox of a device that the Relay clears.
LEMMA ClearedMail ==
  ASSUME IInv, NEW d \in Devices, mailbox' = [mailbox EXCEPT ![d] = <<>>],
         intent' = intent, own' = own
  PROVE  /\ mailbox' \in [Devices -> Seq(Messages)]
         /\ \A e \in Devices \ {d} : mailbox'[e] = mailbox[e]
         /\ MailInv' /\ OpensInv' /\ KeyInv'
         /\ attempt # None => FirstStep(mailbox')
<1>1. mailbox \in [Devices -> Seq(Messages)]
  BY DEF IInv, TypeOK
<1>2. /\ mailbox' \in [Devices -> Seq(Messages)]
      /\ \A e \in Devices \ {d} : mailbox'[e] = mailbox[e]
      /\ mailbox'[d] = <<>>
  <2>1. <<>> \in Seq(Messages)
    OBVIOUS
  <2> QED BY <1>1, <2>1
<1>3. \A e \in Devices : mailbox'[e] = mailbox[e] \/ mailbox'[e] = <<>>
  BY <1>2
<1>4. \A p \in DOMAIN <<>> : FALSE
  OBVIOUS
<1>5. MailInv'
  BY <1>3, <1>4 DEF IInv, MailInv
<1>6. OpensInv'
  <2>1. ASSUME NEW e \in Devices, NEW p \in DOMAIN mailbox'[e]
        PROVE  mailbox'[e] = mailbox[e]
    BY <1>3, <1>4
  <2> QED BY <2>1 DEF IInv, OpensInv
<1>7. KeyInv'
  <2>1. ASSUME NEW e \in Devices, NEW p \in DOMAIN mailbox'[e]
        PROVE  mailbox'[e] = mailbox[e]
    BY <1>3, <1>4
  <2> QED BY <2>1 DEF IInv, KeyInv
<1>8. attempt # None => FirstStep(mailbox')
  BY <1>3, <1>4, FirstSame DEF FirstStep
<1> QED BY <1>2, <1>5, <1>6, <1>7, <1>8

(* A new install has an empty mailbox and a registration that no row, pre- *)
(* message or device message names.                                        *)
LEMMA InstallStep ==
  ASSUME IInv, NEW d \in Devices, Install(d)
  PROVE  IInv'
<1>1. /\ reg[d] = 0 \/ d \in linked
      /\ linked' = linked \union {d} /\ reg' = [reg EXCEPT ![d] = reg[d] + 1]
      /\ mailbox' = [mailbox EXCEPT ![d] = <<>>] /\ changes' = changes + 1
      /\ UNCHANGED <<session, own, rows, intent, attempt, faults>>
  BY DEF Install, Change
<1>2. /\ mailbox' \in [Devices -> Seq(Messages)]
      /\ \A e \in Devices \ {d} : mailbox'[e] = mailbox[e]
      /\ MailInv' /\ OpensInv' /\ KeyInv'
      /\ attempt # None => FirstStep(mailbox')
  BY <1>1, ClearedMail
<1>3. /\ linked \subseteq Devices /\ reg \in [Devices -> Nat] /\ session \in [Devices -> Nat]
      /\ rows \subseteq Rows /\ own \in Owns /\ changes \in Nat
      /\ \A e \in Devices : (e \in linked => reg[e] # 0) /\ session[e] <= reg[e]
  BY DEF IInv, TypeOK, RelayInv, Owns
<1>4. /\ reg' \in [Devices -> Nat] /\ reg'[d] = reg[d] + 1 /\ reg[d] \in Nat
      /\ \A e \in Devices \ {d} : reg'[e] = reg[e]
  BY <1>1, <1>3
<1>5. TypeOK'
  <2>1. linked' \subseteq Devices
    BY <1>1, <1>3
  <2>2. changes' \in Nat
    BY <1>1, <1>3
  <2> QED BY <1>1, <1>2, <1>4, <2>1, <2>2 DEF IInv, TypeOK
<1>6. RelayInv'
  <2>1. ASSUME NEW e \in Devices
        PROVE  (e \in linked' => reg'[e] # 0) /\ session'[e] <= reg'[e]
    <3>1. CASE e = d
      BY <1>1, <1>3, <1>4, <3>1
    <3>2. CASE e # d
      BY <1>1, <1>3, <1>4, <3>2
    <3> QED BY <3>1, <3>2
  <2> QED BY <2>1 DEF RelayInv
<1>7. ASSUME NEW e \in Devices, NEW r \in Nat, NEW key, r <= reg[e],
             Reached(mailbox, linked, reg, e, r, key)
      PROVE  Reached(mailbox', linked', reg', e, r, key)
  <2>1. CASE e = d
    <3>1. reg'[e] # r
      BY <1>4, <1>7, <2>1
    <3> QED BY <3>1 DEF Reached
  <2>2. CASE e # d
    BY <1>1, <1>2, <1>4, <1>7, <2>2 DEF Reached, HasKey
  <2> QED BY <2>1, <2>2
<1>8. Grows(mailbox, linked, reg, mailbox', linked', reg')
  <2>1. ASSUME NEW e \in Devices
        PROVE  reg[e] <= reg'[e] /\ (e \notin linked /\ reg[e] # 0 => e \notin linked')
    BY <1>1, <1>3, <1>4
  <2> QED BY <1>4, <1>7, <2>1 DEF Grows
<1>9. RowsInv'
  <2>1. ASSUME NEW r \in rows
        PROVE  r.reg <= reg'[r.dev] /\ Reached(mailbox', linked', reg', r.dev, r.reg, r.key)
    <3>1. r.dev \in Devices /\ r.reg \in Nat
      BY <1>3 DEF Rows
    <3>2. r.reg <= reg[r.dev] /\ Reached(mailbox, linked, reg, r.dev, r.reg, r.key)
      BY DEF IInv, RowsInv
    <3>3. reg[r.dev] <= reg'[r.dev] /\ reg[r.dev] \in Nat /\ reg'[r.dev] \in Nat
      BY <1>3, <1>4, <1>8, <3>1 DEF Grows
    <3> QED BY <1>7, <3>1, <3>2, <3>3
  <2> QED BY <1>1, <2>1 DEF RowsInv
<1>10. KeyMoves(own, own')
  BY <1>1, <1>3 DEF KeyMoves, Owns
<1> QED BY <1>1, <1>2, <1>5, <1>6, <1>8, <1>9, <1>10, ChangeStep

(* A device that leaves voids what was promised about its install.         *)
LEMMA UnlinkStep ==
  ASSUME IInv, NEW d \in Devices, Unlink(d)
  PROVE  IInv'
<1>1. /\ linked' = linked \ {d} /\ reg' = reg
      /\ mailbox' = [mailbox EXCEPT ![d] = <<>>] /\ changes' = changes + 1
      /\ UNCHANGED <<session, own, rows, intent, attempt, faults>>
  BY DEF Unlink, Change
<1>2. /\ mailbox' \in [Devices -> Seq(Messages)]
      /\ \A e \in Devices \ {d} : mailbox'[e] = mailbox[e]
      /\ MailInv' /\ OpensInv' /\ KeyInv'
      /\ attempt # None => FirstStep(mailbox')
  BY <1>1, ClearedMail
<1>3. /\ linked \subseteq Devices /\ reg \in [Devices -> Nat] /\ session \in [Devices -> Nat]
      /\ rows \subseteq Rows /\ own \in Owns /\ changes \in Nat
      /\ \A e \in Devices : (e \in linked => reg[e] # 0) /\ session[e] <= reg[e]
  BY DEF IInv, TypeOK, RelayInv, Owns
<1>5. TypeOK'
  <2>1. linked' \subseteq Devices
    BY <1>1, <1>3
  <2>2. changes' \in Nat
    BY <1>1, <1>3
  <2> QED BY <1>1, <1>2, <1>3, <2>1, <2>2 DEF IInv, TypeOK
<1>6. RelayInv'
  BY <1>1, <1>3 DEF RelayInv
<1>7. ASSUME NEW e \in Devices, NEW r, NEW key, Reached(mailbox, linked, reg, e, r, key)
      PROVE  Reached(mailbox', linked', reg', e, r, key)
  <2>1. CASE e = d
    BY <1>1, <2>1 DEF Reached
  <2>2. CASE e # d
    BY <1>1, <1>2, <1>7, <2>2 DEF Reached, HasKey
  <2> QED BY <2>1, <2>2
<1>8. Grows(mailbox, linked, reg, mailbox', linked', reg')
  <2>1. ASSUME NEW e \in Devices
        PROVE  reg[e] <= reg'[e] /\ (e \notin linked /\ reg[e] # 0 => e \notin linked')
    BY <1>1, <1>3
  <2> HIDE DEF Reached
  <2> QED BY <1>1, <1>3, <1>7, <2>1 DEF Grows
<1>9. RowsInv'
  <2>1. ASSUME NEW r \in rows
        PROVE  r.reg <= reg'[r.dev] /\ Reached(mailbox', linked', reg', r.dev, r.reg, r.key)
    <3>1. r.dev \in Devices
      BY <1>3 DEF Rows
    <3> QED BY <1>1, <1>7, <3>1 DEF IInv, RowsInv
  <2> QED BY <1>1, <2>1 DEF RowsInv
<1>10. KeyMoves(own, own')
  BY <1>1, <1>3 DEF KeyMoves, Owns
<1> QED BY <1>1, <1>2, <1>5, <1>6, <1>8, <1>9, <1>10, ChangeStep

(* The rotation: no message of the new key is in a mailbox, and no row is  *)
(* left.                                                                   *)
LEMMA RotateStep ==
  ASSUME IInv, RotateSenderKey
  PROVE  IInv'
<1>1. /\ own' = [key |-> own.key + 1, index |-> 0] /\ rows' = {} /\ attempt = None
      /\ changes' = changes + 1
      /\ UNCHANGED <<linked, reg, mailbox, session, intent, attempt, faults>>
  BY DEF RotateSenderKey, Change
<1>2. /\ own.key \in Nat /\ own'.key = own.key + 1 /\ own'.index = 0 /\ own' \in Owns
      /\ changes' \in Nat /\ reg \in [Devices -> Nat] /\ mailbox \in [Devices -> Seq(Messages)]
  BY <1>1 DEF IInv, TypeOK, Owns
<1>3. TypeOK'
  BY <1>1, <1>2 DEF IInv, TypeOK, Owns
<1>4. RelayInv' /\ RowsInv'
  BY <1>1 DEF IInv, RelayInv, RowsInv
<1>5. ASSUME NEW d \in Devices, NEW p \in DOMAIN mailbox[d]
      PROVE  MailOK(mailbox[d][p], intent, own') /\ mailbox[d][p].key # own'.key
  <2>1. mailbox[d][p] \in Messages
    BY <1>2
  <2>2. mailbox[d][p].key \in Nat /\ MailOK(mailbox[d][p], intent, own)
    BY <2>1 DEF Messages, IInv, MailInv
  <2> QED BY <1>2, <2>2 DEF MailOK
<1>6. MailInv'
  BY <1>1, <1>5 DEF MailInv
<1>7. OpensInv'
  BY <1>1 DEF IInv, OpensInv
<1>8. KeyInv'
  BY <1>1, <1>5 DEF KeyInv, KeyAt
<1>9. Grows(mailbox, linked, reg, mailbox', linked', reg')
  BY <1>1, <1>2, GrowsRefl
<1>10. KeyMoves(own, own')
  BY <1>2 DEF KeyMoves
<1> QED BY <1>1, <1>3, <1>4, <1>6, <1>7, <1>8, <1>9, <1>10, ChangeStep

(* A crash loses an intent that is not stored, and no mailbox has a        *)
(* message of it.                                                          *)
LEMMA CrashStep ==
  ASSUME IInv, Crash
  PROVE  IInv'
<1>1. /\ attempt # None /\ attempt' = None /\ faults' = faults + 1
      /\ intent' = IF Current.status = "prepared" THEN [intent EXCEPT ![attempt.send] = None]
                   ELSE intent
      /\ UNCHANGED <<relayVars, mailbox, session, own, rows>>
  BY DEF Crash, Fault
<1>2. /\ attempt.send \in Sends /\ intent \in [Sends -> Intents \union {None}]
      /\ faults' \in Nat
  BY <1>1, CurrentFacts DEF IInv, TypeOK
<1>3. \A s \in Sends : intent'[s] = intent[s] \/ intent'[s] = None
  BY <1>1, <1>2
<1>4. TypeOK'
  <2>1. intent' \in [Sends -> Intents \union {None}]
    BY <1>1, <1>2
  <2> QED BY <1>1, <1>2, <2>1 DEF IInv, TypeOK, relayVars
<1>5. RelayInv' /\ RowsInv'
  BY <1>1 DEF IInv, RelayInv, RowsInv, relayVars
<1>6. MailInv'
  <2>1. ASSUME NEW d \in Devices, NEW p \in DOMAIN mailbox[d]
        PROVE  MailOK(mailbox[d][p], intent', own)
    <3>1. MailOK(mailbox[d][p], intent, own)
      BY DEF IInv, MailInv
    <3>2. intent'[mailbox[d][p].send] = intent[mailbox[d][p].send]
      <4>1. CASE Current.status = "prepared"
        <5>1. mailbox[d][p].send # attempt.send
          BY <3>1, <4>1 DEF MailOK, Current
        <5> QED BY <1>1, <1>2, <4>1, <5>1
      <4>2. CASE Current.status # "prepared"
        BY <1>1, <4>2
      <4> QED BY <4>1, <4>2
    <3> QED BY <3>1, <3>2 DEF MailOK
  <2> QED BY <1>1, <2>1 DEF MailInv
<1>7. IntentInv'
  BY <1>1, <1>3 DEF IInv, IntentInv, relayVars
<1>8. AttemptInv'
  BY <1>1 DEF AttemptInv
<1>9. OpensInv' /\ KeyInv'
  BY <1>1, MailProperties DEF IInv
<1> QED BY <1>4, <1>5, <1>6, <1>7, <1>8, <1>9 DEF IInv

(* An inbound session archives the earlier one with its rows, in the       *)
(* middle of an attempt too.                                               *)
LEMMA InboundPreKeyStep ==
  ASSUME IInv, NEW d \in Devices, InboundPreKey(d)
  PROVE  IInv'
<1>1. /\ d \in linked /\ changes' = changes + 1
      /\ session' = [session EXCEPT ![d] = reg[d]] /\ rows' = RowsWithout(d)
      /\ intent' = IF attempt = None \/ session[d] = reg[d] THEN intent
                   ELSE [intent EXCEPT ![attempt.send].met = @ \union {d}]
      /\ UNCHANGED <<linked, reg, mailbox, own, attempt, faults>>
  BY DEF InboundPreKey, Change
<1>2. /\ reg \in [Devices -> Nat] /\ session \in [Devices -> Nat] /\ own \in Owns
      /\ changes' \in Nat /\ faults \in Nat /\ rows \subseteq Rows
      /\ \A e \in Devices : (e \in linked => reg[e] # 0) /\ session[e] <= reg[e]
  BY <1>1 DEF IInv, TypeOK, RelayInv, Owns
<1>3. /\ session' \in [Devices -> Nat] /\ session'[d] = reg[d]
      /\ \A e \in Devices \ {d} : session'[e] = session[e]
  BY <1>1, <1>2
<1>4. LedgerStep(session', rows', mailbox)
  <2>1. LedgerStep(session, RowsWithout(d), mailbox)
    BY SameMail
  <2>2. ASSUME NEW e \in Devices PROVE session'[e] <= reg[e]
    <3>1. CASE e = d
      BY <1>2, <1>3, <3>1
    <3>2. CASE e # d
      BY <1>2, <1>3, <3>2
    <3> QED BY <3>1, <3>2
  <2> QED BY <1>1, <1>3, <2>1, <2>2 DEF LedgerStep
<1>5. CASE attempt = None
  <2>1. intent' = intent
    BY <1>1, <1>5
  <2>2. TypeOK'
    BY <1>1, <1>2, <1>4, <2>1 DEF IInv, TypeOK, LedgerStep
  <2>3. RelayInv' /\ RowsInv'
    BY <1>1, <1>2, <1>4 DEF LedgerStep, RelayInv, RowsInv
  <2>4. MailInv' /\ OpensInv' /\ KeyInv'
    BY <1>1, <2>1, MailProperties DEF IInv, MailInv
  <2>5. Grows(mailbox, linked, reg, mailbox', linked', reg') /\ KeyMoves(own, own')
    BY <1>1, <1>2, GrowsRefl DEF KeyMoves, Owns
  <2>6. attempt' = None
    BY <1>1, <1>5
  <2> QED BY <2>1, <2>2, <2>3, <2>4, <2>5, <2>6, ChangeStep
<1>6. CASE attempt # None
  <2>1. /\ attempt \in Attempts /\ attempt.send \in Sends /\ Current \in Intents
        /\ DeviceOK(Current, d, mailbox, linked, reg, own)
        /\ TaskOK(attempt, Current, d, mailbox, linked, reg, session, own.key)
        /\ attempt.first => FirstOK(Current, mailbox, own)
    BY <1>6, AllFacts
  <2>2. \A e \in Devices : SameTask(attempt, attempt', e)
    BY <1>1 DEF SameTask
  <2>3. attempt.first /\ Current.pre[d] # None => Current.pre[d].index <= Current.index
    BY <2>1 DEF FirstOK
  <2>4. CASE session[d] = reg[d]
    <3>1. intent' = [intent EXCEPT ![attempt.send] = Current]
      BY <1>1, <1>6, <2>4, SelfIntent
    <3>2. OneDevice(d, Current, attempt', session')
      BY <1>1, <1>3, <2>1, <2>2, SameForRefl DEF OneDevice
    <3>3. SameFor(Current, Current, d) /\ SameTask(attempt, attempt', d) /\ session'[d] = session[d]
      BY <1>3, <2>2, <2>4, SameForRefl
    <3>4. TaskOK(attempt', Current, d, mailbox, linked, reg, session', own.key)
      BY <2>1, <3>3, SameTaskOK
    <3> QED BY <1>1, <1>2, <1>4, <1>6, <2>1, <2>3, <3>1, <3>2, <3>4, QuietOne
  <2>5. CASE session[d] # reg[d]
    <3> DEFINE E == Current.met \union {d}
    <3> DEFINE j == [Current EXCEPT !.met = E]
    <3>1. intent' = [intent EXCEPT ![attempt.send] = j]
      BY <1>1, <1>6, <2>5 DEF Current
    <3>2. E \subseteq Devices /\ d \in E /\ \A e \in Devices \ {d} : e \in E <=> e \in Current.met
      BY <2>1 DEF Intents
    <3> HIDE DEF E
    <3>3. /\ j \in Intents /\ j.met = E /\ j.status = Current.status /\ j.key = Current.key
          /\ j.index = Current.index /\ j.members = Current.members
          /\ j.accepted = Current.accepted /\ j.pre = Current.pre /\ j.dev = Current.dev
          /\ j.issued = Current.issued
      BY <2>1, <3>2 DEF Intents
    <3> HIDE DEF j
    <3>4. OneDevice(d, j, attempt', session')
      <4>1. ASSUME NEW e \in Devices \ {d} PROVE SameFor(Current, j, e)
        BY <3>2, <3>3 DEF SameFor
      <4> QED BY <1>1, <1>3, <2>1, <2>2, <3>3, <4>1 DEF OneDevice
    <3>5. DeviceOK(j, d, mailbox, linked, reg, own)
      <4>1. PreOK(j, d, mailbox, linked, reg)
        BY <2>1, <3>2, <3>3, Zenon DEF DeviceOK, PreOK
      <4>2. IdOK(j, d)
        BY <2>1, <3>3, Zenon DEF DeviceOK, IdOK
      <4>3. CoverOK(j, d, mailbox, linked, reg, own.key)
        BY <2>1, <3>2, <3>3, Zenon DEF DeviceOK, CoverOK
      <4>4. MemberOK(j, d, linked, reg)
        BY <2>1, <3>3, Zenon DEF DeviceOK, MemberOK
      <4>5. IndexOK(j, d, own)
        BY <2>1, <3>3, Zenon DEF DeviceOK, IndexOK
      <4> QED BY <4>1, <4>2, <4>3, <4>4, <4>5 DEF DeviceOK
    <3>6. TaskOK(attempt', j, d, mailbox, linked, reg, session', own.key)
      <4>1. /\ d \in j.met /\ session'[d] # 0 /\ attempt' = attempt
            /\ j.pre[d] # None => j.pre[d].reg <= session'[d]
        BY <1>1, <1>2, <1>3, <2>1, <3>2, <3>3 DEF DeviceOK, PreOK
      <4> HIDE DEF Served, Reached
      <4> QED BY <2>1, <3>3, <4>1 DEF TaskOK
    <3>7. attempt.first /\ j.pre[d] # None => j.pre[d].index <= j.index
      BY <2>3, <3>3
    <3> QED BY <1>1, <1>2, <1>4, <1>6, <3>1, <3>4, <3>5, <3>6, <3>7, QuietOne
  <2> QED BY <2>4, <2>5
<1> QED BY <1>5, <1>6

\* The sessions of the session step.
LEMMA SessionsFacts ==
  ASSUME IInv, NEW N, NEW S
  PROVE  /\ Sessions(N, S) \in [Devices -> Nat]
         /\ \A d \in Devices :
              /\ Sessions(N, S)[d] <= reg[d]
              /\ session[d] # 0 => Sessions(N, S)[d] = session[d]
              /\ d \in N /\ d \notin S /\ d \in linked => Sessions(N, S)[d] # 0
<1>1. /\ reg \in [Devices -> Nat] /\ session \in [Devices -> Nat]
      /\ \A d \in Devices : (d \in linked => reg[d] # 0) /\ session[d] <= reg[d]
  BY DEF IInv, TypeOK, RelayInv
<1>2. ASSUME NEW d \in Devices
      PROVE  /\ Sessions(N, S)[d] = IF d \in N \ S /\ session[d] = 0 THEN reg[d] ELSE session[d]
             /\ Sessions(N, S)[d] \in Nat
  BY <1>1 DEF Sessions
<1>3. Sessions(N, S) \in [Devices -> Nat]
  BY <1>1 DEF Sessions
<1>4. ASSUME NEW d \in Devices
      PROVE  /\ Sessions(N, S)[d] <= reg[d]
             /\ session[d] # 0 => Sessions(N, S)[d] = session[d]
             /\ d \in N /\ d \notin S /\ d \in linked => Sessions(N, S)[d] # 0
  BY <1>1, <1>2
<1> QED BY <1>3, <1>4

(* The session step skips devices that need the key.                       *)
LEMMA SkippedFacts ==
  ASSUME IInv, NEW N, NEW S \in Skippable(N), Paid(S)
  PROVE  S \subseteq N /\ faults' \in Nat
<1>1. S \subseteq N
  BY DEF Skippable
<1> QED BY <1>1, CounterTypes DEF Paid

\* The mail and the ledger while the own chain advances.
LEMMA ChainAdvances ==
  ASSUME IInv, mailbox' = mailbox, linked' = linked, reg' = reg, rows' = rows,
         own' \in Owns, own'.key = own.key, own.index <= own'.index,
         session' \in [Devices -> Nat], \A d \in Devices : session'[d] <= reg[d]
  PROVE  /\ RelayInv' /\ RowsInv' /\ OpensInv' /\ KeyInv'
         /\ KeyMoves(own, own') /\ Grows(mailbox, linked, reg, mailbox', linked', reg')
         /\ \A d \in Devices : \A p \in DOMAIN mailbox[d] : MailOK(mailbox[d][p], intent, own')
<1>1. /\ RelayInv' /\ RowsInv'
  BY DEF IInv, RelayInv, RowsInv
<1>2. OpensInv'
  BY DEF IInv, OpensInv
<1>3. KeyInv'
  BY DEF IInv, KeyInv
<1>4. KeyMoves(own, own')
  BY DEF KeyMoves
<1>5. Grows(mailbox, linked, reg, mailbox', linked', reg')
  BY GrowsRefl DEF IInv, TypeOK
<1>6. ASSUME NEW d \in Devices, NEW p \in DOMAIN mailbox[d]
      PROVE  MailOK(mailbox[d][p], intent, own')
  <2>1. mailbox[d][p] \in Messages
    BY DEF IInv, TypeOK
  <2>2. mailbox[d][p].index \in Nat /\ MailOK(mailbox[d][p], intent, own)
    BY <2>1 DEF Messages, IInv, MailInv
  <2>3. own.index \in Nat /\ own'.index \in Nat
    BY DEF IInv, TypeOK, Owns
  <2> QED BY <2>2, <2>3 DEF MailOK
<1> QED BY <1>1, <1>2, <1>3, <1>4, <1>5, <1>6

\* The handoff fails the send: the chain index is consumed all the same.
LEMMA FailedStart ==
  ASSUME IInv, attempt = None, UNCHANGED <<linked, reg, mailbox, rows, intent, attempt>>,
         own' \in Owns, own'.key = own.key, own.index <= own'.index,
         session' \in [Devices -> Nat], \A d \in Devices : session'[d] <= reg[d],
         faults' \in Nat, changes' \in Nat
  PROVE  IInv'
<1>1. /\ RelayInv' /\ RowsInv' /\ OpensInv' /\ KeyInv'
      /\ KeyMoves(own, own') /\ Grows(mailbox, linked, reg, mailbox', linked', reg')
      /\ \A d \in Devices : \A p \in DOMAIN mailbox[d] : MailOK(mailbox[d][p], intent, own')
  BY ChainAdvances
<1>2. MailInv'
  BY <1>1 DEF MailInv
<1>3. TypeOK'
  BY DEF IInv, TypeOK, Owns
<1>4. attempt' = None /\ intent' = intent
  OBVIOUS
<1> QED BY <1>1, <1>2, <1>3, <1>4, ChangeStep

\* An attempt starts on a new intent, or on a changed stored one.
LEMMA StartStep ==
  ASSUME IInv, attempt = None, UNCHANGED <<linked, reg, mailbox, rows>>,
         own' \in Owns, own'.key = own.key, own.index <= own'.index,
         session' \in [Devices -> Nat], \A d \in Devices : session'[d] <= reg[d],
         faults' \in Nat, changes' \in Nat,
         NEW s \in Sends, NEW j \in Intents, intent' = [intent EXCEPT ![s] = j],
         intent[s] = None \/ Replaces(intent[s], j),
         IntentOK(j, mailbox, linked, reg, own'),
         attempt' \in Attempts, attempt'.send = s,
         AttemptOK(attempt', j, mailbox, linked, reg, session', own')
  PROVE  IInv'
<1>1. /\ RelayInv' /\ RowsInv' /\ OpensInv' /\ KeyInv'
      /\ KeyMoves(own, own') /\ Grows(mailbox, linked, reg, mailbox', linked', reg')
      /\ \A d \in Devices : \A p \in DOMAIN mailbox[d] : MailOK(mailbox[d][p], intent, own')
  BY ChainAdvances
<1>2. intent \in [Sends -> Intents \union {None}] /\ reg \in [Devices -> Nat] /\ own \in Owns
  BY DEF IInv, TypeOK, Owns
<1>3. TypeOK'
  <2>1. intent' \in [Sends -> Intents \union {None}]
    BY <1>2
  <2> QED BY <2>1 DEF IInv, TypeOK, Owns
<1>4. MailInv'
  <2>1. ASSUME NEW d \in Devices, NEW p \in DOMAIN mailbox[d]
        PROVE  MailOK(mailbox[d][p], intent', own')
    <3>1. CASE Replaces(intent[s], j)
      BY <1>1, <1>2, <3>1, MailReplaced
    <3>2. CASE intent[s] = None
      <4>1. MailOK(mailbox[d][p], intent, own') /\ mailbox[d][p].send # s
        BY <1>1, <3>2 DEF MailOK
      <4>2. intent'[mailbox[d][p].send] = intent[mailbox[d][p].send]
        BY <1>2, <4>1
      <4> QED BY <4>1, <4>2 DEF MailOK
    <3> QED BY <3>1, <3>2
  <2> QED BY <2>1 DEF MailInv
<1>5. IntentInv'
  <2>1. ASSUME NEW t \in Sends, intent'[t] # None
        PROVE  IntentOK(intent'[t], mailbox, linked, reg, own')
    <3>1. CASE t = s
      BY <1>2, <3>1
    <3>2. CASE t # s
      <4>1. intent'[t] = intent[t]
        BY <1>2, <3>2
      <4>2. intent[t] \in Intents /\ IntentOK(intent[t], mailbox, linked, reg, own)
        BY <1>2, <2>1, <4>1 DEF IInv, IntentInv
      <4>3. Grows(mailbox, linked, reg, mailbox, linked, reg)
        BY <1>2, GrowsRefl
      <4>4. ASSUME NEW d \in Devices PROVE DeviceOK(intent[t], d, mailbox, linked, reg, own')
        BY <1>1, <1>2, <4>2, <4>3, DeviceGrows DEF IntentOK
      <4> QED BY <4>1, <4>2, <4>4 DEF IntentOK
    <3> QED BY <3>1, <3>2
  <2> QED BY <2>1 DEF IntentInv
<1>6. AttemptInv'
  <2>1. intent'[attempt'.send] = j
    BY <1>2
  <2> QED BY <2>1 DEF AttemptInv
<1> QED BY <1>1, <1>3, <1>4, <1>5, <1>6 DEF IInv

-----------------------------------------------------------------------------
(* A new send and a replay.                                                *)

(* prepareGroupSenderKeyPayload, up to the encryption: each listed device  *)
(* has a row of its session, has a session that encrypts, or was skipped.  *)
LEMMA PreparePayloadStep ==
  ASSUME IInv, NEW s \in Sends, PreparePayload(s)
  PROVE  IInv'
<1> DEFINE nothing == [d \in Devices |-> None]
<1> DEFINE none == [d \in Devices |-> 0]
<1> DEFINE fresh == [status |-> "prepared", key |-> own.key, index |-> own.index,
                     members |-> linked, met |-> {}, accepted |-> {},
                     pre |-> nothing, dev |-> nothing, issued |-> none]
<1> DEFINE N == Needing(linked, fresh)
<1> DEFINE idle == [d \in Devices |-> "idle"]
<1> DEFINE a == Attempt(s, TRUE, "handoff", idle)
<1>1. /\ attempt = None /\ intent[s] = None /\ own' = [own EXCEPT !.index = @ + 1]
      /\ UNCHANGED <<relayVars, mailbox, rows>>
  BY DEF PreparePayload
<1>2. PICK S \in Skippable(N) :
        /\ session' = Sessions(N, S) /\ Paid(S)
        /\ \/ UNCHANGED <<intent, attempt>>
           \/ /\ intent' = [intent EXCEPT ![s] = [fresh EXCEPT !.met = S]]
              /\ attempt' = Encrypting(a, "handoff", N \ S, Sessions(N, S))
  <2> HIDE DEF fresh
  <2> QED BY Zenon DEF PreparePayload, fresh
<1>3. /\ linked \subseteq Devices /\ own \in Owns /\ reg \in [Devices -> Nat]
      /\ mailbox \in [Devices -> Seq(Messages)] /\ changes \in Nat
      /\ \A d \in Devices : d \in linked => reg[d] # 0
  BY DEF IInv, TypeOK, RelayInv, Owns
<1>4. /\ own' \in Owns /\ own'.key = own.key /\ own'.index = own.index + 1
      /\ own.index \in Nat /\ own.index <= own'.index /\ own.key \in Nat
  BY <1>1, <1>3 DEF Owns
<1>5. S \subseteq N /\ faults' \in Nat
  <2> HIDE DEF N
  <2> QED BY <1>2, SkippedFacts
<1>6. /\ N \subseteq linked
      /\ \A d \in linked : d \notin N => HandedOff(d, own.key)
  <2>1. fresh.key = own.key /\ fresh.pre = nothing
    OBVIOUS
  <2>2. \A d \in Devices : fresh.pre[d] = None
    BY <2>1
  <2> HIDE DEF fresh, HandedOff
  <2> QED BY <1>3, <2>1, <2>2 DEF Needing
<1> DEFINE f == [fresh EXCEPT !.met = S]
<1>7. /\ f \in Intents /\ f.status = "prepared" /\ f.key = own.key /\ f.index = own.index
      /\ f.members = linked /\ f.met = S /\ f.accepted = {}
      /\ f.pre = nothing /\ f.dev = nothing /\ f.issued = none
  <2>1. /\ nothing \in [Devices -> PreMessages \union {None}]
        /\ nothing \in [Devices -> Nat \union {None}] /\ none \in [Devices -> Nat]
    OBVIOUS
  <2>2. S \subseteq Devices /\ {} \subseteq Devices \X Nat
    BY <1>3, <1>5, <1>6
  <2> HIDE DEF nothing, none, N
  <2> QED BY <1>3, <1>4, <2>1, <2>2 DEF Intents
<1>8. \A d \in Devices : f.pre[d] = None /\ f.dev[d] = None /\ f.issued[d] = 0
  BY <1>7
<1> DEFINE ss == Sessions(N, S)
<1> DEFINE D == N \ S
<1>9. /\ session' = ss /\ attempt = None
      /\ \/ UNCHANGED <<intent, attempt>>
         \/ /\ intent' = [intent EXCEPT ![s] = f]
            /\ attempt' = Encrypting(a, "handoff", D, ss)
  BY <1>1, <1>2
<1>10. \A d \in Devices : d \in D <=> d \in N /\ d \notin S
  OBVIOUS
<1> HIDE DEF fresh, nothing, none, N, f
<1>11. /\ ss \in [Devices -> Nat]
       /\ \A d \in Devices : /\ ss[d] <= reg[d]
                             /\ session[d] # 0 => ss[d] = session[d]
                             /\ d \in N /\ d \notin S /\ d \in linked => ss[d] # 0
  BY SessionsFacts
<1> HIDE DEF ss, D
<1>12. UNCHANGED <<linked, reg, mailbox, rows>> /\ changes' \in Nat
  BY <1>1, <1>3 DEF relayVars
<1>13. CASE UNCHANGED <<intent, attempt>>
  BY <1>4, <1>5, <1>9, <1>11, <1>12, <1>13, FailedStart
<1>14. CASE intent' = [intent EXCEPT ![s] = f] /\ attempt' = Encrypting(a, "handoff", D, ss)
  <2>1. a \in Attempts /\ a.send = s /\ a.first = TRUE /\ a.refreshed = {} /\ a.removed = {}
    <3> DEFINE first == TRUE
    <3> DEFINE b == Attempt(s, first, "handoff", idle)
    <3>1. "handoff" \in Phases /\ idle \in [Devices -> Tasks] /\ first \in BOOLEAN
      BY DEF Phases, Tasks
    <3> HIDE DEF idle, first
    <3>2. b \in Attempts /\ b.send = s /\ b.first = first /\ b.refreshed = {} /\ b.removed = {}
      BY <3>1, AttemptFacts
    <3> QED BY <3>2 DEF first
  <2> HIDE DEF a
  <2>2. Encrypted(a, attempt', "handoff", D, ss)
    BY <1>11, <1>14, <2>1, EncryptingFacts DEF Phases
  <2>3. /\ attempt' \in Attempts /\ attempt'.send = s /\ attempt'.first = TRUE
        /\ attempt'.phase = "handoff" /\ attempt'.refreshed = {} /\ attempt'.removed = {}
        /\ attempt'.enc = ss
        /\ \A d \in Devices : /\ d \in D => attempt'.task[d] = "name"
                              /\ d \notin D => attempt'.task[d] = "idle"
    BY <2>1, <2>2 DEF Encrypted
  <2>4. ASSUME NEW d \in Devices PROVE DeviceOK(f, d, mailbox, linked, reg, own')
    <3>1. PreOK(f, d, mailbox, linked, reg)
      BY <1>8 DEF PreOK
    <3>2. IdOK(f, d)
      BY <1>7 DEF IdOK
    <3>3. CoverOK(f, d, mailbox, linked, reg, own'.key)
      BY <1>8 DEF CoverOK
    <3>4. MemberOK(f, d, linked, reg)
      BY <1>3, <1>7 DEF MemberOK
    <3>5. IndexOK(f, d, own')
      BY <1>8 DEF IndexOK
    <3> QED BY <3>1, <3>2, <3>3, <3>4, <3>5 DEF DeviceOK
  <2>5. IntentOK(f, mailbox, linked, reg, own')
    BY <1>4, <1>7, <2>4 DEF IntentOK
  <2>6. ASSUME NEW d \in Devices
        PROVE  TaskOK(attempt', f, d, mailbox, linked, reg, ss, own'.key)
    <3>1. ASSUME d \in linked, d \notin S, d \notin N PROVE Served(f, d, mailbox, linked, reg, ss)
      <4>1. session[d] # 0 /\ Reached(mailbox, linked, reg, d, session[d], own.key)
        BY <1>6, <3>1, HandedOffReached
      <4> HIDE DEF Reached
      <4> QED BY <1>7, <1>11, <4>1 DEF Served
    <3>2. /\ attempt'.phase \in Unstored /\ attempt'.phase = "handoff" /\ f.pre[d] = None
          /\ f.dev[d] = None /\ f.members = linked /\ f.met = S
          /\ d \notin attempt'.refreshed /\ d \notin attempt'.removed
      BY <1>7, <1>8, <2>3 DEF Unstored
    <3> HIDE DEF Served
    <3>3. CASE d \in D
      <4>1. attempt'.task[d] = "name" /\ d \in linked /\ ss[d] # 0 /\ attempt'.enc[d] = ss[d]
        BY <1>6, <1>10, <1>11, <2>3, <3>3
      <4> QED BY <3>2, <4>1 DEF TaskOK, Waiting, Naming
    <3>4. CASE d \notin D
      <4>1. attempt'.task[d] = "idle" /\ (d \in N => d \in S)
        BY <1>10, <2>3, <3>4
      <4> QED BY <3>1, <3>2, <4>1 DEF TaskOK, Waiting, Naming
    <3> QED BY <3>3, <3>4
  <2>7. FirstOK(f, mailbox, own')
    <3>1. ASSUME NEW d \in Devices, NEW p \in DOMAIN mailbox[d],
                 IsDistribution(mailbox[d][p], f.key)
          PROVE  mailbox[d][p].index <= f.index
      BY <1>7, <3>1 DEF IInv, MailInv, MailOK, IsDistribution
    <3> QED BY <1>4, <1>7, <1>8, <3>1 DEF FirstOK
  <2>8. AttemptOK(attempt', f, mailbox, linked, reg, ss, own')
    <3>1. f # None
      BY <1>7, GroupSendAssumption
    <3> QED BY <1>7, <2>3, <2>6, <2>7, <3>1 DEF AttemptOK, Unstored
  <2> QED BY <1>1, <1>4, <1>5, <1>7, <1>9, <1>11, <1>12, <1>14, <2>3, <2>5, <2>8, StartStep
<1> QED BY <1>9, <1>13, <1>14

(* prepareGroupSenderKeyPayload, from the reads of the registrations on:   *)
(* each new pre-message names the session of this moment.                  *)
LEMMA NamePayloadStep ==
  ASSUME IInv, NamePayload
  PROVE  IInv'
<1> DEFINE N == Settled("name")
<1> DEFINE x == Current.index
<1> DEFINE j == WithPre(Current, N, x, FALSE)
<1> DEFINE idle == [d \in Devices |-> "idle"]
<1>1. /\ attempt # None /\ attempt.phase = "handoff"
      /\ intent' = [intent EXCEPT ![attempt.send] = j]
      /\ attempt' = Attempt(attempt.send, TRUE, "prepared", idle)
      /\ UNCHANGED <<relayVars, mailbox, session, own, rows, faults>>
  BY DEF NamePayload, SetIntent
<1>2. /\ attempt \in Attempts /\ attempt.send \in Sends /\ attempt.first
      /\ Current \in Intents /\ Current.key <= own.key /\ Current.status = "prepared"
      /\ reg \in [Devices -> Nat] /\ session \in [Devices -> Nat] /\ own \in Owns
      /\ \A d \in Devices : session[d] <= reg[d]
      /\ \A d \in Devices : DeviceOK(Current, d, mailbox, linked, reg, own)
      /\ \A d \in Devices : TaskOK(attempt, Current, d, mailbox, linked, reg, session, own.key)
      /\ FirstOK(Current, mailbox, own)
  BY <1>1, AllFacts DEF Unstored
<1>3. ASSUME NEW d \in Devices
      PROVE  /\ d \in N => /\ Current.pre[d] = None /\ session[d] # 0 /\ d \in Current.members
                           /\ attempt.enc[d] = session[d] \/ d \in Current.met
             /\ d \in Current.members /\ d \notin Current.met /\ d \notin N =>
                  Served(Current, d, mailbox, linked, reg, session)
             /\ Current.pre[d] # None => d \in Current.members
             /\ Current.dev[d] = None
  <2>1. d \in N <=> attempt.task[d] = "name"
    BY DEF Settled
  <2>2. TaskOK(attempt, Current, d, mailbox, linked, reg, session, own.key)
    BY <1>2
  <2> HIDE DEF Served, N
  <2> QED BY <1>1, <2>1, <2>2 DEF TaskOK, Naming, Unstored
<1>4. x \in Nat /\ x <= own.index /\ FALSE \in BOOLEAN
  BY <1>2 DEF Intents, FirstOK
<1> HIDE DEF N, x
<1>5. Named(Current, j, N, x, FALSE)
  BY <1>2, <1>4, WithPreFacts
<1> HIDE DEF j
<1>6. /\ j \in Intents /\ SameBase(Current, j) /\ j.status = "prepared" /\ j.dev = Current.dev
      /\ \A d \in Devices :
           /\ d \in N => j.pre[d] = PreOf(Current, x, FALSE, d) /\ j.issued[d] = Current.issued[d] + 1
           /\ d \notin N => j.pre[d] = Current.pre[d] /\ j.issued[d] = Current.issued[d]
  BY <1>2, <1>5 DEF Named
<1>7. ASSUME NEW d \in Devices, d \in N
      PROVE  j.pre[d] # None /\ j.pre[d].reg = session[d] /\ j.pre[d].index = x
  <2> DEFINE r == FALSE
  <2>1. j.pre[d] = PreOf(Current, x, r, d) /\ r \in BOOLEAN
    BY <1>6, <1>7
  <2> HIDE DEF r
  <2> QED BY <1>2, <1>4, <2>1, PreOfFields
<1>8. ASSUME NEW d \in Devices PROVE DeviceOK(j, d, mailbox, linked, reg, own)
  <2>1. CASE d \in N
    <3>1. /\ j.pre[d] = PreOf(Current, x, FALSE, d) /\ j.issued[d] = Current.issued[d] + 1
          /\ j.dev[d] = Current.dev[d] /\ j.status = Current.status
      BY <1>2, <1>6, <2>1
    <3> QED BY <1>2, <1>3, <1>4, <1>6, <2>1, <3>1, NewPreOK
  <2>2. CASE d \notin N
    <3>1. SameFor(Current, j, d)
      BY <1>2, <1>6, <2>2 DEF SameFor, SameBase
    <3> QED BY <1>2, <3>1, SameDevice
  <2> QED BY <2>1, <2>2
<1>9. IntentOK(j, mailbox, linked, reg, own) /\ Replaces(Current, j)
  BY <1>2, <1>6, <1>8 DEF IntentOK, SameBase, Replaces
<1>10. FirstOK(j, mailbox, own)
  <2>1. ASSUME NEW d \in Devices, j.pre[d] # None PROVE j.pre[d].index <= Current.index
    <3>1. CASE d \in N
      <4>1. j.pre[d].index = x /\ x <= x
        BY <1>4, <1>7, <3>1
      <4> QED BY <4>1 DEF x
    <3>2. CASE d \notin N
      BY <1>2, <1>6, <2>1, <3>2 DEF FirstOK
    <3> QED BY <3>1, <3>2
  <2> QED BY <1>2, <1>6, <2>1, FirstOfSame DEF PreWithin
<1>11. /\ attempt' \in Attempts /\ attempt'.send = attempt.send /\ attempt'.first = TRUE
       /\ attempt'.phase = "prepared" /\ attempt'.refreshed = {} /\ attempt'.removed = {}
       /\ \A d \in Devices : attempt'.task[d] = "idle"
  <2> DEFINE first == TRUE
  <2>1. /\ "prepared" \in Phases /\ idle \in [Devices -> Tasks] /\ first \in BOOLEAN
        /\ \A d \in Devices : idle[d] = "idle"
    BY DEF Phases, Tasks
  <2> DEFINE s == attempt.send
  <2> DEFINE a == Attempt(s, first, "prepared", idle)
  <2>2. s \in Sends /\ attempt' = a
    BY <1>1, <1>2
  <2> HIDE DEF idle, s, first
  <2>3. /\ a \in Attempts /\ a.send = s /\ a.first = first /\ a.phase = "prepared"
        /\ a.refreshed = {} /\ a.removed = {} /\ a.task = idle
    BY <2>1, <2>2, AttemptFacts
  <2> HIDE DEF a
  <2> QED BY <2>1, <2>2, <2>3 DEF s, first
<1>12. ASSUME NEW d \in Devices
       PROVE  TaskOK(attempt', j, d, mailbox, linked, reg, session, own.key)
  <2>1. d \in j.members /\ d \notin j.met => Served(j, d, mailbox, linked, reg, session)
    <3>1. CASE d \in N
      BY <1>3, <1>7, <3>1 DEF Served
    <3>2. CASE d \notin N
      BY <1>3, <1>6, <3>2 DEF Served, SameBase
    <3> QED BY <3>1, <3>2
  <2>2. /\ j.pre[d] # None => d \in j.members
        /\ j.dev[d] = None /\ d \notin attempt'.refreshed /\ d \notin attempt'.removed
        /\ attempt'.phase = "prepared" /\ attempt'.task[d] = "idle"
    BY <1>3, <1>6, <1>11 DEF SameBase
  <2> HIDE DEF Served
  <2> QED BY <2>1, <2>2 DEF TaskOK, Waiting, Naming
<1>13. AttemptOK(attempt', j, mailbox, linked, reg, session, own)
  <2>1. j # None
    BY <1>6, GroupSendAssumption
  <2> QED BY <1>6, <1>10, <1>11, <1>12, <2>1 DEF AttemptOK, Unstored
<1> QED BY <1>1, <1>9, <1>11, <1>13, QuietAll

(* rereadStoredGroupDevices, up to the encryption: an added device has the *)
(* key, has a session that encrypts, was skipped, or the key rotated.      *)
LEMMA ReplayStep ==
  ASSUME IInv, NEW s \in Sends, Replay(s)
  PROVE  IInv'
<1> DEFINE i == intent[s]
<1> DEFINE A == linked \ Targeted(i)
<1> DEFINE L == {d \in linked : \E a \in A : Account[a] = Account[d]}
<1> DEFINE G == Distribution(i, FALSE)
<1> DEFINE N == IF G = {} THEN {} ELSE Needing(L, i)
<1> DEFINE U == Unlisted(i)
<1>1. /\ attempt = None /\ i # None /\ i.status = "stored"
      /\ UNCHANGED <<relayVars, mailbox, own, rows, intent>>
  BY DEF Replay, HasStatus
<1>2. PICK S \in Skippable(N) :
        /\ session' = Sessions(N, S) /\ Paid(S)
        /\ \/ attempt' = attempt
           \/ LET tasks == [d \in Devices |-> IF d \in S THEN "skipped"
                                              ELSE IF d \in N THEN "name" ELSE "idle"]
              IN  attempt' = [Attempt(s, FALSE, "reread", tasks) EXCEPT
                                !.refreshed = A, !.removed = U, !.enc = Sessions(N, S)]
  BY Zenon DEF Replay
<1>3. /\ linked \subseteq Devices /\ own \in Owns /\ reg \in [Devices -> Nat] /\ changes \in Nat
      /\ own.index \in Nat
      /\ intent \in [Sends -> Intents \union {None}] /\ i \in Intents
      /\ IntentOK(i, mailbox, linked, reg, own)
  BY <1>1 DEF IInv, TypeOK, Owns, IntentInv
<1>4. S \subseteq N /\ faults' \in Nat
  <2> HIDE DEF N
  <2> QED BY <1>2, SkippedFacts
<1>5. /\ \A d \in Devices : d \in A <=> d \in linked /\ i.dev[d] = None
      /\ \A d \in A : d \in L
      /\ L \subseteq linked /\ A \subseteq Devices
  BY <1>3 DEF Targeted
<1>6. U \subseteq Devices /\ \A d \in Devices : d \in U => d \notin linked
  BY DEF Unlisted
<1>7. /\ N \subseteq L
      /\ \A d \in N : i.pre[d] = None
      /\ G # {} => \A d \in L : d \notin N => HandedOff(d, i.key) \/ i.pre[d] # None
  <2> HIDE DEF L, G, i, HandedOff
  <2> QED BY DEF Needing
<1>8. G = {} => own.key # i.key
  <2>1. FALSE \in BOOLEAN
    OBVIOUS
  <2> QED BY <1>3, <2>1, DistributionFacts
<1> DEFINE ss == Sessions(N, S)
<1> DEFINE T == [d \in Devices |-> IF d \in S THEN "skipped" ELSE IF d \in N THEN "name" ELSE "idle"]
<1> DEFINE a == Attempt(s, FALSE, "reread", T)
<1>9. /\ session' = ss
      /\ \/ attempt' = attempt
         \/ attempt' = [a EXCEPT !.refreshed = A, !.removed = U, !.enc = ss]
  BY <1>2
<1>10. /\ T \in [Devices -> Tasks]
       /\ \A d \in Devices : /\ d \in S => T[d] = "skipped"
                             /\ d \notin S /\ d \in N => T[d] = "name"
                             /\ d \notin S /\ d \notin N => T[d] = "idle"
  <2> HIDE DEF N
  <2> QED BY DEF Tasks
<1> HIDE DEF N, G, L, A, U, i, T
<1>11. /\ ss \in [Devices -> Nat]
       /\ \A d \in Devices : /\ ss[d] <= reg[d]
                             /\ session[d] # 0 => ss[d] = session[d]
                             /\ d \in N /\ d \notin S /\ d \in linked => ss[d] # 0
  BY SessionsFacts
<1> HIDE DEF ss
<1>12. UNCHANGED <<linked, reg, mailbox, rows>> /\ changes' \in Nat
       /\ own' \in Owns /\ own'.key = own.key /\ own.index <= own'.index /\ own' = own
  BY <1>1, <1>3 DEF relayVars
<1>13. CASE attempt' = attempt
  BY <1>1, <1>4, <1>9, <1>11, <1>12, <1>13, FailedStart
<1>14. CASE attempt' = [a EXCEPT !.refreshed = A, !.removed = U, !.enc = ss]
  <2>1. /\ a \in Attempts /\ a.send = s /\ a.first = FALSE /\ a.phase = "reread" /\ a.task = T
    <3> DEFINE first == FALSE
    <3> DEFINE b == Attempt(s, first, "reread", T)
    <3>1. "reread" \in Phases /\ first \in BOOLEAN
      BY DEF Phases
    <3> HIDE DEF first
    <3>2. b \in Attempts /\ b.send = s /\ b.first = first /\ b.phase = "reread" /\ b.task = T
      BY <1>10, <3>1, AttemptFacts
    <3> QED BY <3>2 DEF first
  <2> HIDE DEF a
  <2>2. /\ attempt' \in Attempts /\ attempt'.send = s /\ attempt'.first = FALSE
        /\ attempt'.phase = "reread" /\ attempt'.task = T
        /\ attempt'.refreshed = A /\ attempt'.removed = U /\ attempt'.enc = ss
    BY <1>5, <1>6, <1>11, <1>14, <2>1 DEF Attempts
  <2>3. ASSUME NEW d \in Devices
        PROVE  TaskOK(attempt', i, d, mailbox, linked, reg, ss, own.key)
    <3>1. /\ attempt'.phase = "reread" /\ attempt'.phase \notin Unstored
          /\ attempt'.task[d] = T[d] /\ attempt'.enc[d] = ss[d]
          /\ T[d] \in Waiting
      BY <1>10, <2>2 DEF Unstored, Waiting
    <3>2. d \in attempt'.refreshed <=> d \in linked /\ i.dev[d] = None
      BY <1>5, <2>2
    <3>3. d \in attempt'.removed => d \notin linked /\ T[d] = "idle"
      <4>1. d \in U => d \notin linked /\ d \notin N /\ d \notin S
        BY <1>4, <1>5, <1>6, <1>7
      <4> QED BY <1>10, <2>2, <4>1
    <3>4. T[d] = "name" => i.pre[d] = None /\ ss[d] # 0 /\ d \in linked
      <4>1. T[d] = "name" => d \in N /\ d \notin S
        BY <1>10
      <4> QED BY <1>5, <1>7, <1>11, <4>1
    <3>5. ASSUME d \in attempt'.refreshed, i.key = own.key, T[d] = "idle"
          PROVE  Served(i, d, mailbox, linked, reg, ss)
      <4>1. d \notin N /\ d \in L /\ d \in linked /\ i.dev[d] = None /\ G # {}
        BY <1>5, <1>8, <1>10, <2>2, <3>5
      <4>2. i.pre[d] = None
        BY <1>1, <1>3, <4>1 DEF IntentOK, DeviceOK, PreOK, i
      <4>3. HandedOff(d, i.key)
        BY <1>7, <4>1, <4>2
      <4>4. session[d] # 0 /\ Reached(mailbox, linked, reg, d, session[d], i.key)
        BY <4>3, HandedOffReached
      <4> HIDE DEF Reached
      <4> QED BY <1>11, <4>4 DEF Served
    <3> HIDE DEF Served
    <3> QED BY <3>1, <3>2, <3>3, <3>4, <3>5 DEF TaskOK, Waiting, Naming
  <2>4. AttemptOK(attempt', i, mailbox, linked, reg, session', own')
    <3>1. /\ i # None /\ i.status = IF attempt'.phase \in Unstored THEN "prepared" ELSE "stored"
          /\ attempt'.phase # "handoff" /\ ~attempt'.first
      BY <1>1, <2>2 DEF Unstored, i
    <3>2. session' = ss
      BY <1>9
    <3> QED BY <1>12, <2>3, <3>1, <3>2 DEF AttemptOK
  <2>5. intent' = [intent EXCEPT ![s] = i]
    BY <1>1, <1>3 DEF i
  <2>6. IntentOK(i, mailbox, linked, reg, own') /\ Replaces(intent[s], i)
    BY <1>3, <1>12 DEF Replaces, i
  <2> QED BY <1>1, <1>3, <1>4, <1>9, <1>11, <1>12, <2>2, <2>4, <2>5, <2>6, StartStep
<1> QED BY <1>9, <1>13, <1>14

(* rereadStoredGroupDevices, from the reads of the registrations on: a     *)
(* device that left loses its messages, and an added one has the key, gets *)
(* it, was skipped, or the key rotated.                                    *)
LEMMA RereadStep ==
  ASSUME IInv, Reread
  PROVE  IInv'
<1> DEFINE i == Current
<1> DEFINE A == attempt.refreshed
<1> DEFINE U == attempt.removed
<1> DEFINE N == Settled("name")
<1> DEFINE S == Settled("skipped")
<1> DEFINE G == Distribution(i, FALSE)
<1> DEFINE E == i.met \union S
<1> DEFINE m == [i EXCEPT !.met = E]
<1> DEFINE k == WithoutDevices(m, U)
<1> DEFINE h == WithHandoffs(k, N, G, FALSE)
<1> DEFINE j == WithDevice(h, A, session)
<1>1. /\ attempt # None /\ attempt.phase = "reread"
      /\ intent' = [intent EXCEPT ![attempt.send] = j]
      /\ attempt' = Attempt(attempt.send, FALSE, "pre", PreTasks(j))
      /\ UNCHANGED <<relayVars, mailbox, session, own, rows, faults>>
  BY DEF Reread, SetIntent
<1>2. /\ attempt \in Attempts /\ attempt.send \in Sends
      /\ i \in Intents /\ i.key <= own.key /\ i.status = "stored"
      /\ reg \in [Devices -> Nat] /\ session \in [Devices -> Nat] /\ own \in Owns
      /\ \A d \in Devices : session[d] <= reg[d]
      /\ \A d \in Devices : DeviceOK(i, d, mailbox, linked, reg, own)
      /\ \A d \in Devices : TaskOK(attempt, i, d, mailbox, linked, reg, session, own.key)
  BY <1>1, AllFacts DEF Unstored
<1>3. PICK x \in Nat : AtMost(G, x) /\ (G = {} => own.key # i.key) /\ x = own.index
  <2>1. FALSE \in BOOLEAN
    OBVIOUS
  <2>2. \E x \in Nat :
           /\ AtMost(G, x)
           /\ G = {} => ~FALSE /\ own.key # i.key
           /\ G # {} => FALSE \/ own.key = i.key
           /\ FALSE => x = i.index
           /\ ~FALSE => x = own.index
    BY <1>2, <2>1, DistributionFacts
  <2> HIDE DEF G
  <2> QED BY <2>2
<1>4. /\ E \subseteq Devices /\ \A d \in S : d \in E
      /\ \A d \in i.met : d \in E
  BY <1>2 DEF Intents, Settled
<1>5. ASSUME NEW d \in Devices
      PROVE  /\ d \in N => /\ i.pre[d] = None /\ session[d] # 0 /\ d \notin U
                           /\ attempt.enc[d] = session[d] \/ d \in i.met
                           /\ i.dev[d] # None \/ d \in A
             /\ d \in U => (d \in i.members => d \notin linked) /\ d \notin A
             /\ d \in A /\ d \notin N /\ d \notin S =>
                  i.key # own.key \/ d \in i.met \/ Served(i, d, mailbox, linked, reg, session)
  <2>1. (d \in N <=> attempt.task[d] = "name") /\ (d \in S <=> attempt.task[d] = "skipped")
    BY DEF Settled
  <2>2. TaskOK(attempt, i, d, mailbox, linked, reg, session, own.key)
    BY <1>2
  <2> HIDE DEF Served, N, S, i
  <2> QED BY <1>1, <2>1, <2>2 DEF TaskOK, Naming
<1>6. FALSE \in BOOLEAN /\ own.index \in Nat
  BY <1>2 DEF Owns
<1> HIDE DEF N, S, G, A, U, E, i
<1>7. /\ m \in Intents /\ m.met = E /\ m.status = "stored" /\ m.key = i.key
      /\ m.index = i.index /\ m.members = i.members /\ m.accepted = i.accepted
      /\ m.pre = i.pre /\ m.dev = i.dev /\ m.issued = i.issued
  BY <1>2, <1>4 DEF Intents
<1> HIDE DEF m
<1>8. ASSUME NEW d \in Devices PROVE DeviceOK(m, d, mailbox, linked, reg, own)
  <2>1. DeviceOK(i, d, mailbox, linked, reg, own) /\ (d \in i.met => d \in m.met)
        /\ m.status = i.status
    BY <1>2, <1>4, <1>7
  <2>2. PreOK(m, d, mailbox, linked, reg)
    BY <1>7, <2>1, Zenon DEF DeviceOK, PreOK
  <2>3. IdOK(m, d)
    BY <1>7, <2>1, Zenon DEF DeviceOK, IdOK
  <2>4. CoverOK(m, d, mailbox, linked, reg, own.key)
    BY <1>7, <2>1, Zenon DEF DeviceOK, CoverOK
  <2>5. MemberOK(m, d, linked, reg)
    BY <1>7, <2>1, Zenon DEF DeviceOK, MemberOK
  <2>6. IndexOK(m, d, own)
    BY <1>7, <2>1, Zenon DEF DeviceOK, IndexOK
  <2> QED BY <2>2, <2>3, <2>4, <2>5, <2>6 DEF DeviceOK
<1>9. /\ k \in Intents /\ SameBase(m, k) /\ k.status = "stored" /\ k.issued = m.issued
      /\ \A d \in Devices : /\ k.pre[d] = IF d \in U THEN None ELSE m.pre[d]
                            /\ k.dev[d] = IF d \in U THEN None ELSE m.dev[d]
  BY <1>7, WithoutDevicesFacts
<1> HIDE DEF k
<1>10. ASSUME NEW d \in Devices PROVE DeviceOK(k, d, mailbox, linked, reg, own)
  <2>1. CASE d \in U
    BY <1>5, <1>7, <1>8, <1>9, <2>1, DropAllOK
  <2>2. CASE d \notin U
    <3>1. SameFor(m, k, d)
      BY <1>7, <1>9, <2>2 DEF SameFor, SameBase
    <3> QED BY <1>8, <3>1, SameDevice
  <2> QED BY <2>1, <2>2
<1>11. /\ k.key = i.key /\ k.met = E
       /\ \A d \in Devices : d \notin U => k.pre[d] = i.pre[d] /\ k.dev[d] = i.dev[d]
  BY <1>7, <1>9 DEF SameBase
<1>12. /\ h \in Intents /\ SameBase(k, h) /\ h.status = "stored" /\ h.dev = k.dev
       /\ \A d \in Devices :
            /\ d \in N /\ G # {} => h.pre[d] = PreOf(k, x, FALSE, d) /\ h.issued[d] = k.issued[d] + 1
            /\ d \notin N \/ G = {} => h.pre[d] = k.pre[d] /\ h.issued[d] = k.issued[d]
  <2>1. CASE G = {}
    <3>1. h = k
      BY <1>2, <1>3, <1>6, <1>9, <2>1, WithHandoffsFacts
    <3> QED BY <1>9, <2>1, <3>1 DEF SameBase
  <2>2. CASE G # {}
    <3>1. Named(k, h, N, x, FALSE)
      BY <1>2, <1>3, <1>6, <1>9, <2>2, WithHandoffsFacts
    <3> HIDE DEF h
    <3> QED BY <1>9, <2>2, <3>1 DEF Named
  <2> QED BY <2>1, <2>2
<1> HIDE DEF h
<1>13. /\ j \in Intents /\ SameBase(h, j) /\ j.status = "stored" /\ j.pre = h.pre
       /\ j.issued = h.issued
       /\ \A d \in Devices : j.dev[d] = IF d \in A THEN session[d] ELSE h.dev[d]
  BY <1>2, <1>12, WithDeviceFacts
<1> HIDE DEF j
<1>14. SameBase(k, j) /\ j.status = k.status
  BY <1>9, <1>12, <1>13 DEF SameBase
<1>15. ASSUME NEW d \in Devices PROVE DeviceOK(j, d, mailbox, linked, reg, own)
  <2>1. CASE d \in N /\ G # {}
    <3>a. /\ i.pre[d] = None /\ session[d] # 0 /\ d \notin U
          /\ attempt.enc[d] = session[d] \/ d \in i.met
          /\ i.dev[d] # None \/ d \in A
      BY <1>5, <2>1
    <3>b. j.pre[d] = PreOf(k, x, FALSE, d) /\ j.issued[d] = k.issued[d] + 1
      BY <1>12, <1>13, <2>1
    <3>c. session[d] <= reg[d] /\ x <= own.index
      BY <1>2, <1>3, <1>6
    <3>d. k.pre[d] = None /\ (d \in i.met => d \in k.met)
      BY <1>4, <1>11, <3>a
    <3>1. /\ j.pre[d] = PreOf(k, x, FALSE, d) /\ j.issued[d] = k.issued[d] + 1
          /\ session[d] <= reg[d] /\ x <= own.index /\ k.pre[d] = None /\ session[d] # 0
          /\ attempt.enc[d] = session[d] \/ d \in k.met
          /\ i.dev[d] # None \/ d \in A
      BY <3>a, <3>b, <3>c, <3>d
    <3>2. j.dev[d] = session[d] \/ (j.dev[d] = k.dev[d] /\ k.dev[d] # None)
      BY <1>5, <1>11, <1>12, <1>13, <2>1, <3>1
    <3> QED BY <1>2, <1>3, <1>6, <1>9, <1>10, <1>13, <1>14, <3>1, <3>2, NewPreOK
  <2>2. CASE d \in A /\ ~(d \in N /\ G # {})
    <3>1. /\ j.pre[d] = k.pre[d] /\ j.issued[d] = k.issued[d] /\ j.dev[d] = session[d]
          /\ session[d] <= reg[d] /\ d \notin U
      BY <1>2, <1>5, <1>12, <1>13, <2>2
    <3>2. \/ k.key # own.key \/ d \in k.met
          \/ Served(k, d, mailbox, linked, reg, session)
      <4>1. CASE G = {}
        BY <1>3, <1>11, <4>1
      <4>2. CASE d \in S
        BY <1>4, <1>11, <4>2
      <4>3. CASE G # {} /\ d \notin S
        <5>1. i.key # own.key \/ d \in i.met \/ Served(i, d, mailbox, linked, reg, session)
          BY <1>5, <2>2, <4>3
        <5>2. Served(i, d, mailbox, linked, reg, session) => Served(k, d, mailbox, linked, reg, session)
          BY <1>11, <3>1 DEF Served
        <5> QED BY <1>4, <1>11, <5>1, <5>2
      <4> QED BY <4>1, <4>2, <4>3
    <3> QED BY <1>2, <1>9, <1>10, <1>13, <1>14, <3>1, <3>2, NewDevOK
  <2>3. CASE d \notin A /\ ~(d \in N /\ G # {})
    <3>1. SameFor(k, j, d)
      BY <1>12, <1>13, <1>14, <2>3 DEF SameFor, SameBase
    <3> QED BY <1>10, <3>1, SameDevice
  <2> QED BY <2>1, <2>2, <2>3
<1>16. IntentOK(j, mailbox, linked, reg, own) /\ Replaces(Current, j)
  <2>1. j.key = i.key
    BY <1>11, <1>14 DEF SameBase
  <2> QED BY <1>2, <1>13, <1>15, <2>1 DEF IntentOK, Replaces, i
<1>17. /\ attempt' \in Attempts /\ attempt'.send = attempt.send
       /\ AttemptOK(attempt', j, mailbox, linked, reg, session, own)
  <2>1. "pre" \in {"pre", "preLeft"} /\ FALSE \in BOOLEAN
    OBVIOUS
  <2> QED BY <1>1, <1>2, <1>13, <2>1, FreshPre
<1> QED BY <1>1, <1>16, <1>17, QuietAll

-----------------------------------------------------------------------------
(* The invariant and what follows from it.                                 *)

(* The initial state.                                                      *)
LEMMA InitHolds ==
  ASSUME Init
  PROVE  IInv
<1>1. /\ linked = Listed /\ reg = [d \in Devices |-> IF d \in linked THEN 1 ELSE 0]
      /\ mailbox = [d \in Devices |-> <<>>] /\ session = [d \in Devices |-> 0]
      /\ own = [key |-> 1, index |-> 0] /\ rows = {} /\ intent = [s \in Sends |-> None]
      /\ attempt = None /\ faults = 0 /\ changes = 0
  BY DEF Init
<1>2. TypeOK
  <2>1. linked \subseteq Devices /\ reg \in [Devices -> Nat] /\ session \in [Devices -> Nat]
    BY <1>1, GroupSendAssumption
  <2>2. mailbox \in [Devices -> Seq(Messages)]
    <3>1. <<>> \in Seq(Messages)
      OBVIOUS
    <3> QED BY <1>1, <3>1
  <2>3. own \in [key : Nat, index : Nat] /\ rows \subseteq Rows /\ faults \in Nat /\ changes \in Nat
    BY <1>1
  <2>4. intent \in [Sends -> Intents \union {None}] /\ attempt \in Attempts \union {None}
    BY <1>1
  <2> QED BY <2>1, <2>2, <2>3, <2>4 DEF TypeOK
<1>3. RelayInv
  <2>1. ASSUME NEW d \in Devices PROVE session[d] = 0 /\ reg[d] \in Nat /\ (d \in linked => reg[d] = 1)
    BY <1>1
  <2>2. ASSUME NEW d \in Devices PROVE d \in linked => reg[d] # 0
    BY <2>1
  <2>3. ASSUME NEW d \in Devices PROVE session[d] <= reg[d]
    BY <2>1
  <2> QED BY <2>2, <2>3 DEF RelayInv
<1>4. \A d \in Devices : \A p \in DOMAIN mailbox[d] : FALSE
  BY <1>1
<1>5. MailInv /\ OpensInv /\ KeyInv
  BY <1>4 DEF MailInv, OpensInv, KeyInv
<1>6. RowsInv /\ AttemptInv /\ IntentInv
  BY <1>1 DEF RowsInv, AttemptInv, IntentInv
<1> QED BY <1>2, <1>3, <1>5, <1>6 DEF IInv

(* A step that changes nothing.                                            *)
LEMMA Stutters ==
  ASSUME IInv, UNCHANGED vars
  PROVE  IInv'
<1>1. /\ linked' = linked /\ reg' = reg /\ mailbox' = mailbox /\ session' = session /\ own' = own
      /\ rows' = rows /\ intent' = intent /\ attempt' = attempt /\ faults' = faults
      /\ changes' = changes
  BY DEF vars
<1>2. TypeOK'
  BY <1>1 DEF IInv, TypeOK
<1>3. RelayInv' /\ RowsInv' /\ MailInv' /\ IntentInv'
  BY <1>1 DEF IInv, RelayInv, RowsInv, MailInv, IntentInv
<1>4. AttemptInv'
  BY <1>1 DEF IInv, AttemptInv
<1>5. OpensInv' /\ KeyInv'
  BY <1>1, MailProperties DEF IInv
<1> QED BY <1>2, <1>3, <1>4, <1>5 DEF IInv

(* Each reachable state of the sender, its stored intents, its ledger and  *)
(* the Relay satisfies the invariant.                                      *)
THEOREM Invariance == Spec => []IInv
<1>1. Init => IInv
  BY InitHolds
<1>2. IInv /\ [Next]_vars => IInv'
  <2>1. SUFFICES ASSUME IInv, [Next]_vars PROVE IInv'
    OBVIOUS
  <2>2. CASE NamePayload
    BY <2>1, <2>2, NamePayloadStep
  <2>3. CASE StoreIntent
    BY <2>1, <2>3, StoreIntentStep
  <2>4. CASE Reread
    BY <2>1, <2>4, RereadStep
  <2>5. CASE ConfirmPre
    BY <2>1, <2>5, ConfirmPreStep
  <2>6. CASE Leave
    BY <2>1, <2>6, LeaveStep
  <2>7. CASE NameLeft
    BY <2>1, <2>7, NameLeftStep
  <2>8. CASE Renew
    BY <2>1, <2>8, RenewStep
  <2>9. CASE EndDevices
    BY <2>1, <2>9, EndDevicesStep
  <2>10. ASSUME NEW d \in Devices, PostPre(d) PROVE IInv'
    BY <2>1, <2>10, PostPreStep
  <2>11. ASSUME NEW d \in Devices, HoldPre(d) PROVE IInv'
    BY <2>1, <2>11, HoldPreStep
  <2>12. ASSUME NEW d \in Devices, RemovedPre(d) PROVE IInv'
    BY <2>1, <2>12, RemovedPreStep
  <2>13. ASSUME NEW d \in Devices, RepairPre(d) PROVE IInv'
    BY <2>1, <2>13, RepairPreStep
  <2>14. ASSUME NEW d \in Devices, NamePre(d) PROVE IInv'
    BY <2>1, <2>14, NamePreStep
  <2>15. ASSUME NEW d \in Devices, RecordHandoff(d) PROVE IInv'
    BY <2>1, <2>15, RecordHandoffStep
  <2>16. ASSUME NEW d \in Devices, PostDevice(d) PROVE IInv'
    BY <2>1, <2>16, PostDeviceStep
  <2>17. ASSUME NEW d \in Devices, RepairDevice(d) PROVE IInv'
    BY <2>1, <2>17, RepairDeviceStep
  <2>18. ASSUME NEW d \in Devices, NameDevice(d) PROVE IInv'
    BY <2>1, <2>18, NameDeviceStep
  <2>19. ASSUME NEW d \in Devices, ConfirmRepair(d) PROVE IInv'
    BY <2>1, <2>19, ConfirmRepairStep
  <2>20. ASSUME NEW d \in Devices, RenewDevice(d) PROVE IInv'
    BY <2>1, <2>20, RenewDeviceStep
  <2>21. ASSUME NEW d \in Devices, Refused(d) PROVE IInv'
    BY <2>1, <2>21, RefusedStep
  <2>22. ASSUME NEW s \in Sends, PreparePayload(s) PROVE IInv'
    BY <2>1, <2>22, PreparePayloadStep
  <2>23. ASSUME NEW s \in Sends, Replay(s) PROVE IInv'
    BY <2>1, <2>23, ReplayStep
  <2>24. ASSUME NEW d \in Devices, LosePre(d) PROVE IInv'
    BY <2>1, <2>24, LosePreStep
  <2>25. ASSUME NEW d \in Devices, LoseDevice(d) PROVE IInv'
    BY <2>1, <2>25, LoseDeviceStep
  <2>26. ASSUME NEW d \in Devices, FailRefresh(d) PROVE IInv'
    BY <2>1, <2>26, FailRefreshStep
  <2>27. ASSUME NEW d \in Devices, InboundPreKey(d) PROVE IInv'
    BY <2>1, <2>27, InboundPreKeyStep
  <2>28. ASSUME NEW d \in Devices, Install(d) PROVE IInv'
    BY <2>1, <2>28, InstallStep
  <2>29. ASSUME NEW d \in Devices, Unlink(d) PROVE IInv'
    BY <2>1, <2>29, UnlinkStep
  <2>30. CASE Crash
    BY <2>1, <2>30, CrashStep
  <2>31. CASE RotateSenderKey
    BY <2>1, <2>31, RotateStep
  <2>32. CASE UNCHANGED vars
    BY <2>1, <2>32, Stutters
  <2>33. SenderStep => IInv'
    BY <2>2, <2>3, <2>4, <2>5, <2>6, <2>7, <2>8, <2>9, <2>10, <2>11, <2>12, <2>13, <2>14,
       <2>15, <2>16, <2>17, <2>18, <2>19, <2>20, <2>21
       DEF SenderStep
  <2> QED BY <2>1, <2>22, <2>23, <2>24, <2>25, <2>26, <2>27, <2>28, <2>29, <2>30, <2>31,
             <2>32, <2>33
          DEF Next
<1> QED BY <1>1, <1>2, PTL DEF Spec

(* The state has the types that the code declares for intents, attempts,   *)
(* rows and messages.                                                      *)
THEOREM TypeCorrect == Spec => []TypeOK
<1>1. IInv => TypeOK
  BY DEF IInv
<1> QED BY <1>1, Invariance, PTL

(* recordSenderKeyHandoff never writes, and no later reinstall or archive  *)
(* leaves, a row for an install that got no distribution of the key.  A    *)
(* session of that install encrypted the distribution, unless the device   *)
(* came back with a session of its own during the send.                    *)
THEOREM RowsAreHandoffs == Spec => []RowIsHandoff
<1>1. IInv => RowIsHandoff
  <2>1. SUFFICES ASSUME IInv, NEW r \in rows, r.reg = reg[r.dev], r.dev \in linked
                 PROVE  \E p \in DOMAIN mailbox[r.dev] :
                          /\ IsDistribution(mailbox[r.dev][p], r.key)
                          /\ mailbox[r.dev][p].opens \/ mailbox[r.dev][p].met
    BY DEF RowIsHandoff
  <2>2. Reached(mailbox, linked, reg, r.dev, r.reg, r.key) /\ r.dev \in Devices
    BY <2>1 DEF IInv, RowsInv, TypeOK
  <2>3. PICK p \in DOMAIN mailbox[r.dev] : IsDistribution(mailbox[r.dev][p], r.key)
    BY <2>1, <2>2 DEF Reached, HasKey
  <2>4. OpensOrMet(mailbox[r.dev][p])
    BY <2>1, <2>2, <2>3 DEF IInv, MailInv, MailOK
  <2> QED BY <2>3, <2>4 DEF OpensOrMet, IsDistribution
<1> QED BY <1>1, Invariance, PTL

(* The earlier positions of a mailbox.                                     *)
LEMMA EarlierIn ==
  ASSUME IInv, NEW d \in Devices, NEW p \in DOMAIN mailbox[d], NEW q \in 1 .. p - 1
  PROVE  q \in DOMAIN mailbox[d]
<1>1. mailbox[d] \in Seq(Messages)
  BY DEF IInv, TypeOK
<1>2. /\ Len(mailbox[d]) \in Nat /\ DOMAIN mailbox[d] = 1 .. Len(mailbox[d])
  BY <1>1
<1> QED BY <1>2

(* Whatever was refused, repaired, lost or reinstalled while it ran, a     *)
(* group message that the attempt of its preparation posts is behind a     *)
(* distribution of its key at no later chain index, which is the first of  *)
(* the mailbox and opens.  The exceptions are a device that no session     *)
(* reached, one that came back with a session of its own during the send,  *)
(* and one that got a distribution of the key that does not open.          *)
THEOREM FirstAttemptsOpen == Spec => []FirstAttemptOpens
<1>1. IInv => FirstAttemptOpens
  <2>1. SUFFICES ASSUME IInv, NEW d \in Devices, NEW p \in DOMAIN mailbox[d],
                        mailbox[d][p].n = 0, mailbox[d][p].first, ~mailbox[d][p].met,
                        ~Misled(d, mailbox[d][p].key)
                 PROVE  \E q \in 1 .. p - 1 :
                          /\ IsDistribution(mailbox[d][q], mailbox[d][p].key) /\ mailbox[d][q].opens
                          /\ mailbox[d][q].index <= mailbox[d][p].index
                          /\ \A r \in 1 .. q - 1 : ~IsDistribution(mailbox[d][r], mailbox[d][p].key)
    BY DEF FirstAttemptOpens
  <2>2. OpensAt(mailbox[d], p)
    BY <2>1 DEF IInv, OpensInv
  <2>3. PICK q \in 1 .. p - 1 :
          /\ IsDistribution(mailbox[d][q], mailbox[d][p].key)
          /\ mailbox[d][q].index <= mailbox[d][p].index
          /\ \A r \in 1 .. q - 1 : ~IsDistribution(mailbox[d][r], mailbox[d][p].key)
    BY <2>1, <2>2 DEF OpensAt
  <2>4. mailbox[d][q].opens
    BY <2>1, <2>3, EarlierIn DEF Misled
  <2> QED BY <2>3, <2>4
<1> QED BY <1>1, Invariance, PTL

(* A replay after a crash, too, posts a group message of the current key   *)
(* only behind a distribution of that key that opens, with the exceptions  *)
(* of FirstAttemptsOpen.                                                   *)
THEOREM KeysComeFirst == Spec => []KeyBeforeMessage
<1>1. IInv => KeyBeforeMessage
  <2>1. SUFFICES ASSUME IInv, NEW d \in Devices, NEW p \in DOMAIN mailbox[d],
                        mailbox[d][p].n = 0, ~mailbox[d][p].met, mailbox[d][p].key = own.key,
                        ~Misled(d, mailbox[d][p].key)
                 PROVE  \E q \in 1 .. p - 1 :
                          IsDistribution(mailbox[d][q], mailbox[d][p].key) /\ mailbox[d][q].opens
    BY DEF KeyBeforeMessage
  <2>2. KeyAt(mailbox[d], p, own.key)
    BY <2>1 DEF IInv, KeyInv
  <2>3. PICK q \in 1 .. p - 1 : IsDistribution(mailbox[d][q], mailbox[d][p].key)
    BY <2>1, <2>2 DEF KeyAt
  <2>4. mailbox[d][q].opens
    BY <2>1, <2>3, EarlierIn DEF Misled
  <2> QED BY <2>3, <2>4
<1> QED BY <1>1, Invariance, PTL

(* completeOutgoingMessageIntent completes no send that misses a listed    *)
(* device of its preparation, through replays, removals and repairs.       *)
THEOREM CompletedSendsReachedAll == Spec => []CompletedReachedAll
<1>1. IInv => CompletedReachedAll
  <2>1. SUFFICES ASSUME IInv, NEW s \in Sends, HasStatus(s, "complete"), NEW d \in intent[s].members
                 PROVE  <<d, 0>> \in intent[s].accepted \/ d \notin linked
    BY DEF CompletedReachedAll
  <2>2. /\ intent[s] # None /\ intent[s].status = "complete" /\ intent[s] \in Intents
        /\ IntentOK(intent[s], mailbox, linked, reg, own)
    BY <2>1 DEF HasStatus, IInv, TypeOK, IntentInv
  <2>3. d \in Devices
    BY <2>2 DEF Intents
  <2>4. MemberOK(intent[s], d, linked, reg)
    BY <2>2, <2>3 DEF IntentOK, DeviceOK
  <2> QED BY <2>2, <2>4 DEF MemberOK
<1> QED BY <1>1, Invariance, PTL

=============================================================================
