----------------------------- MODULE SenderKeys -----------------------------
(***************************************************************************)
(* The sender keys of one sender device in one group: SenderKeyManager of  *)
(* sender-keys/manager.ts over a store, at the sender and at the devices   *)
(* that receive from it.  Every operation runs in the turn of the group    *)
(* (GroupSenderKeyOperations.run) and commits in one store write, so each  *)
(* is one action.                                                          *)
(*                                                                         *)
(* Distributions and group messages travel by mailboxes that can delay,    *)
(* reorder, repeat or never show them: whatever was sent once can be       *)
(* received at any later time, any number of times.                        *)
(*                                                                         *)
(* A chain key is the term of its key and the number of its ratchet steps. *)
(* The message key derived from it is the same term.  The signatures are   *)
(* those of the sender and always verify.  The archive of the sender's own *)
(* earlier keys is left out: no operation reads it.  A key past its age is *)
(* one that the sender does not encrypt with until it rotates.             *)
(***************************************************************************)
EXTENDS Naturals, Sequences, FiniteSetsExt

CONSTANTS
  Receivers,
  NoKey,            \* the sender has no key
  MaxKeys,          \* bound: the keys that the sender creates
  MaxOffers,        \* bound: the distributions sent to one receiver
  ChainIndexLimit,  \* 0xfffffffe: the sender refuses to encrypt at it
  MaxStates,        \* MAX_SENDER_KEY_STATES
  MaxChainAdvance,
  MaxSkippedKeys

ASSUME SenderKeysAssumption ==
  /\ {MaxKeys, MaxOffers, ChainIndexLimit, MaxChainAdvance} \subseteq Nat
  /\ {MaxStates, MaxSkippedKeys} \subseteq Nat \ {0}

VARIABLES
  own,            \* the sender's key state, or NoKey
  created,        \* how many keys the sender has created
  groupMessages,  \* the encrypted group messages
  distributions,  \* by receiver, the distributions sent to it
  record,         \* by receiver, its states of the sender, the current first
  skipped         \* by receiver, its skipped message keys of the sender

senderVars == <<own, created, groupMessages, distributions>>
vars == <<own, created, groupMessages, distributions, record, skipped>>

Ids == 1 .. MaxKeys

ChainKey(id, step) == [id |-> id, step |-> step]

(* advanceChainKey, n times. *)
Advance(chainKey, n) == [chainKey EXCEPT !.step = @ + n]

NewState(id, generation) ==
  [id |-> id, generation |-> generation, chainKey |-> ChainKey(id, 0), chainIndex |-> 0]

Init ==
  /\ own = NoKey
  /\ created = 0
  /\ groupMessages = {}
  /\ distributions = [r \in Receivers |-> {}]
  /\ record = [r \in Receivers |-> <<>>]
  /\ skipped = [r \in Receivers |-> {}]

-----------------------------------------------------------------------------
(* The sender.                                                             *)

InstallOwn(generation) ==
  /\ created < MaxKeys
  /\ created' = created + 1
  /\ own' = NewState(created', generation)
  /\ UNCHANGED <<groupMessages, distributions, record, skipped>>

CreateSenderKey == InstallOwn(1)

RotateSenderKey == InstallOwn(IF own = NoKey THEN 1 ELSE own.generation + 1)

DeleteSenderKey ==
  /\ own # NoKey
  /\ own' = NoKey
  /\ UNCHANGED <<created, groupMessages, distributions, record, skipped>>

Encrypted(state) ==
  [id |-> state.id, iteration |-> state.chainIndex, key |-> state.chainKey]

(* The state after n ratchet steps. *)
Ratchet(state, n) ==
  [state EXCEPT !.chainKey = Advance(@, n), !.chainIndex = @ + n]

EncryptGroupMessage ==
  /\ own # NoKey
  /\ own.chainIndex < ChainIndexLimit
  /\ groupMessages' = groupMessages \union {Encrypted(own)}
  /\ own' = Ratchet(own, 1)
  /\ UNCHANGED <<created, distributions, record, skipped>>

(* getCurrentSenderKeyDistribution, sent to one receiver: by a send, by    *)
(* distributeSenderKeyToUser or by the answer to a retry request.          *)
DistributeSenderKey(r) ==
  /\ own # NoKey
  /\ Cardinality(distributions[r]) < MaxOffers
  /\ distributions' = [distributions EXCEPT ![r] = @ \union {own}]
  /\ UNCHANGED <<own, created, groupMessages, record, skipped>>

-----------------------------------------------------------------------------
(* The receivers.                                                          *)

(* loadPreviousStates. *)
Previous(rec) == SubSeq(rec, 2, Min({Len(rec), MaxStates}))

Holds(states, id) == \E i \in DOMAIN states : states[i].id = id

(* Mutant: a second copy of the current key is installed again. *)
StaleDistributionRepeats(rec, d) ==
  /\ rec # <<>>
  /\ IF Head(rec).id = d.id
       THEN d.generation < Head(rec).generation
       ELSE Holds(Previous(rec), d.id)

(* A late copy of a previous key, or of the current key in a generation    *)
(* that is not later, changes nothing.                                     *)
StaleDistribution(rec, d) ==
  /\ rec # <<>>
  /\ IF Head(rec).id = d.id
       THEN d.generation <= Head(rec).generation
       ELSE Holds(Previous(rec), d.id)

(* Mutant: the archive leaves no place for the new state. *)
ArchiveFull(rec, d) ==
  IF rec = <<>> THEN <<>>
  ELSE IF Head(rec).id = d.id THEN Previous(rec)
  ELSE <<Head(rec)>> \o Previous(rec)

(* The archive that the record keeps behind the state of a distribution.   *)
Archive(rec, d) ==
  IF rec = <<>> THEN <<>>
  ELSE IF Head(rec).id = d.id THEN Previous(rec)
  ELSE LET states == <<Head(rec)>> \o Previous(rec)
       IN  SubSeq(states, 1, Min({Len(states), MaxStates - 1}))

ProcessSenderKeyDistribution(r, d) ==
  /\ ~StaleDistribution(record[r], d)
  /\ record' = [record EXCEPT ![r] = <<d>> \o Archive(@, d)]
  /\ UNCHANGED <<senderVars, skipped>>

(* The store evicts the n lowest chain indexes of the sender, whatever     *)
(* their keys.  Between equal indexes the order is that of the store.      *)
Evictions(keys, n) ==
  IF n <= 0 THEN {{}}
  ELSE {gone \in kSubset(n, keys) :
          \A g \in gone, k \in keys \ gone : g.index <= k.index}

(* Mutant: room is made one key too early. *)
WithSkippedEarly(keys, new) ==
  {{k \in keys \ gone : <<k.id, k.index>> # <<new.id, new.index>>} \union {new} :
     gone \in IF Cardinality(keys) + 1 < MaxSkippedKeys THEN {{}}
              ELSE Evictions(keys, Cardinality(keys) - (MaxSkippedKeys - 2))}

(* The skipped keys that can result from adding one key.                   *)
WithSkipped(keys, new) ==
  {{k \in keys \ gone : <<k.id, k.index>> # <<new.id, new.index>>} \union {new} :
     gone \in IF Cardinality(keys) < MaxSkippedKeys THEN {{}}
              ELSE Evictions(keys, Cardinality(keys) - (MaxSkippedKeys - 1))}

(* Mutant: the skipped keys are numbered from the next index. *)
StagedFromNext(state, n) ==
  [i \in 1 .. n |-> [id |-> state.id, index |-> state.chainIndex + i,
                     key |-> Advance(state.chainKey, i - 1)]]

(* The keys that a message ahead of the chain skips, in order.             *)
Staged(state, n) ==
  [i \in 1 .. n |-> [id |-> state.id, index |-> state.chainIndex + i - 1,
                     key |-> Advance(state.chainKey, i - 1)]]

(* The skipped keys that can result from adding the keys in their order.   *)
WithAllSkipped(keys, staged) ==
  LET outcomes[i \in 0 .. Len(staged)] ==
        IF i = 0 THEN {keys}
        ELSE UNION {WithSkipped(k, staged[i]) : k \in outcomes[i - 1]}
  IN  outcomes[Len(staged)]

(* The position of the state that a message names: decryptGroupMessage     *)
(* takes the current state, tryDecryptWithPreviousState a previous one.    *)
Positions(rec, m) == {i \in 1 .. Min({Len(rec), MaxStates}) : rec[i].id = m.id}

SkippedFor(r, m) == {k \in skipped[r] : k.id = m.id /\ k.index = m.iteration}

(* The message is at the chain or ahead of it: the chain moves past it.    *)
OpensFromChain(r, m, i) ==
  LET state == record[r][i]
      gap   == m.iteration - state.chainIndex
  IN  /\ m.iteration >= state.chainIndex
      /\ gap <= MaxChainAdvance
      /\ Advance(state.chainKey, gap) = m.key

DecryptFromChain(r, m, i) ==
  LET state == record[r][i]
      gap   == m.iteration - state.chainIndex
  IN  /\ OpensFromChain(r, m, i)
      /\ record' = [record EXCEPT ![r][i] = Ratchet(state, gap + 1)]
      /\ \E kept \in WithAllSkipped(skipped[r], Staged(state, gap)) :
           skipped' = [skipped EXCEPT ![r] = kept]

(* decryptWithSkippedKey: the message is behind the chain.                 *)
OpensFromSkipped(r, m, i) ==
  /\ m.iteration < record[r][i].chainIndex
  /\ \E k \in SkippedFor(r, m) : k.key = m.key

DecryptFromSkipped(r, m, i) ==
  /\ OpensFromSkipped(r, m, i)
  /\ skipped' = [skipped EXCEPT ![r] = @ \ SkippedFor(r, m)]
  /\ UNCHANGED record

(* A message that does not open is refused and changes nothing.            *)
DecryptGroupMessage(r, m) ==
  /\ \E i \in Positions(record[r], m) :
       DecryptFromChain(r, m, i) \/ DecryptFromSkipped(r, m, i)
  /\ UNCHANGED senderVars

-----------------------------------------------------------------------------
Next ==
  \/ CreateSenderKey
  \/ RotateSenderKey
  \/ DeleteSenderKey
  \/ EncryptGroupMessage
  \/ \E r \in Receivers :
       \/ DistributeSenderKey(r)
       \/ \E d \in distributions[r] : ProcessSenderKeyDistribution(r, d)
       \/ \E m \in groupMessages : DecryptGroupMessage(r, m)

Spec == Init /\ [][Next]_vars

-----------------------------------------------------------------------------
(* Properties.                                                             *)

Unread(r, id, index) ==
  (IF \E i \in DOMAIN record[r] : record[r][i].id = id /\ record[r][i].chainIndex <= index
     THEN 1 ELSE 0)
  + Cardinality({k \in skipped[r] : k.id = id /\ k.index = index})

Channel == INSTANCE GroupChannel WITH
  Keys <- Ids,
  Indexes <- 0 .. ChainIndexLimit,
  published <- {<<m.id, m.iteration>> : m \in groupMessages},
  offered <- [r \in Receivers |-> {<<d.id, d.chainIndex>> : d \in distributions[r]}],
  held <- [r \in Receivers |-> {record[r][i].id : i \in DOMAIN record[r]}],
  rights <- [r \in Receivers |->
              [m \in Ids \X (0 .. ChainIndexLimit) |-> Unread(r, m[1], m[2])]]

(* The manager implements the group channel: whatever the order in which   *)
(* distributions and messages arrive, and however often, each installation *)
(* of a key opens each of its later messages at most once.                 *)
ImplementsChannel == Channel!Spec

(* A receiver opens every message that its states and skipped keys cover,  *)
(* and no chain or skipped key is out of step with the key that the sender *)
(* used: only a gap beyond maxChainAdvance stops such a message.           *)
OpensWhatItHolds ==
  \A r \in Receivers, m \in groupMessages :
    \A i \in Positions(record[r], m) :
      \/ m.iteration > record[r][i].chainIndex + MaxChainAdvance
      \/ OpensFromChain(r, m, i) \/ OpensFromSkipped(r, m, i)
      \/ Unread(r, m.id, m.iteration) = 0

(* A record holds each key once and never more than MAX_SENDER_KEY_STATES  *)
(* states, so a message never has two states to choose from.               *)
RecordHoldsKeysOnce ==
  \A r \in Receivers :
    /\ Len(record[r]) <= MaxStates
    /\ \A i, j \in DOMAIN record[r] : record[r][i].id = record[r][j].id => i = j

(* The skipped keys of a sender stay within maxSkippedKeys, and a receiver *)
(* drops keys that it did not use only for a message that skips more keys  *)
(* than the limit has room for.                                            *)
ForgetsOnlyWhenFull ==
  [][\A r \in Receivers :
       /\ Cardinality(skipped'[r]) <= MaxSkippedKeys
       /\ record'[r] # record[r] /\ ~(skipped[r] \subseteq skipped'[r]) =>
            \E i \in DOMAIN record[r] :
              Cardinality(skipped[r]) + record'[r][i].chainIndex
                > MaxSkippedKeys + record[r][i].chainIndex + 1]_vars
=============================================================================
