------------------------------ MODULE SpqrBraid ------------------------------
(***************************************************************************)
(* The sparse post-quantum ratchet of a session in braid mode: spqrSend()  *)
(* and spqrRecv() of spqr.ts, the ML-KEM Braid state machine below them,   *)
(* and the two ways in which decrypt() reaches them.                       *)
(*                                                                         *)
(* Two parties run one key exchange at a time, cut in chunks that ride on  *)
(* the messages of the session.  The party in the Alice role sends header  *)
(* and encapsulation key, the one in the Bob role two ciphertexts; when    *)
(* the exchange ends the roles swap and the epoch goes up.  Each epoch     *)
(* secret is mixed into the root of the message-key chains.                *)
(*                                                                         *)
(* Keys are terms: a key pair is its owner and epoch, a shared secret is   *)
(* the key pair and the party that encapsulated to it, a root is the       *)
(* sequence of the secrets mixed into it, a message key is the root, the   *)
(* sender and the index.  The payload of a chunk is the value that its     *)
(* encoder was made for.                                                   *)
(***************************************************************************)
EXTENDS Naturals, Sequences, FiniteSets

CONSTANTS
  Initiator, Responder,
  NoValue,        \* an undefined field
  HeaderChunks,   \* the chunks that a decoder needs, by component
  EkChunks,
  Ct1Chunks,
  Ct2Chunks,
  MaxJump,        \* limits.maxMessageJump
  MaxOOOKeys,     \* limits.maxOutOfOrderKeys
  MaxInitiatorSends,  \* bounds: the messages of each party
  MaxResponderSends

Parties == {Initiator, Responder}

Peer(p) == IF p = Initiator THEN Responder ELSE Initiator

ASSUME BraidAssumption ==
  /\ Initiator # Responder
  /\ {HeaderChunks, EkChunks, Ct1Chunks, Ct2Chunks} \subseteq Nat \ {0}
  /\ {MaxJump, MaxOOOKeys, MaxInitiatorSends, MaxResponderSends} \subseteq Nat
  /\ NoValue \notin Nat \union ({"shared"} \X (Parties \X Nat) \X Parties)

VARIABLES
  agent,     \* by party, the MLKEMBraidAgentState
  spqr,      \* by party, the rest of the SPQRState
  sent,      \* by party, the messages that it has sent, in order
  received   \* by party, the messages that it has decrypted

vars == <<agent, spqr, sent, received>>

Components == {"Hdr", "Ek", "Ct1", "Ct2"}

Required ==
  [c \in Components |-> CASE c = "Hdr" -> HeaderChunks
                          [] c = "Ek"  -> EkChunks
                          [] c = "Ct1" -> Ct1Chunks
                          [] c = "Ct2" -> Ct2Chunks]

-----------------------------------------------------------------------------
(* The state machine.  cursor holds the next chunk of each encoder, chunks *)
(* what each decoder has.                                                  *)

AliceStates ==
  {"KeysUnsampled", "KeysSampled", "HeaderSent", "Ct1Received", "EkSentCt1Received"}

BobStates ==
  {"NoHeaderReceived", "HeaderReceived", "Ct1Sampled", "EkReceivedCt1Sampled",
   "Ct1Acknowledged", "Ct2Sampled"}

\* InitAlice(), InitBob(), and resetForNewEpoch(): only epoch and auth survive.
FreshAgent(state, epoch, auth) ==
  [state |-> state, epoch |-> epoch, auth |-> auth,
   ek |-> NoValue, ct1 |-> NoValue, ct2 |-> NoValue,
   cursor |-> [c \in Components |-> 0],
   chunks |-> [c \in Components |-> {}]]

Secret(ek, p) == <<"shared", ek, p>>

\* The authenticator binds what it signs to all secrets so far and the epoch.
Mac(auth, epoch, value) == <<"mac", auth, epoch, value>>

\* What the encoder of a component was made for.  ct1 carries no MAC, ct2 one
\* over both; the encapsulation key is bound by its hash in the header.
Payload(a, c) ==
  CASE c = "Hdr" -> Mac(a.auth, a.epoch, a.ek)
    [] c = "Ek"  -> a.ek
    [] c = "Ct1" -> a.ct1
    [] c = "Ct2" -> a.ct2

NoChunk(type, epoch) == [type |-> type, epoch |-> epoch, index |-> 0, data |-> NoValue]

\* getNextEncoderChunk()
SendChunk(a, c, type) ==
  [agent  |-> [a EXCEPT !.cursor[c] = @ + 1],
   chunk  |-> [type |-> type, epoch |-> a.epoch, index |-> a.cursor[c], data |-> Payload(a, c)],
   secret |-> NoValue]

SendNothing(a, type) == [agent |-> a, chunk |-> NoChunk(type, a.epoch), secret |-> NoValue]

\* sendAlice(): the key pair of the epoch is made with the first header chunk.
SendAlice(p, a) ==
  CASE a.state = "KeysUnsampled" ->
         SendChunk([a EXCEPT !.state = "KeysSampled", !.ek = <<p, a.epoch>>], "Hdr", "Hdr")
    [] a.state = "KeysSampled"       -> SendChunk(a, "Hdr", "Hdr")
    [] a.state = "HeaderSent"        -> SendChunk(a, "Ek", "Ek")
    [] a.state = "Ct1Received"       -> SendChunk(a, "Ek", "EkCt1Ack")
    [] a.state = "EkSentCt1Received" -> SendNothing(a, "Ct1Ack")

\* Mutant of SampleCt1: the transition is missing, and every message samples again.
SampleCt1Again(p, a) ==
  LET s == Secret(a.ek, p)
      b == [a EXCEPT !.ct1 = s, !.auth = Append(@, s)]
  IN  [SendChunk(b, "Ct1", "Ct1") EXCEPT !.secret = s]

\* bobSendFromHeaderReceived(): Bob has the epoch secret before Alice does.
SampleCt1(p, a) ==
  LET s == Secret(a.ek, p)
      b == [a EXCEPT !.state = "Ct1Sampled", !.ct1 = s, !.auth = Append(@, s)]
  IN  [SendChunk(b, "Ct1", "Ct1") EXCEPT !.secret = s]

\* sendBob()
SendBob(p, a) ==
  CASE a.state \in {"NoHeaderReceived", "Ct1Acknowledged"}    -> SendNothing(a, "None")
    [] a.state = "HeaderReceived"                             -> SampleCt1(p, a)
    [] a.state \in {"Ct1Sampled", "EkReceivedCt1Sampled"}     -> SendChunk(a, "Ct1", "Ct1")
    [] a.state = "Ct2Sampled"                                 -> SendChunk(a, "Ct2", "Ct2")

BraidSend(p, a) == IF a.state \in AliceStates THEN SendAlice(p, a) ELSE SendBob(p, a)

-----------------------------------------------------------------------------

Absorbed(a) == [ok |-> TRUE, agent |-> a, secret |-> NoValue]
Refused(a) == [ok |-> FALSE, agent |-> a, secret |-> NoValue]

\* addDecoderChunk(); Conflicts() is its refusal of another payload.
AddChunk(a, c, m) == [a EXCEPT !.chunks[c] = @ \cup {<<m.index, m.data>>}]

Conflicts(a, c, m) == \E x \in a.chunks[c] : x[1] = m.index /\ x[2] # m.data

Complete(a, c) == Cardinality(a.chunks[c]) >= Required[c]

\* A ct1 chunk at Alice.
ReceiveCt1(a, m) ==
  LET b == AddChunk(a, "Ct1", m) IN
  IF Complete(b, "Ct1")
    THEN [b EXCEPT !.state = "Ct1Received", !.ct1 = m.data]
    ELSE [b EXCEPT !.state = "HeaderSent"]

\* A ct2 chunk at Alice.  With the last one she decapsulates, updates the
\* authenticator, verifies the MAC and takes the Bob role of the next epoch.
ReceiveCt2(a, m) ==
  LET b    == [AddChunk(a, "Ct2", m) EXCEPT !.state = "EkSentCt1Received"]
      auth == Append(a.auth, a.ct1)
  IN  CASE ~Complete(b, "Ct2") -> Absorbed(b)
        [] Complete(b, "Ct2") /\ m.data = Mac(auth, m.epoch, a.ct1) ->
             [Absorbed(FreshAgent("NoHeaderReceived", a.epoch + 1, auth)) EXCEPT !.secret = a.ct1]
        [] OTHER -> Refused(a)

ReceiveAlice(a, m) ==
  IF m.epoch < a.epoch THEN Absorbed(a)
  ELSE IF m.epoch > a.epoch THEN Refused(a)
  ELSE
  CASE m.type = "Ct1" /\ a.state \in {"KeysSampled", "HeaderSent"} ->
         IF Conflicts(a, "Ct1", m) THEN Refused(a) ELSE Absorbed(ReceiveCt1(a, m))
    [] m.type = "Ct2" /\ a.state \in {"Ct1Received", "EkSentCt1Received"} ->
         IF Conflicts(a, "Ct2", m) THEN Refused(a) ELSE ReceiveCt2(a, m)
    [] OTHER -> Absorbed(a)

\* bobSampleCt2(): the MAC covers both ciphertexts.
SampleCt2(a) == [a EXCEPT !.state = "Ct2Sampled", !.ct2 = Mac(a.auth, a.epoch, a.ct1)]

\* A header chunk at Bob; the last one is verified before its key is taken.
ReceiveHeader(a, m) ==
  LET b == AddChunk(a, "Hdr", m) IN
  CASE ~Complete(b, "Hdr") -> Absorbed(b)
    [] Complete(b, "Hdr") /\ m.data = Mac(a.auth, m.epoch, m.data[4]) ->
         Absorbed([b EXCEPT !.state = "HeaderReceived", !.ek = m.data[4]])
    [] OTHER -> Refused(a)

\* A chunk of the encapsulation key at Bob, with or without an acknowledgment of
\* ct1.  The complete key must match the hash in the header.
ReceiveEk(a, m) ==
  LET b    == AddChunk(a, "Ek", m)
      acks == m.type = "EkCt1Ack" \/ a.state = "Ct1Acknowledged"
  IN  IF Complete(b, "Ek") /\ m.data # a.ek THEN Refused(a)
      ELSE
      CASE Complete(b, "Ek") /\ acks  -> Absorbed(SampleCt2(b))
        [] Complete(b, "Ek") /\ ~acks -> Absorbed([b EXCEPT !.state = "EkReceivedCt1Sampled"])
        [] ~Complete(b, "Ek") /\ acks -> Absorbed([b EXCEPT !.state = "Ct1Acknowledged"])
        [] OTHER                      -> Absorbed(b)

\* Mutant of AcknowledgesCt1: only the bare acknowledgment counts.
AcknowledgesCt1Bare(m) == m.type = "Ct1Ack"

\* The messages that move Bob from EkReceivedCt1Sampled to ct2.
AcknowledgesCt1(m) == m.type \in {"EkCt1Ack", "Ct1Ack"}

ReceiveBob(a, m) ==
  IF m.epoch < a.epoch THEN Absorbed(a)
  ELSE IF a.state = "Ct2Sampled" /\ m.epoch = a.epoch + 1
    THEN Absorbed(FreshAgent("KeysUnsampled", a.epoch + 1, a.auth))
  ELSE IF m.epoch > a.epoch THEN Refused(a)
  ELSE
  CASE m.type = "Hdr" /\ a.state = "NoHeaderReceived" ->
         IF Conflicts(a, "Hdr", m) THEN Refused(a) ELSE ReceiveHeader(a, m)
    [] AcknowledgesCt1(m) /\ a.state = "EkReceivedCt1Sampled" ->
         Absorbed(SampleCt2(a))
    [] m.type \in {"Ek", "EkCt1Ack"} /\ a.state \in {"Ct1Sampled", "Ct1Acknowledged"} ->
         IF Conflicts(a, "Ek", m) THEN Refused(a) ELSE ReceiveEk(a, m)
    [] OTHER -> Absorbed(a)

BraidReceive(a, m) == IF a.state \in AliceStates THEN ReceiveAlice(a, m) ELSE ReceiveBob(a, m)

-----------------------------------------------------------------------------
(* The message-key chains.  kdfChains has one entry per epoch that is      *)
(* kept; a send counter of NoValue is a chain key that was zeroed.         *)

InitialChains == [root |-> <<>>, send |-> 0, receive |-> 0]

InitialSpqr ==
  [epoch |-> 0, sendEpoch |-> 0, RK |-> <<>>, negotiated |-> FALSE,
   kdfChains |-> [e \in {0} |-> InitialChains], MKSKIPPED |-> {}]

\* addSPQRBraidEpoch(), for both chains.
AddEpoch(s, secret) ==
  LET next == s.epoch + 1
      root == Append(s.RK, secret)
  IN  [s EXCEPT !.epoch = next, !.RK = root,
         !.kdfChains = [e \in DOMAIN @ \cup {next} |->
            IF e = next THEN [InitialChains EXCEPT !.root = root] ELSE @[e]]]

AddIfAny(s, secret) == IF secret = NoValue THEN s ELSE AddEpoch(s, secret)

\* The pruning of deriveSPQRSendKey() when the send epoch advances to e: one older
\* epoch is kept, and only for receiving.
Prune(s, e) ==
  IF e <= s.sendEpoch THEN s ELSE
    [s EXCEPT !.sendEpoch = e,
       !.kdfChains = [x \in {y \in DOMAIN @ : y + 1 >= e} |->
          IF x < e THEN [@[x] EXCEPT !.send = NoValue] ELSE @[x]],
       !.MKSKIPPED = {k \in @ : k[1] + 1 >= e}]

\* deriveSPQRSendKey() has a key to derive, in epoch e.
CanDeriveSend(s, e) ==
  /\ e \in DOMAIN s.kdfChains
  /\ e >= s.sendEpoch
  /\ Prune(s, e).kdfChains[e].send # NoValue

SendIndex(s, e) == s.kdfChains[e].send + 1

AfterDeriveSend(s, e) == [Prune(s, e) EXCEPT !.kdfChains[e].send = @ + 1]

MessageKey(root, from, index) == <<root, from, index>>

-----------------------------------------------------------------------------

\* isBelowTrimHorizon()
Trimmed(s, e, i) == e \in DOMAIN s.kdfChains /\ i + MaxOOOKeys < s.kdfChains[e].receive

\* The checks of deriveSPQRReceiveKey(), in their order, for a key that is not held.
DerivableReceive(s, e, i) ==
  /\ e <= s.epoch
  /\ e + 1 >= s.epoch
  /\ e \in DOMAIN s.kdfChains
  /\ s.kdfChains[e].receive < i
  /\ i <= s.kdfChains[e].receive + MaxJump

\* trimEpochSkippedKeys(): with 11/10 of the limit held, the old ones leave.
TrimSize == (MaxOOOKeys * 11) \div 10 + 1

\* Mutant of TrimEpoch: nothing is ever trimmed.
TrimEpochNever(held, e, n) == held

TrimEpoch(held, e, n) ==
  IF Cardinality({k \in held : k[1] = e}) < TrimSize
    THEN held
    ELSE {k \in held : k[1] # e \/ k[2] + MaxOOOKeys >= n}

\* Mutant of HoldSkipped: the key of the message itself is held as well.
HoldSkippedInclusive(s, e, i) ==
  LET n == s.kdfChains[e].receive IN
  TrimEpoch({k \in s.MKSKIPPED : k[1] # e \/ i <= n + MaxOOOKeys}
              \cup {<<e, j>> : j \in {x \in n + 1 .. i : x + MaxOOOKeys >= i}},
            e, i)

\* The held keys after the chain of epoch e went to index i.
HoldSkipped(s, e, i) ==
  LET n == s.kdfChains[e].receive IN
  TrimEpoch({k \in s.MKSKIPPED : k[1] # e \/ i <= n + MaxOOOKeys}
              \cup {<<e, j>> : j \in {x \in n + 1 .. i - 1 : x + MaxOOOKeys >= i}},
            e, i)

NoKeyYet(s) == [ok |-> TRUE, key |-> NoValue, spqr |-> s]
NoSuchKey(s) == [ok |-> FALSE, key |-> NoValue, spqr |-> s]

\* deriveSPQRReceiveKey(); index 0 stands for a message without a key.
DeriveReceive(s, from, e, i) ==
  CASE i = 0 \/ ~s.negotiated -> NoKeyYet(s)
    [] i > 0 /\ s.negotiated /\ Trimmed(s, e, i) -> NoSuchKey(s)
    [] i > 0 /\ s.negotiated /\ ~Trimmed(s, e, i) /\ <<e, i>> \in s.MKSKIPPED ->
         [ok |-> TRUE, key |-> MessageKey(s.kdfChains[e].root, from, i),
          spqr |-> [s EXCEPT !.MKSKIPPED = @ \ {<<e, i>>}]]
    [] OTHER ->
         IF DerivableReceive(s, e, i)
           THEN [ok |-> TRUE, key |-> MessageKey(s.kdfChains[e].root, from, i),
                 spqr |-> [s EXCEPT !.kdfChains[e].receive = i, !.MKSKIPPED = HoldSkipped(s, e, i)]]
           ELSE NoSuchKey(s)

-----------------------------------------------------------------------------
(* spqrSend() and spqrRecv().                                              *)

\* The zero-based epoch of the chains, from the epoch on the wire.
InternalEpoch(wire) == wire - 1

\* Mutant of SendEpoch: the newest epoch is used at once, also by the side that
\* has a secret which the other side does not have yet.
SendEpochNewest(chunk, s) == s.epoch

\* The epoch under which a message is encrypted: the one that the state machine
\* reports, and not the newest.
SendEpoch(chunk, s) == InternalEpoch(chunk.epoch)

\* spqrSend(): a chunk, then a key under the epoch that the peer can follow.
SendOutcome(p) ==
  LET o == BraidSend(p, agent[p])
      s == AddIfAny(spqr[p], o.secret)
      e == SendEpoch(o.chunk, s)
      keyed == s.negotiated
  IN  [ok    |-> ~keyed \/ CanDeriveSend(s, e),
       agent |-> o.agent,
       spqr  |-> IF keyed THEN AfterDeriveSend(s, e) ELSE s,
       message |-> [from |-> p, n |-> Len(sent[p]) + 1, chunk |-> o.chunk,
                    index |-> IF keyed THEN SendIndex(Prune(s, e), e) ELSE 0,
                    key   |-> IF keyed
                                THEN MessageKey(s.kdfChains[e].root, p, SendIndex(Prune(s, e), e))
                                ELSE NoValue]]

\* spqrRecv(): the version, the chunk, then the key.  A message without a chunk has
\* mode "none" on the wire and does not reach the state machine.
RecvOutcome(p, m) ==
  LET o == IF m.chunk.type = "None"
             THEN Absorbed(agent[p])
             ELSE BraidReceive(agent[p], m.chunk)
      s == AddIfAny([spqr[p] EXCEPT !.negotiated = TRUE], o.secret)
      d == DeriveReceive(s, m.from, InternalEpoch(m.chunk.epoch), m.index)
  IN  [ok |-> o.ok /\ d.ok, agent |-> o.agent, spqr |-> d.spqr, key |-> d.key]

\* A message that another of the same sender has overtaken: trySkippedMessageKeys()
\* takes its key from the classical store, derives the post-quantum key, and leaves
\* the state machine alone.
LateOutcome(p, m) ==
  LET d == DeriveReceive(spqr[p], m.from, InternalEpoch(m.chunk.epoch), m.index) IN
  [ok |-> d.ok, agent |-> agent[p], spqr |-> d.spqr, key |-> d.key]

Overtaken(p, m) == \E x \in received[p] : x.n > m.n

DecryptOutcome(p, m) == IF Overtaken(p, m) THEN LateOutcome(p, m) ELSE RecvOutcome(p, m)

-----------------------------------------------------------------------------

Init ==
  /\ agent = [p \in Parties |-> FreshAgent(
       IF p = Initiator THEN "KeysUnsampled" ELSE "NoHeaderReceived", 1, <<>>)]
  /\ spqr = [p \in Parties |-> InitialSpqr]
  /\ sent = [p \in Parties |-> <<>>]
  /\ received = [p \in Parties |-> {}]

\* encrypt(): the responder has a session once it has decrypted a message.
Encrypt(p) ==
  /\ Len(sent[p]) < IF p = Initiator THEN MaxInitiatorSends ELSE MaxResponderSends
  /\ p = Responder => received[p] # {}
  /\ \E o \in {SendOutcome(p)} :
       /\ o.ok
       /\ agent' = [agent EXCEPT ![p] = o.agent]
       /\ spqr' = [spqr EXCEPT ![p] = o.spqr]
       /\ sent' = [sent EXCEPT ![p] = Append(@, o.message)]
  /\ UNCHANGED received

InTransit(p) == {sent[Peer(p)][i] : i \in DOMAIN sent[Peer(p)]} \ received[p]

\* decrypt() commits ratchet and chains together, when the message opens.  The
\* classical ratchet refuses a repeated message before this.
Decrypt(p) ==
  \E m \in InTransit(p) : \E o \in {DecryptOutcome(p, m)} :
    /\ o.ok
    /\ o.key = m.key
    /\ agent' = [agent EXCEPT ![p] = o.agent]
    /\ spqr' = [spqr EXCEPT ![p] = o.spqr]
    /\ received' = [received EXCEPT ![p] = @ \cup {m}]
    /\ UNCHANGED sent

Next == \E p \in Parties : Encrypt(p) \/ Decrypt(p)

Spec == Init /\ [][Next]_vars

-----------------------------------------------------------------------------
(* Properties.                                                             *)

\* Both sides mix the same secrets into the root in the same order, and one is at
\* most one epoch ahead: addSPQRBraidEpoch() takes on each side what the other
\* side's state machine put out, across lost, late and repeated chunks.
SecretsAgree ==
  \A p \in Parties :
    LET ours   == spqr[p].RK
        theirs == spqr[Peer(p)].RK
    IN  Len(ours) <= Len(theirs) =>
          Len(theirs) <= Len(ours) + 1 /\ SubSeq(theirs, 1, Len(ours)) = ours

\* The messages that deriveSPQRReceiveKey() gives up on purpose: below the trim
\* horizon; or with a key that is not held and an epoch two behind the newest, or
\* more than maxMessageJump ahead of the chain.
GivenUp(s, e, i) ==
  /\ i > 0
  /\ \/ Trimmed(s, e, i)
     \/ /\ <<e, i>> \notin s.MKSKIPPED
        /\ \/ e + 1 < s.epoch
           \/ e \in DOMAIN s.kdfChains /\ i > s.kdfChains[e].receive + MaxJump

\* Every message that is under way opens with the key its sender used, in whatever
\* order the messages come, unless a limit gives it up: spqrRecv() neither refuses
\* the chunk nor asks for a chain that deriveSPQRSendKey() pruned or that the
\* receiver does not have yet, and no skipped key within the horizon is lost.
EveryMessageOpens ==
  \A p \in Parties : \A m \in InTransit(p) :
    \/ GivenUp(spqr[p], InternalEpoch(m.chunk.epoch), m.index)
    \/ \E o \in {DecryptOutcome(p, m)} : o.ok /\ o.key = m.key

\* A message key encrypts one message, and after it opened that message the
\* receiver neither holds it nor can derive it.
KeysUsedOnce ==
  \A p \in Parties :
    /\ \A i, j \in DOMAIN sent[p] :
         sent[p][i].key = sent[p][j].key /\ i # j => sent[p][i].key = NoValue
    /\ \A m \in received[p] :
         m.index > 0 =>
           ~DeriveReceive(spqr[p], m.from, InternalEpoch(m.chunk.epoch), m.index).ok

\* At most TrimSize - 1 keys of an epoch are held, and none of an epoch whose chain
\* is gone or beyond the horizon at which it would be refused and never removed.
HeldKeysBounded ==
  \A p \in Parties : \A e \in 0 .. spqr[p].epoch :
    LET held == {k \in spqr[p].MKSKIPPED : k[1] = e} IN
    /\ Cardinality(held) < TrimSize
    /\ held # {} => e \in DOMAIN spqr[p].kdfChains

\* One message of p, delivered at once, changes what either state machine knows.
TurnMoves(p) ==
  \E o \in {SendOutcome(p)} :
    \/ o.agent.state # agent[p].state
    \/ RecvOutcome(Peer(p), o.message).agent # agent[Peer(p)]

HasSession(p) == p = Initiator \/ received[p] # {}

\* The braid goes on: in whatever state losses and reordering have left the two
\* state machines, a message of one of them moves the exchange forward.
BraidGoesOn == \E p \in Parties : HasSession(p) /\ TurnMoves(p)

\* The same, until both sides have the secret of the first epoch.
EpochCompletes == (\A p \in Parties : spqr[p].epoch >= 1) \/ BraidGoesOn

=============================================================================
