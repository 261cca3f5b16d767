--------------------------- MODULE SpqrBraidProofs ---------------------------
(***************************************************************************)
(* What holds of the post-quantum ratchet for any chunk counts and limits, *)
(* any number of messages, and any loss and reordering.                    *)
(*                                                                         *)
(* The invariant has three parts.  What every value must be: the key pair, *)
(* the secret and the root of each epoch are functions of the epoch alone  *)
(* (KeyPair, EpochSecret, Roots), and every encoder, decoder and chunk     *)
(* under way holds the canonical payload of its component and epoch.  How  *)
(* far the two agents are apart: InStep lists the pairs of states within   *)
(* an epoch, PairOK the one pair across two epochs.  And what the chains   *)
(* have given out: SentUnder and UsedUp survive every change of epoch,     *)
(* pruning and trimming, so no index is given out or accepted twice.       *)
(* Delivery needs one more: which chains are there, and that the key of a  *)
(* message under way is ahead of its chain, held, or below the horizon.    *)
(***************************************************************************)
EXTENDS SpqrBraid, FiniteSetTheorems, SequenceTheorems, TLAPS

\* The party in the Alice role of an epoch; the roles swap with each epoch.
AliceOf(e) == IF e % 2 = 1 THEN Initiator ELSE Responder
BobOf(e) == Peer(AliceOf(e))

\* What each epoch has to produce.
KeyPair(e) == <<AliceOf(e), e>>
EpochSecret(e) == Secret(KeyPair(e), BobOf(e))
Roots(n) == [k \in 1 .. n |-> EpochSecret(k)]

\* The payload of a component in an epoch.
Canonical(c, e) ==
  CASE c = "Hdr" -> Mac(Roots(e - 1), e, KeyPair(e))
    [] c = "Ek"  -> KeyPair(e)
    [] c = "Ct1" -> EpochSecret(e)
    [] c = "Ct2" -> Mac(Roots(e), e, EpochSecret(e))

\* The states of Bob in which he has the secret of the epoch.
SampledStates == {"Ct1Sampled", "EkReceivedCt1Sampled", "Ct1Acknowledged", "Ct2Sampled"}

Known(a) == IF a.state \in SampledStates THEN a.epoch ELSE a.epoch - 1

AgentFields == {"state", "epoch", "auth", "ek", "ct1", "ct2", "cursor", "chunks"}

AgentOK(p, a) ==
  /\ DOMAIN a = AgentFields
  /\ a.epoch \in Nat \ {0}
  /\ \/ a.state \in AliceStates /\ p = AliceOf(a.epoch)
     \/ a.state \in BobStates /\ p = BobOf(a.epoch)
  /\ a.auth = Roots(Known(a))
  /\ a.state \in (AliceStates \ {"KeysUnsampled"}) \union {"HeaderReceived"} \union SampledStates
       => a.ek = KeyPair(a.epoch)
  /\ a.state \in {"Ct1Received", "EkSentCt1Received"} \union SampledStates
       => a.ct1 = EpochSecret(a.epoch)
  /\ a.state = "Ct2Sampled" => a.ct2 = Canonical("Ct2", a.epoch)
  /\ DOMAIN a.chunks = Components
  /\ \A c \in Components : \A x \in a.chunks[c] : x[1] \in Nat /\ x[2] = Canonical(c, a.epoch)
  /\ a.cursor \in [Components -> Nat]

AliceTypes == {"Hdr", "Ek", "EkCt1Ack", "Ct1Ack"}
BobTypes == {"Ct1", "Ct2", "None"}

\* The component of a chunk.
PartOf(type) == IF type = "EkCt1Ack" THEN "Ek" ELSE type

\* The states of a sender after it sent a chunk of a type in its present epoch.
StatesAfter(type) ==
  CASE type = "Hdr"      -> AliceStates \ {"KeysUnsampled"}
    [] type = "Ek"       -> {"HeaderSent", "Ct1Received", "EkSentCt1Received"}
    [] type = "EkCt1Ack" -> {"Ct1Received", "EkSentCt1Received"}
    [] type = "Ct1Ack"   -> {"EkSentCt1Received"}
    [] type = "Ct1"      -> SampledStates
    [] type = "Ct2"      -> {"Ct2Sampled"}
    [] type = "None"     -> BobStates

ChunkOK(p, a, k) ==
  /\ k.index \in Nat
  /\ k.epoch \in 1 .. a.epoch
  /\ \/ k.type \in AliceTypes /\ p = AliceOf(k.epoch)
     \/ k.type \in BobTypes /\ p = BobOf(k.epoch)
  /\ k.type \notin {"Ct1Ack", "None"} => k.data = Canonical(PartOf(k.type), k.epoch)
  /\ k.epoch = a.epoch =>
       /\ a.state \in StatesAfter(k.type)
       /\ k.type \notin {"Ct1Ack", "None"} => k.index < a.cursor[PartOf(k.type)]

\* How far the two are from each other: a in the Alice role, b in the Bob role.
InStep(a, b) ==
  /\ b.state \in {"NoHeaderReceived", "HeaderReceived"} => a.state \in {"KeysUnsampled", "KeysSampled"}
  /\ b.state = "HeaderReceived" => a.state = "KeysSampled"
  /\ b.state = "Ct1Sampled" => a.state \in {"KeysSampled", "HeaderSent", "Ct1Received"}
  /\ b.state = "EkReceivedCt1Sampled" => a.state \in {"HeaderSent", "Ct1Received"}
  /\ b.state = "Ct1Acknowledged" => a.state = "Ct1Received"
  /\ b.state = "Ct2Sampled" => a.state \in {"Ct1Received", "EkSentCt1Received"}

PairOK(a, b) ==
  /\ a.epoch = b.epoch =>
       /\ a.state \in AliceStates => InStep(a, b)
       /\ \A c \in Components : \A x \in b.chunks[c] : x[1] < a.cursor[c]
  /\ a.epoch > b.epoch =>
       /\ a.epoch = b.epoch + 1 /\ a.state = "NoHeaderReceived" /\ b.state = "Ct2Sampled"
       /\ \A c \in Components : a.chunks[c] = {}

SpqrFields == {"epoch", "sendEpoch", "RK", "negotiated", "kdfChains", "MKSKIPPED"}
ChainFields == {"root", "send", "receive"}

Held(s, e) == {k \in s.MKSKIPPED : k[1] = e}

ChainOK(e, c) ==
  /\ DOMAIN c = ChainFields
  /\ c.root = Roots(e)
  /\ c.send \in Nat \union {NoValue}
  /\ c.receive \in Nat

SpqrOK(s, n) ==
  /\ DOMAIN s = SpqrFields
  /\ s.epoch = n /\ s.RK = Roots(n)
  /\ s.sendEpoch \in 0 .. s.epoch
  /\ s.negotiated \in BOOLEAN
  /\ DOMAIN s.kdfChains \subseteq 0 .. s.epoch
  /\ \A e \in DOMAIN s.kdfChains : ChainOK(e, s.kdfChains[e])
  /\ \A k \in s.MKSKIPPED :
       /\ k \in Nat \X Nat /\ k[1] \in DOMAIN s.kdfChains
       /\ k[2] <= s.kdfChains[k[1]].receive
  /\ IsFiniteSet(s.MKSKIPPED)
  /\ \A e \in Nat : Cardinality(Held(s, e)) < TrimSize

\* Index i of epoch e was used for a message that was sent.
SentUnder(s, e, i) ==
  /\ e <= s.sendEpoch
  /\ e \in DOMAIN s.kdfChains /\ s.kdfChains[e].send # NoValue => i <= s.kdfChains[e].send

\* A sent message.
SendOK(p, s, m) ==
  /\ m.from = p
  /\ m.index \in Nat
  /\ m.index = 0 => m.key = NoValue
  /\ m.index # 0 => LET e == InternalEpoch(m.chunk.epoch) IN
                    m.key = MessageKey(Roots(e), p, m.index) /\ SentUnder(s, e, m.index)

\* A received message.
UsedUp(s, e, i) ==
  /\ e <= s.epoch
  /\ <<e, i>> \notin s.MKSKIPPED
  /\ e \in DOMAIN s.kdfChains => i <= s.kdfChains[e].receive

KeysDiffer(q) ==
  \A i, j \in DOMAIN q : q[i].index # 0 /\ q[j].index # 0 /\ i # j =>
     q[i].chunk.epoch # q[j].chunk.epoch \/ q[i].index # q[j].index

\* The states of a party that has received nothing.
Untouched == {"KeysUnsampled", "KeysSampled", "NoHeaderReceived"}

\* The two agents: each well formed, and in step from either side.
Pair(p, a, b) == AgentOK(p, a) /\ AgentOK(Peer(p), b) /\ PairOK(a, b) /\ PairOK(b, a)

IsSeq(q) == q \in Seq({q[i] : i \in DOMAIN q})

\* The messages q that p, with agent a and chains s, has sent.
SentOK(p, a, s, q) ==
  /\ IsSeq(q) /\ KeysDiffer(q)
  /\ \A i \in DOMAIN q : ChunkOK(p, a, q[i].chunk) /\ SendOK(p, s, q[i])

\* The messages that were received.
ReceivedOK(a, s, rcvd) ==
  /\ rcvd # {} => s.negotiated
  /\ rcvd = {} => a.state \in Untouched
  /\ \A m \in rcvd :
       /\ m.index \in Nat /\ m.chunk.epoch \in Nat \ {0}
       /\ m.index # 0 => UsedUp(s, InternalEpoch(m.chunk.epoch), m.index)

PartyOK(p, a, s, q, rcvd) == SpqrOK(s, Known(a)) /\ SentOK(p, a, s, q) /\ ReceivedOK(a, s, rcvd)

\* A variable with a value for each party.
ByParty(f) == f = [p \in Parties |-> f[p]]

\* The inductive invariant.
IInv ==
  /\ ByParty(agent) /\ ByParty(spqr) /\ ByParty(sent) /\ ByParty(received)
  /\ \A p \in Parties :
       /\ Pair(p, agent[p], agent[Peer(p)])
       /\ PartyOK(p, agent[p], spqr[p], sent[p], received[p])

-----------------------------------------------------------------------------

\* How an agent may change: within its epoch no chunk that it sent becomes one
\* that it could not have sent, or it enters the next epoch.
Later(a, z) ==
  \/ /\ z.epoch = a.epoch
     /\ \A t \in AliceTypes \union BobTypes : a.state \in StatesAfter(t) => z.state \in StatesAfter(t)
     /\ \A c \in Components : z.cursor[c] >= a.cursor[c]
  \/ z.epoch = a.epoch + 1

(* A chunk that was sent stays one that its sender may have sent, in every *)
(* later state of the sender.                                              *)
LEMMA OldChunks ==
  ASSUME NEW p, NEW a, NEW z, NEW k, AgentOK(p, a), AgentOK(p, z), Later(a, z), ChunkOK(p, a, k)
  PROVE  ChunkOK(p, z, k)
<1>1. a.epoch \in Nat /\ z.epoch \in Nat /\ k.epoch \in 1 .. a.epoch /\ a.epoch <= z.epoch
  BY DEF AgentOK, Later, ChunkOK
<1>2. k.type \in AliceTypes \union BobTypes
  BY DEF ChunkOK
<1>3. CASE z.epoch = a.epoch + 1
  BY <1>1, <1>3 DEF ChunkOK
<1>4. CASE z.epoch # a.epoch + 1
  <2>1. z.epoch = a.epoch BY <1>4 DEF Later
  <2>2. a.state \in StatesAfter(k.type) => z.state \in StatesAfter(k.type)
    BY <1>2, <1>4 DEF Later
  <2>3. k.type \notin {"Ct1Ack", "None"} => PartOf(k.type) \in Components
    BY <1>2 DEF PartOf, Components, AliceTypes, BobTypes
  <2>4. \A c \in Components : z.cursor[c] >= a.cursor[c] /\ z.cursor[c] \in Nat /\ a.cursor[c] \in Nat
    BY <1>4 DEF Later, AgentOK
  <2> QED BY <1>1, <2>1, <2>2, <2>3, <2>4 DEF ChunkOK
<1> QED BY <1>3, <1>4

(* The roles swap from one epoch to the next, and the peer of the peer is  *)
(* the party itself.                                                       *)
LEMMA RolesSwap ==
  ASSUME NEW e \in Nat
  PROVE  /\ AliceOf(e + 1) = BobOf(e) /\ BobOf(e + 1) = AliceOf(e)
         /\ AliceOf(e) \in Parties /\ BobOf(e) \in Parties /\ AliceOf(e) # BobOf(e)
         /\ \A p \in Parties : Peer(p) \in Parties /\ Peer(Peer(p)) = p /\ Peer(p) # p
<1>1. (e + 1) % 2 = 1 <=> e % 2 # 1
  OBVIOUS
<1> QED BY <1>1, BraidAssumption DEF AliceOf, BobOf, Peer, Parties

(* The root that addSPQRBraidEpoch() makes of the canonical root of an     *)
(* epoch is that of the next.                                              *)
LEMMA NextRoot ==
  ASSUME NEW e \in Nat \ {0}
  PROVE  Append(Roots(e - 1), EpochSecret(e)) = Roots(e)
<1> DEFINE R == Roots(e - 1)
           S == {EpochSecret(k) : k \in Nat}
<1>1. R \in Seq(S) /\ Len(R) = e - 1
  BY DEF Roots
<1>2. EpochSecret(e) \in S
  OBVIOUS
<1>3. \A k \in 1 .. e - 1 : R[k] = EpochSecret(k)
  BY DEF Roots
<1> HIDE DEF R, S
<1>4. Append(R, EpochSecret(e)) = [k \in 1 .. e |-> IF k = e THEN EpochSecret(e) ELSE R[k]]
  <2>1. DEFINE A == Append(R, EpochSecret(e))
  <2>2. A \in Seq(S) /\ Len(A) = e /\ A[e] = EpochSecret(e) BY <1>1, <1>2
  <2>3. \A k \in 1 .. e - 1 : A[k] = R[k] BY <1>1, <1>2
  <2> HIDE DEF A
  <2>6. A \in [1 .. Len(A) -> S] BY <2>2, LenProperties
  <2>4. A = [k \in 1 .. e |-> A[k]] BY <2>2, <2>6
  <2>5. [k \in 1 .. e |-> A[k]] = [k \in 1 .. e |-> IF k = e THEN EpochSecret(e) ELSE R[k]]
    BY <2>2, <2>3
  <2> QED BY <2>4, <2>5, Zenon DEF A
<1>5. [k \in 1 .. e |-> IF k = e THEN EpochSecret(e) ELSE R[k]] = [k \in 1 .. e |-> EpochSecret(k)]
  BY <1>3
<1> QED BY <1>4, <1>5 DEF Roots, R

(* An epoch secret is not the undefined value.                             *)
LEMMA SecretIsValue ==
  ASSUME NEW e \in Nat
  PROVE  EpochSecret(e) # NoValue
  BY RolesSwap, BraidAssumption DEF EpochSecret, Secret, KeyPair

-----------------------------------------------------------------------------

\* What the rest of the state needs to know of a send.
SendResult(p, a, o) ==
  /\ AgentOK(p, o.agent) /\ Later(a, o.agent) /\ o.agent.epoch = a.epoch
  /\ ChunkOK(p, o.agent, o.chunk) /\ o.chunk.epoch = a.epoch
  /\ \/ o.secret = NoValue /\ Known(o.agent) = Known(a)
     \/ o.secret = EpochSecret(a.epoch) /\ Known(a) = a.epoch - 1 /\ Known(o.agent) = a.epoch
  /\ a.state \in Untouched => o.agent.state \in Untouched

\* A step of a within its epoch that changes no decoder and no step of b.
Sending(a, z) ==
  /\ z.epoch = a.epoch
  /\ z.chunks = a.chunks
  /\ \A c \in Components : z.cursor[c] >= a.cursor[c]
  /\ \/ z.state = a.state
     \/ a.state = "KeysUnsampled" /\ z.state = "KeysSampled"
     \/ a.state = "HeaderReceived" /\ z.state = "Ct1Sampled"

(* getNextEncoderChunk() moves one cursor and nothing else.                *)
LEMMA SendChunkFields ==
  ASSUME NEW p, NEW a, AgentOK(p, a), NEW c \in Components, NEW type
  PROVE  LET o == SendChunk(a, c, type) IN
         /\ DOMAIN o.agent = AgentFields
         /\ o.agent.state = a.state /\ o.agent.epoch = a.epoch /\ o.agent.auth = a.auth
         /\ o.agent.ek = a.ek /\ o.agent.ct1 = a.ct1 /\ o.agent.ct2 = a.ct2
         /\ o.agent.chunks = a.chunks
         /\ o.agent.cursor \in [Components -> Nat]
         /\ o.agent.cursor[c] = a.cursor[c] + 1
         /\ \A d \in Components : o.agent.cursor[d] >= a.cursor[d]
         /\ o.chunk.type = type /\ o.chunk.epoch = a.epoch /\ o.chunk.index = a.cursor[c]
         /\ o.chunk.data = Payload(a, c)
         /\ o.secret = NoValue
  BY DEF SendChunk, AgentOK, AgentFields

(* A chunk with the canonical payload of a component of its sender's role  *)
(* is a send as the rest of the state expects it.                          *)
LEMMA SendChunkOK ==
  ASSUME NEW p, NEW a, AgentOK(p, a), NEW c \in Components, NEW type,
         \/ type \in AliceTypes /\ a.state \in AliceStates
         \/ type \in BobTypes /\ a.state \in BobStates,
         type \notin {"Ct1Ack", "None"}, PartOf(type) = c,
         a.state \in StatesAfter(type), Payload(a, c) = Canonical(c, a.epoch)
  PROVE  SendResult(p, a, SendChunk(a, c, type)) /\ Sending(a, SendChunk(a, c, type).agent)
<1> DEFINE o == SendChunk(a, c, type)
<1>1. /\ DOMAIN o.agent = AgentFields
      /\ o.agent.state = a.state /\ o.agent.epoch = a.epoch /\ o.agent.auth = a.auth
      /\ o.agent.ek = a.ek /\ o.agent.ct1 = a.ct1 /\ o.agent.ct2 = a.ct2
      /\ o.agent.chunks = a.chunks
      /\ o.agent.cursor \in [Components -> Nat]
      /\ o.agent.cursor[c] = a.cursor[c] + 1
      /\ \A d \in Components : o.agent.cursor[d] >= a.cursor[d]
  BY SendChunkFields
<1>2. /\ o.chunk.type = type /\ o.chunk.epoch = a.epoch /\ o.chunk.index = a.cursor[c]
      /\ o.chunk.data = Payload(a, c)
      /\ o.secret = NoValue
  BY SendChunkFields
<1> HIDE DEF o
<1>3. Known(o.agent) = Known(a)
  BY <1>1 DEF Known
<1>4. AgentOK(p, o.agent)
  BY <1>1, <1>3 DEF AgentOK
<1>5. Later(a, o.agent)
  BY <1>1 DEF Later
<1>6. a.epoch \in Nat \ {0} /\ a.cursor[c] \in Nat
  BY DEF AgentOK
<1>7. \/ type \in AliceTypes /\ p = AliceOf(a.epoch)
      \/ type \in BobTypes /\ p = BobOf(a.epoch)
  BY DEF AgentOK, AliceStates, BobStates
<1>8. ChunkOK(p, o.agent, o.chunk)
  BY <1>1, <1>2, <1>6, <1>7 DEF ChunkOK
<1>9. Sending(a, o.agent)
  BY <1>1 DEF Sending
<1> QED BY <1>1, <1>2, <1>3, <1>4, <1>5, <1>8, <1>9 DEF SendResult, o

(* So is a message without a payload.                                      *)
LEMMA SendNothingOK ==
  ASSUME NEW p, NEW a, AgentOK(p, a), NEW type,
         \/ type = "Ct1Ack" /\ a.state \in AliceStates
         \/ type = "None" /\ a.state \in BobStates,
         a.state \in StatesAfter(type)
  PROVE  SendResult(p, a, SendNothing(a, type)) /\ Sending(a, SendNothing(a, type).agent)
<1> DEFINE o == SendNothing(a, type)
<1>1. o.agent = a /\ o.chunk.type = type /\ o.chunk.epoch = a.epoch /\ o.chunk.index = 0 /\ o.secret = NoValue
  BY DEF SendNothing, NoChunk
<1> HIDE DEF o
<1>2. a.epoch \in Nat \ {0} /\ \A c \in Components : a.cursor[c] \in Nat
  BY DEF AgentOK
<1>3. Later(a, a) /\ Sending(a, a)
  BY <1>2 DEF Later, Sending
<1>7. \/ type \in AliceTypes /\ p = AliceOf(a.epoch)
      \/ type \in BobTypes /\ p = BobOf(a.epoch)
  BY DEF AgentOK, AliceStates, BobStates, AliceTypes, BobTypes
<1>8. ChunkOK(p, a, o.chunk)
  BY <1>1, <1>2, <1>7 DEF ChunkOK
<1> QED BY <1>1, <1>3, <1>8 DEF SendResult, o

(* sendAlice(), state by state; the key pair of the epoch is made with the *)
(* first header chunk.                                                     *)
LEMMA AliceSendOK ==
  ASSUME NEW p, NEW a, AgentOK(p, a), a.state \in AliceStates
  PROVE  SendResult(p, a, SendAlice(p, a)) /\ Sending(a, SendAlice(p, a).agent)
<1>1. CASE a.state = "KeysUnsampled"
  <2> DEFINE b == [a EXCEPT !.state = "KeysSampled", !.ek = <<p, a.epoch>>]
  <2>1. /\ DOMAIN b = AgentFields /\ b.state = "KeysSampled" /\ b.ek = <<p, a.epoch>>
        /\ b.epoch = a.epoch /\ b.auth = a.auth /\ b.ct1 = a.ct1 /\ b.ct2 = a.ct2
        /\ b.cursor = a.cursor /\ b.chunks = a.chunks
    BY DEF AgentOK, AgentFields
  <2>2. SendAlice(p, a) = SendChunk(b, "Hdr", "Hdr")
    BY <1>1 DEF SendAlice
  <2> HIDE DEF b
  <2>3. p = AliceOf(a.epoch) /\ a.epoch \in Nat \ {0}
    BY <1>1 DEF AgentOK, BobStates
  <2>4. Known(b) = Known(a) /\ Known(a) = a.epoch - 1
    BY <1>1, <2>1 DEF Known, SampledStates
  <2>5. AgentOK(p, b)
    BY <1>1, <2>1, <2>3, <2>4 DEF AgentOK, AliceStates, BobStates, SampledStates, KeyPair
  <2>6. Payload(b, "Hdr") = Canonical("Hdr", b.epoch)
    BY <2>1, <2>3, <2>4 DEF Payload, Canonical, KeyPair, AgentOK
  <2>7. SendResult(p, b, SendChunk(b, "Hdr", "Hdr")) /\ Sending(b, SendChunk(b, "Hdr", "Hdr").agent)
    <3>1. "Hdr" \in Components /\ PartOf("Hdr") = "Hdr" /\ "Hdr" \in AliceTypes
      BY DEF Components, PartOf, AliceTypes
    <3>2. b.state \in AliceStates /\ b.state \in StatesAfter("Hdr")
      BY <2>1 DEF AliceStates, StatesAfter
    <3> QED BY <2>5, <2>6, <3>1, <3>2, SendChunkOK
  <2> DEFINE o == SendChunk(b, "Hdr", "Hdr")
  <2> HIDE DEF o
  <2>8. SendResult(p, b, o) /\ Sending(b, o.agent)
    BY <2>7 DEF o
  <2>9. o.agent.state = "KeysSampled"
    BY <2>1, <2>8 DEF Sending
  <2>10. Sending(a, o.agent)
    BY <1>1, <2>1, <2>8, <2>9 DEF Sending
  <2>11. Later(a, o.agent)
    BY <1>1, <2>9, <2>10 DEF Later, Sending, StatesAfter, AliceTypes, BobTypes, AliceStates, BobStates, SampledStates
  <2>12. SendResult(p, a, o)
    BY <2>1, <2>4, <2>8, <2>9, <2>10, <2>11 DEF SendResult, Untouched
  <2> QED BY <2>2, <2>10, <2>12 DEF o
<1>2. CASE a.state = "KeysSampled"
  <2>1. SendAlice(p, a) = SendChunk(a, "Hdr", "Hdr")
    BY <1>2 DEF SendAlice
  <2>2. Payload(a, "Hdr") = Canonical("Hdr", a.epoch)
    BY <1>2 DEF AgentOK, Known, SampledStates, AliceStates, Payload, Canonical
  <2>3. "Hdr" \in Components /\ PartOf("Hdr") = "Hdr" /\ "Hdr" \in AliceTypes
    BY DEF Components, PartOf, AliceTypes
  <2>4. a.state \in AliceStates /\ a.state \in StatesAfter("Hdr")
    BY <1>2 DEF AliceStates, StatesAfter
  <2> QED BY <2>1, <2>2, <2>3, <2>4, SendChunkOK
<1>3. CASE a.state = "HeaderSent"
  <2>1. SendAlice(p, a) = SendChunk(a, "Ek", "Ek")
    BY <1>3 DEF SendAlice
  <2>2. Payload(a, "Ek") = Canonical("Ek", a.epoch)
    BY <1>3 DEF AgentOK, AliceStates, Payload, Canonical
  <2>3. "Ek" \in Components /\ PartOf("Ek") = "Ek" /\ "Ek" \in AliceTypes
    BY DEF Components, PartOf, AliceTypes
  <2>4. a.state \in AliceStates /\ a.state \in StatesAfter("Ek")
    BY <1>3 DEF AliceStates, StatesAfter
  <2> QED BY <2>1, <2>2, <2>3, <2>4, SendChunkOK
<1>4. CASE a.state = "Ct1Received"
  <2>1. SendAlice(p, a) = SendChunk(a, "Ek", "EkCt1Ack")
    BY <1>4 DEF SendAlice
  <2>2. Payload(a, "Ek") = Canonical("Ek", a.epoch)
    BY <1>4 DEF AgentOK, AliceStates, Payload, Canonical
  <2>3. "Ek" \in Components /\ PartOf("EkCt1Ack") = "Ek" /\ "EkCt1Ack" \in AliceTypes
    BY DEF Components, PartOf, AliceTypes
  <2>4. a.state \in AliceStates /\ a.state \in StatesAfter("EkCt1Ack")
    BY <1>4 DEF AliceStates, StatesAfter
  <2> QED BY <2>1, <2>2, <2>3, <2>4, SendChunkOK
<1>5. CASE a.state = "EkSentCt1Received"
  <2>1. SendAlice(p, a) = SendNothing(a, "Ct1Ack")
    BY <1>5 DEF SendAlice
  <2>4. a.state \in AliceStates /\ a.state \in StatesAfter("Ct1Ack")
    BY <1>5 DEF AliceStates, StatesAfter
  <2> QED BY <2>1, <2>4, SendNothingOK
<1> QED BY <1>1, <1>2, <1>3, <1>4, <1>5 DEF AliceStates

(* bobSendFromHeaderReceived() puts out the secret of the epoch, and the   *)
(* authenticator takes it.                                                 *)
LEMMA SampleCt1OK ==
  ASSUME NEW p, NEW a, AgentOK(p, a), a.state = "HeaderReceived"
  PROVE  SendResult(p, a, SampleCt1(p, a)) /\ Sending(a, SampleCt1(p, a).agent)
<1> DEFINE s == Secret(a.ek, p)
           b == [a EXCEPT !.state = "Ct1Sampled", !.ct1 = s, !.auth = Append(@, s)]
           u == SendChunk(b, "Ct1", "Ct1")
           o == [u EXCEPT !.secret = s]
<1>1. /\ DOMAIN b = AgentFields /\ b.state = "Ct1Sampled" /\ b.ct1 = s
      /\ b.auth = Append(a.auth, s)
      /\ b.epoch = a.epoch /\ b.ek = a.ek /\ b.ct2 = a.ct2
      /\ b.cursor = a.cursor /\ b.chunks = a.chunks
  BY DEF AgentOK, AgentFields
<1>2. SampleCt1(p, a) = o
  BY DEF SampleCt1
<1>3. p = BobOf(a.epoch) /\ a.epoch \in Nat \ {0} /\ a.ek = KeyPair(a.epoch)
  BY DEF AgentOK, AliceStates
<1>4. s = EpochSecret(a.epoch)
  BY <1>3 DEF EpochSecret
<1>5. Known(a) = a.epoch - 1 /\ Known(b) = a.epoch
  BY <1>1 DEF Known, SampledStates
<1> HIDE DEF s, b
<1>6. b.auth = Roots(Known(b))
  BY <1>1, <1>3, <1>4, <1>5, NextRoot DEF AgentOK
<1>7. AgentOK(p, b)
  BY <1>1, <1>3, <1>4, <1>6 DEF AgentOK, AliceStates, BobStates, SampledStates
<1>8. SendResult(p, b, u) /\ Sending(b, u.agent)
  <2>1. "Ct1" \in Components /\ PartOf("Ct1") = "Ct1" /\ "Ct1" \in BobTypes
    BY DEF Components, PartOf, BobTypes
  <2>2. b.state \in BobStates /\ b.state \in StatesAfter("Ct1")
    BY <1>1 DEF BobStates, StatesAfter, SampledStates
  <2>3. Payload(b, "Ct1") = Canonical("Ct1", b.epoch)
    BY <1>1, <1>4 DEF Payload, Canonical
  <2> QED BY <1>7, <2>1, <2>2, <2>3, SendChunkOK
<1>9. o.agent = u.agent /\ o.chunk = u.chunk /\ o.secret = s
  BY DEF SendChunk
<1> HIDE DEF u, o
<1>10. o.agent.state = "Ct1Sampled" /\ o.agent.epoch = a.epoch
  BY <1>1, <1>8, <1>9 DEF Sending
<1>11. Sending(a, o.agent)
  BY <1>1, <1>8, <1>9, <1>10 DEF Sending
<1>12. Later(a, o.agent)
  BY <1>10, <1>11 DEF Later, Sending, StatesAfter, AliceTypes, BobTypes, AliceStates, BobStates, SampledStates
<1>13. Known(o.agent) = a.epoch
  BY <1>10 DEF Known, SampledStates
<1>14. SendResult(p, a, o)
  BY <1>1, <1>4, <1>5, <1>8, <1>9, <1>10, <1>12, <1>13 DEF SendResult, Untouched
<1> QED BY <1>2, <1>11, <1>14

(* sendBob(), state by state.                                              *)
LEMMA BobSendOK ==
  ASSUME NEW p, NEW a, AgentOK(p, a), a.state \in BobStates
  PROVE  SendResult(p, a, SendBob(p, a)) /\ Sending(a, SendBob(p, a).agent)
<1>1. CASE a.state \in {"NoHeaderReceived", "Ct1Acknowledged"}
  <2>1. SendBob(p, a) = SendNothing(a, "None")
    BY <1>1 DEF SendBob
  <2>2. a.state \in StatesAfter("None")
    BY DEF StatesAfter
  <2> QED BY <2>1, <2>2, SendNothingOK
<1>2. CASE a.state = "HeaderReceived"
  <2>1. SendBob(p, a) = SampleCt1(p, a)
    BY <1>2 DEF SendBob
  <2> QED BY <1>2, <2>1, SampleCt1OK
<1>3. CASE a.state \in {"Ct1Sampled", "EkReceivedCt1Sampled"}
  <2>1. SendBob(p, a) = SendChunk(a, "Ct1", "Ct1")
    BY <1>3 DEF SendBob
  <2>2. Payload(a, "Ct1") = Canonical("Ct1", a.epoch)
    BY <1>3 DEF AgentOK, SampledStates, Payload, Canonical
  <2>3. "Ct1" \in Components /\ PartOf("Ct1") = "Ct1" /\ "Ct1" \in BobTypes
    BY DEF Components, PartOf, BobTypes
  <2>4. a.state \in StatesAfter("Ct1")
    BY <1>3 DEF StatesAfter, SampledStates
  <2> QED BY <2>1, <2>2, <2>3, <2>4, SendChunkOK
<1>4. CASE a.state = "Ct2Sampled"
  <2>1. SendBob(p, a) = SendChunk(a, "Ct2", "Ct2")
    BY <1>4 DEF SendBob
  <2>2. Payload(a, "Ct2") = Canonical("Ct2", a.epoch)
    BY <1>4 DEF AgentOK, Payload
  <2>3. "Ct2" \in Components /\ PartOf("Ct2") = "Ct2" /\ "Ct2" \in BobTypes
    BY DEF Components, PartOf, BobTypes
  <2>4. a.state \in StatesAfter("Ct2")
    BY <1>4 DEF StatesAfter
  <2> QED BY <2>1, <2>2, <2>3, <2>4, SendChunkOK
<1> QED BY <1>1, <1>2, <1>3, <1>4 DEF BobStates

(* A send of either role.                                                  *)
LEMMA BraidSendOK ==
  ASSUME NEW p, NEW a, AgentOK(p, a)
  PROVE  SendResult(p, a, BraidSend(p, a)) /\ Sending(a, BraidSend(p, a).agent)
<1>1. CASE a.state \in AliceStates
  BY <1>1, AliceSendOK DEF BraidSend
<1>2. CASE a.state \notin AliceStates
  BY <1>2, BobSendOK DEF BraidSend, AgentOK
<1> QED BY <1>1, <1>2

(* Two parties in one epoch have different roles.                          *)
LEMMA SameEpochRoles ==
  ASSUME NEW p \in Parties, NEW a, NEW b, AgentOK(p, a), AgentOK(Peer(p), b), a.epoch = b.epoch
  PROVE  a.state \in AliceStates <=> b.state \in BobStates
<1>1. a.epoch \in Nat BY DEF AgentOK
<1>2. Peer(p) # p BY RolesSwap, <1>1
<1>3. AliceStates \cap BobStates = {} BY DEF AliceStates, BobStates
<1> QED BY <1>1, <1>2, <1>3, RolesSwap DEF AgentOK

(* A send leaves the two agents in step.                                   *)
LEMMA SendingKeepsPair ==
  ASSUME NEW p \in Parties, NEW a, NEW b, NEW z, Pair(p, a, b), AgentOK(p, z), Sending(a, z)
  PROVE  Pair(p, z, b)
<1>1. /\ a.epoch \in Nat /\ b.epoch \in Nat /\ z.epoch = a.epoch
      /\ z.chunks = a.chunks
      /\ \A c \in Components : a.cursor[c] \in Nat /\ b.cursor[c] \in Nat /\ z.cursor[c] \in Nat
                               /\ z.cursor[c] >= a.cursor[c]
  BY DEF Pair, AgentOK, Sending
<1>2. PairOK(z, b)
  <2>1. CASE a.epoch = b.epoch
    <3>1. z.state \in AliceStates => InStep(z, b)
      BY <2>1 DEF Pair, PairOK, Sending, InStep, AliceStates
    <3>2. \A c \in Components : \A x \in b.chunks[c] : x[1] < z.cursor[c]
      BY <1>1, <2>1 DEF Pair, PairOK, AgentOK
    <3> QED BY <1>1, <2>1, <3>1, <3>2 DEF PairOK
  <2>2. CASE a.epoch # b.epoch
    BY <1>1, <2>2 DEF Pair, PairOK, Sending
  <2> QED BY <2>1, <2>2
<1>3. PairOK(b, z)
  <2>1. CASE a.epoch = b.epoch
    <3>1. b.state \in AliceStates => InStep(b, z)
      BY <2>1 DEF Pair, PairOK, Sending, InStep, AliceStates
    <3> QED BY <1>1, <2>1, <3>1 DEF Pair, PairOK
  <2>2. CASE a.epoch # b.epoch
    BY <1>1, <2>2 DEF Pair, PairOK, Sending
  <2> QED BY <2>1, <2>2
<1> QED BY <1>2, <1>3 DEF Pair

-----------------------------------------------------------------------------

\* What the rest of the state needs to know of a chunk taken in.
ReceiveResult(p, a, b, o) ==
  /\ o.ok
  /\ Pair(p, o.agent, b) /\ Later(a, o.agent)
  /\ \/ o.secret = NoValue /\ Known(o.agent) = Known(a)
     \/ o.secret = EpochSecret(a.epoch) /\ Known(a) = a.epoch - 1 /\ Known(o.agent) = a.epoch

\* The chunks of z are those of a and one of component c that b has sent.
Receiving(a, b, z) ==
  /\ z.epoch = a.epoch /\ z.cursor = a.cursor
  /\ \A d \in Components : \A x \in z.chunks[d] : x[1] < b.cursor[d]

(* So does a step that takes a chunk in, when the new state is in step     *)
(* with the peer's.                                                        *)
LEMMA ReceivingKeepsPair ==
  ASSUME NEW p \in Parties, NEW a, NEW b, NEW z, Pair(p, a, b), a.epoch = b.epoch,
         AgentOK(p, z), Receiving(a, b, z),
         z.state \in AliceStates => InStep(z, b),
         b.state \in AliceStates => InStep(b, z)
  PROVE  Pair(p, z, b)
<1>1. a.epoch \in Nat /\ z.epoch = b.epoch /\ z.cursor = a.cursor
  BY DEF Pair, AgentOK, Receiving
<1>2. PairOK(z, b)
  BY <1>1 DEF PairOK, Pair
<1>3. PairOK(b, z)
  BY <1>1 DEF PairOK, Receiving
<1> QED BY <1>2, <1>3 DEF Pair

\* z is a with one more chunk of component c.
ChunkAdded(p, a, c, m, z) ==
  /\ AgentOK(p, z)
  /\ z.state = a.state /\ z.epoch = a.epoch /\ z.auth = a.auth /\ z.ek = a.ek
  /\ z.ct1 = a.ct1 /\ z.ct2 = a.ct2 /\ z.cursor = a.cursor
  /\ z.chunks = [a.chunks EXCEPT ![c] = @ \cup {<<m.index, m.data>>}]

(* addDecoderChunk() adds the chunk and changes nothing else.              *)
LEMMA AddChunkFields ==
  ASSUME NEW p, NEW a, AgentOK(p, a), NEW c \in Components, NEW m,
         m.index \in Nat, m.data = Canonical(c, a.epoch)
  PROVE  ChunkAdded(p, a, c, m, AddChunk(a, c, m))
<1> DEFINE z == AddChunk(a, c, m)
           y == <<m.index, m.data>>
<1>1. /\ DOMAIN z = AgentFields
      /\ z.state = a.state /\ z.epoch = a.epoch /\ z.auth = a.auth /\ z.ek = a.ek
      /\ z.ct1 = a.ct1 /\ z.ct2 = a.ct2 /\ z.cursor = a.cursor
      /\ z.chunks = [a.chunks EXCEPT ![c] = @ \cup {y}]
  BY DEF AddChunk, AgentOK, AgentFields
<1>2. y[1] \in Nat /\ y[2] = Canonical(c, a.epoch)
  OBVIOUS
<1> HIDE DEF z, y
<1>3. DOMAIN z.chunks = Components
  BY <1>1 DEF AgentOK
<1>4. \A d \in Components : \A x \in z.chunks[d] : x[1] \in Nat /\ x[2] = Canonical(d, a.epoch)
  BY <1>1, <1>2 DEF AgentOK
<1>5. Known(z) = Known(a)
  BY <1>1 DEF Known
<1>6. AgentOK(p, z)
  BY <1>1, <1>3, <1>4, <1>5 DEF AgentOK
<1> QED BY <1>1, <1>6 DEF z, y, ChunkAdded

(* The decoders then hold nothing that the peer's encoders have not yet    *)
(* sent.                                                                   *)
LEMMA AddChunkReceiving ==
  ASSUME NEW p \in Parties, NEW a, NEW b, Pair(p, a, b), a.epoch = b.epoch,
         NEW c \in Components, NEW m, m.index \in Nat, m.index < b.cursor[c],
         m.data = Canonical(c, a.epoch)
  PROVE  Receiving(a, b, AddChunk(a, c, m))
<1> DEFINE z == AddChunk(a, c, m)
           y == <<m.index, m.data>>
<1>1. /\ z.epoch = a.epoch /\ z.cursor = a.cursor
      /\ z.chunks = [a.chunks EXCEPT ![c] = @ \cup {y}]
  BY AddChunkFields DEF Pair, ChunkAdded
<1>2. y[1] < b.cursor[c]
  OBVIOUS
<1> HIDE DEF z, y
<1>3. DOMAIN a.chunks = Components
  BY DEF Pair, AgentOK
<1>4. \A d \in Components : \A x \in a.chunks[d] : x[1] < b.cursor[d]
  BY DEF Pair, PairOK
<1>5. \A d \in Components : \A x \in z.chunks[d] : x[1] < b.cursor[d]
  BY <1>1, <1>2, <1>3, <1>4
<1> QED BY <1>1, <1>5 DEF Receiving, z

(* A canonical payload is never refused as a conflict.                     *)
LEMMA NoConflict ==
  ASSUME NEW p, NEW a, AgentOK(p, a), NEW c \in Components, NEW m, m.data = Canonical(c, a.epoch)
  PROVE  ~Conflicts(a, c, m)
  BY DEF Conflicts, AgentOK

\* A chunk that is ignored.
LEMMA IgnoredOK ==
  ASSUME NEW p, NEW a, NEW b, Pair(p, a, b)
  PROVE  ReceiveResult(p, a, b, Absorbed(a))
<1>1. \A c \in Components : a.cursor[c] \in Nat
  BY DEF Pair, AgentOK
<1>2. Later(a, a)
  BY <1>1 DEF Later
<1> QED BY <1>2 DEF ReceiveResult, Absorbed

(* A ct1 chunk at Alice.                                                   *)
LEMMA AliceReceivesCt1 ==
  ASSUME NEW p \in Parties, NEW a, NEW b, Pair(p, a, b), a.epoch = b.epoch,
         NEW m, ChunkOK(Peer(p), b, m), m.epoch = a.epoch,
         m.type = "Ct1", a.state \in {"KeysSampled", "HeaderSent"}
  PROVE  ReceiveResult(p, a, b, Absorbed(ReceiveCt1(a, m)))
<1> DEFINE y == AddChunk(a, "Ct1", m)
           z == ReceiveCt1(a, m)
<1>1. "Ct1" \in Components /\ PartOf("Ct1") = "Ct1"
  BY DEF Components, PartOf
<1>2. /\ m.index \in Nat /\ m.data = Canonical("Ct1", a.epoch) /\ m.index < b.cursor["Ct1"]
      /\ b.state \in SampledStates
  BY <1>1 DEF ChunkOK, StatesAfter
<1>3. /\ AgentOK(p, y)
      /\ y.state = a.state /\ y.epoch = a.epoch /\ y.auth = a.auth /\ y.ek = a.ek
      /\ y.ct1 = a.ct1 /\ y.ct2 = a.ct2 /\ y.cursor = a.cursor
  <2>1. AgentOK(p, a) BY DEF Pair
  <2>2. ChunkAdded(p, a, "Ct1", m, y) BY <2>1, <1>1, <1>2, AddChunkFields
  <2> QED BY <2>2 DEF ChunkAdded
<1>4. Receiving(a, b, y)
  BY <1>1, <1>2, AddChunkReceiving
<1>5. m.data = EpochSecret(a.epoch)
  BY <1>2 DEF Canonical
<1>6. a.state \in AliceStates /\ b.state \in BobStates /\ b.state \notin AliceStates
  BY <1>2 DEF AliceStates, BobStates, SampledStates
<1>7. InStep(a, b)
  BY <1>6 DEF Pair, PairOK
<1>8. Known(a) = a.epoch - 1 /\ p = AliceOf(a.epoch) /\ a.ek = KeyPair(a.epoch)
  BY DEF Pair, AgentOK, Known, AliceStates, BobStates, SampledStates
<1>9. /\ DOMAIN z = AgentFields /\ z.epoch = a.epoch /\ z.auth = y.auth /\ z.ek = y.ek
      /\ z.ct2 = y.ct2 /\ z.cursor = y.cursor /\ z.chunks = y.chunks
      /\ \/ z.state = "Ct1Received" /\ z.ct1 = m.data
         \/ z.state = "HeaderSent" /\ z.ct1 = y.ct1
  <2> HIDE DEF y
  <2> QED BY <1>3 DEF ReceiveCt1, y, AgentOK, AgentFields
<1> HIDE DEF y, z
<1>10. Known(z) = Known(a)
  BY <1>8, <1>9 DEF Known, SampledStates
<1>11. AgentOK(p, z)
  <2>1. z.epoch \in Nat \ {0} /\ z.auth = Roots(Known(z)) /\ z.ek = KeyPair(z.epoch)
    BY <1>3, <1>8, <1>9, <1>10 DEF AgentOK, Pair
  <2>2. z.state \in AliceStates /\ p = AliceOf(z.epoch) /\ z.state # "Ct2Sampled"
    BY <1>8, <1>9 DEF AliceStates
  <2>3. z.state \in {"Ct1Received", "EkSentCt1Received"} \union SampledStates => z.ct1 = EpochSecret(z.epoch)
    BY <1>5, <1>9 DEF SampledStates
  <2>4. /\ DOMAIN z.chunks = Components
        /\ \A c \in Components : \A x \in z.chunks[c] : x[1] \in Nat /\ x[2] = Canonical(c, z.epoch)
        /\ z.cursor \in [Components -> Nat]
    BY <1>3, <1>9 DEF AgentOK
  <2> QED BY <1>9, <2>1, <2>2, <2>3, <2>4 DEF AgentOK
<1>12. Receiving(a, b, z)
  BY <1>3, <1>4, <1>9 DEF Receiving
<1>13. InStep(z, b)
  BY <1>2, <1>7, <1>9 DEF InStep, SampledStates
<1>14. Pair(p, z, b)
  BY <1>6, <1>11, <1>12, <1>13, ReceivingKeepsPair
<1>15. Later(a, z)
  <2>1. \A c \in Components : z.cursor[c] = a.cursor[c] /\ a.cursor[c] \in Nat
    BY <1>3, <1>9 DEF Pair, AgentOK
  <2>2. \A t \in AliceTypes \union BobTypes : a.state \in StatesAfter(t) => z.state \in StatesAfter(t)
    BY <1>9 DEF StatesAfter, AliceTypes, BobTypes, AliceStates, BobStates, SampledStates
  <2> QED BY <1>9, <2>1, <2>2 DEF Later
<1> QED BY <1>10, <1>14, <1>15 DEF ReceiveResult, Absorbed, z

NeedsEk == (AliceStates \ {"KeysUnsampled"}) \union {"HeaderReceived"} \union SampledStates
NeedsCt1 == {"Ct1Received", "EkSentCt1Received"} \union SampledStates

\* z differs from y in its state and in the values that come with the state.
LEMMA StateChanged ==
  ASSUME NEW p, NEW y, NEW z, AgentOK(p, y), DOMAIN z = AgentFields,
         z.epoch = y.epoch, z.auth = y.auth, z.cursor = y.cursor, z.chunks = y.chunks,
         Known(z) = Known(y),
         \/ z.state \in AliceStates /\ y.state \in AliceStates
         \/ z.state \in BobStates /\ y.state \in BobStates,
         z.state \in NeedsEk => z.ek = KeyPair(z.epoch),
         z.state \in NeedsCt1 => z.ct1 = EpochSecret(z.epoch),
         z.state = "Ct2Sampled" => z.ct2 = Canonical("Ct2", z.epoch)
  PROVE  AgentOK(p, z)
<1>1. AliceStates \cap BobStates = {}
  BY DEF AliceStates, BobStates
<1>2. \/ z.state \in AliceStates /\ p = AliceOf(z.epoch)
      \/ z.state \in BobStates /\ p = BobOf(z.epoch)
  BY <1>1 DEF AgentOK
<1>3. z.epoch \in Nat \ {0} /\ z.auth = Roots(Known(z))
  BY DEF AgentOK
<1>4. /\ DOMAIN z.chunks = Components
      /\ \A c \in Components : \A x \in z.chunks[c] : x[1] \in Nat /\ x[2] = Canonical(c, z.epoch)
      /\ z.cursor \in [Components -> Nat]
  BY DEF AgentOK
<1> QED BY <1>2, <1>3, <1>4 DEF AgentOK, NeedsEk, NeedsCt1

(* resetForNewEpoch(), with the root of all epochs before.                 *)
LEMMA FreshOK ==
  ASSUME NEW p, NEW state, NEW e \in Nat \ {0},
         \/ state = "NoHeaderReceived" /\ p = BobOf(e)
         \/ state = "KeysUnsampled" /\ p = AliceOf(e)
  PROVE  /\ AgentOK(p, FreshAgent(state, e, Roots(e - 1)))
         /\ Known(FreshAgent(state, e, Roots(e - 1))) = e - 1
<1> DEFINE z == FreshAgent(state, e, Roots(e - 1))
<1>1. /\ DOMAIN z = AgentFields /\ z.state = state /\ z.epoch = e /\ z.auth = Roots(e - 1)
      /\ z.cursor = [c \in Components |-> 0] /\ z.chunks = [c \in Components |-> {}]
  BY DEF FreshAgent, AgentFields
<1> HIDE DEF z
<1>2. Known(z) = e - 1
  BY <1>1 DEF Known, SampledStates
<1>3. z.state \notin NeedsEk /\ z.state \notin NeedsCt1 /\ z.state # "Ct2Sampled"
  BY <1>1 DEF NeedsEk, NeedsCt1, AliceStates, SampledStates
<1>4. \/ z.state \in AliceStates /\ p = AliceOf(z.epoch)
      \/ z.state \in BobStates /\ p = BobOf(z.epoch)
  BY <1>1 DEF AliceStates, BobStates
<1>5. AgentOK(p, z)
  BY <1>1, <1>2, <1>3, <1>4 DEF AgentOK, NeedsEk, NeedsCt1
<1> QED BY <1>2, <1>5 DEF z

\* A step within the epoch that keeps the chunks that were sent possible.
LEMMA LaterInEpoch ==
  ASSUME NEW p, NEW a, NEW z, AgentOK(p, a), z.epoch = a.epoch, z.cursor = a.cursor,
         \/ z.state = a.state
         \/ a.state \in {"Ct1Received", "EkSentCt1Received"} /\ z.state = "EkSentCt1Received"
         \/ a.state = "NoHeaderReceived" /\ z.state = "HeaderReceived"
         \/ /\ a.state \in {"Ct1Sampled", "Ct1Acknowledged", "EkReceivedCt1Sampled"}
            /\ z.state \in {"Ct1Acknowledged", "EkReceivedCt1Sampled", "Ct2Sampled"}
  PROVE  Later(a, z)
<1>1. \A c \in Components : z.cursor[c] = a.cursor[c] /\ a.cursor[c] \in Nat
  BY DEF AgentOK
<1>2. \A t \in AliceTypes \union BobTypes : a.state \in StatesAfter(t) => z.state \in StatesAfter(t)
  BY DEF StatesAfter, AliceTypes, BobTypes, AliceStates, BobStates, SampledStates
<1> QED BY <1>1, <1>2 DEF Later

(* A ct2 chunk at Alice: with the last one the MAC verifies, she puts out  *)
(* the secret that Bob put out, and is the Bob of the next epoch.          *)
LEMMA AliceReceivesCt2 ==
  ASSUME NEW p \in Parties, NEW a, NEW b, Pair(p, a, b), a.epoch = b.epoch,
         NEW m, ChunkOK(Peer(p), b, m), m.epoch = a.epoch,
         m.type = "Ct2", a.state \in {"Ct1Received", "EkSentCt1Received"}
  PROVE  ReceiveResult(p, a, b, ReceiveCt2(a, m))
<1> DEFINE y == AddChunk(a, "Ct2", m)
           z == [y EXCEPT !.state = "EkSentCt1Received"]
           auth == Append(a.auth, a.ct1)
           f == FreshAgent("NoHeaderReceived", a.epoch + 1, auth)
<1>1. "Ct2" \in Components /\ PartOf("Ct2") = "Ct2"
  BY DEF Components, PartOf
<1>2. /\ m.index \in Nat /\ m.data = Canonical("Ct2", a.epoch) /\ m.index < b.cursor["Ct2"]
      /\ b.state = "Ct2Sampled"
  BY <1>1 DEF ChunkOK, StatesAfter
<1>3. AgentOK(p, a) /\ AgentOK(Peer(p), b)
  BY DEF Pair
<1>4. ChunkAdded(p, a, "Ct2", m, y)
  BY <1>1, <1>2, <1>3, AddChunkFields
<1>5. Receiving(a, b, y)
  BY <1>1, <1>2, AddChunkReceiving
<1>6. a.state \in AliceStates /\ b.state \in BobStates /\ b.state \notin AliceStates
  BY <1>2 DEF AliceStates, BobStates
<1>8. /\ Known(a) = a.epoch - 1 /\ p = AliceOf(a.epoch) /\ a.ek = KeyPair(a.epoch)
      /\ a.ct1 = EpochSecret(a.epoch) /\ a.epoch \in Nat \ {0} /\ a.auth = Roots(a.epoch - 1)
  BY <1>3 DEF AgentOK, Known, AliceStates, BobStates, SampledStates
<1>9. auth = Roots(a.epoch) /\ m.data = Mac(auth, m.epoch, a.ct1)
  <2>1. auth = Roots(a.epoch)
    BY <1>8, NextRoot
  <2> QED BY <1>2, <1>8, <2>1 DEF Canonical
<1> HIDE DEF y, auth
<1>10. CASE ~Complete(z, "Ct2")
  <2>1. ReceiveCt2(a, m) = Absorbed(z)
    BY <1>10 DEF ReceiveCt2, y
  <2>2. /\ DOMAIN z = AgentFields /\ z.state = "EkSentCt1Received" /\ z.epoch = y.epoch /\ z.auth = y.auth
        /\ z.ek = y.ek /\ z.ct1 = y.ct1 /\ z.cursor = y.cursor /\ z.chunks = y.chunks
    BY <1>4 DEF ChunkAdded, AgentOK, AgentFields
  <2> HIDE DEF z
  <2>3. /\ y.state = a.state /\ y.epoch = a.epoch /\ y.ek = a.ek /\ y.ct1 = a.ct1 /\ y.cursor = a.cursor
        /\ AgentOK(p, y)
    BY <1>4 DEF ChunkAdded
  <2>4. Known(z) = Known(y) /\ Known(y) = Known(a)
    BY <1>8, <2>2, <2>3 DEF Known, SampledStates
  <2>5. z.state \in AliceStates /\ z.state # "Ct2Sampled"
    BY <2>2 DEF AliceStates
  <2>6. AgentOK(p, z)
    BY <1>6, <1>8, <2>2, <2>3, <2>4, <2>5, StateChanged
  <2>7. Receiving(a, b, z)
    BY <1>5, <2>2 DEF Receiving
  <2>8. InStep(z, b)
    BY <1>2, <2>2 DEF InStep
  <2>9. Pair(p, z, b)
    BY <1>6, <2>6, <2>7, <2>8, ReceivingKeepsPair
  <2>10. Later(a, z)
    BY <1>3, <2>2, <2>3, LaterInEpoch
  <2> QED BY <2>1, <2>4, <2>9, <2>10 DEF ReceiveResult, Absorbed
<1>11. CASE Complete(z, "Ct2")
  <2> DEFINE o == [Absorbed(f) EXCEPT !.secret = a.ct1]
  <2>1. ReceiveCt2(a, m) = o
    BY <1>9, <1>11 DEF ReceiveCt2, y, auth
  <2>2. o.ok /\ o.agent = f /\ o.secret = EpochSecret(a.epoch)
    BY <1>8 DEF Absorbed
  <2> HIDE DEF o
  <2>3. AgentOK(p, f) /\ Known(f) = a.epoch
    <3> DEFINE e == a.epoch + 1
    <3>1. e \in Nat \ {0} /\ e - 1 = a.epoch /\ p = BobOf(e)
      BY <1>8, RolesSwap
    <3> HIDE DEF e
    <3>2. AgentOK(p, FreshAgent("NoHeaderReceived", e, Roots(e - 1)))
          /\ Known(FreshAgent("NoHeaderReceived", e, Roots(e - 1))) = e - 1
      BY <3>1, FreshOK
    <3> QED BY <1>9, <3>1, <3>2 DEF e
  <2>4. f.epoch = a.epoch + 1 /\ f.state = "NoHeaderReceived" /\ \A c \in Components : f.chunks[c] = {}
    BY DEF FreshAgent
  <2> HIDE DEF f
  <2>5. Pair(p, f, b)
    BY <1>2, <1>3, <1>8, <2>3, <2>4 DEF Pair, PairOK
  <2>6. Later(a, f)
    BY <2>4 DEF Later
  <2> QED BY <1>8, <2>1, <2>2, <2>3, <2>5, <2>6 DEF ReceiveResult
<1> QED BY <1>10, <1>11

\* The step of an agent z, which is y with another state, from a.
LEMMA BobMoves ==
  ASSUME NEW p \in Parties, NEW a, NEW b, NEW z, Pair(p, a, b), a.epoch = b.epoch,
         a.state \in BobStates, z.state \in BobStates, AgentOK(p, z), Receiving(a, b, z),
         Known(z) = Known(a), InStep(b, z),
         \/ z.state = a.state
         \/ a.state = "NoHeaderReceived" /\ z.state = "HeaderReceived"
         \/ /\ a.state \in {"Ct1Sampled", "Ct1Acknowledged", "EkReceivedCt1Sampled"}
            /\ z.state \in {"Ct1Acknowledged", "EkReceivedCt1Sampled", "Ct2Sampled"}
  PROVE  ReceiveResult(p, a, b, Absorbed(z))
<1>1. z.state \notin AliceStates
  BY DEF AliceStates, BobStates
<1>2. Pair(p, z, b)
  BY <1>1, ReceivingKeepsPair
<1>3. Later(a, z)
  BY LaterInEpoch DEF Pair, Receiving
<1> QED BY <1>2, <1>3 DEF ReceiveResult, Absorbed

(* A header chunk at Bob: the MAC of a complete header verifies.           *)
LEMMA BobReceivesHeader ==
  ASSUME NEW p \in Parties, NEW a, NEW b, Pair(p, a, b), a.epoch = b.epoch,
         NEW m, ChunkOK(Peer(p), b, m), m.epoch = a.epoch,
         m.type = "Hdr", a.state = "NoHeaderReceived", InStep(b, a)
  PROVE  ReceiveResult(p, a, b, ReceiveHeader(a, m))
<1> DEFINE y == AddChunk(a, "Hdr", m)
           z == [y EXCEPT !.state = "HeaderReceived", !.ek = m.data[4]]
<1>1. "Hdr" \in Components /\ PartOf("Hdr") = "Hdr"
  BY DEF Components, PartOf
<1>2. /\ m.index \in Nat /\ m.data = Canonical("Hdr", a.epoch) /\ m.index < b.cursor["Hdr"]
      /\ b.state = "KeysSampled"
  BY <1>1 DEF ChunkOK, StatesAfter, InStep, AliceStates
<1>3. AgentOK(p, a)
  BY DEF Pair
<1>4. ChunkAdded(p, a, "Hdr", m, y)
  BY <1>1, <1>2, <1>3, AddChunkFields
<1>5. Receiving(a, b, y)
  BY <1>1, <1>2, AddChunkReceiving
<1>6. /\ y.state = a.state /\ y.epoch = a.epoch /\ y.auth = a.auth
      /\ y.cursor = a.cursor /\ AgentOK(p, y)
  BY <1>4 DEF ChunkAdded
<1>7. Known(a) = a.epoch - 1 /\ Known(y) = Known(a) /\ a.auth = Roots(a.epoch - 1)
  BY <1>3, <1>6 DEF Known, SampledStates, AgentOK
<1>8. m.data = Mac(a.auth, m.epoch, m.data[4]) /\ m.data[4] = KeyPair(a.epoch)
  BY <1>2, <1>7 DEF Canonical, Mac
<1>9. a.state \in BobStates /\ "HeaderReceived" \in BobStates
  BY DEF BobStates
<1> HIDE DEF y
<1>10. CASE ~Complete(y, "Hdr")
  <2>1. ReceiveHeader(a, m) = Absorbed(y)
    BY <1>10 DEF ReceiveHeader, y
  <2>2. InStep(b, y)
    BY <1>6 DEF InStep
  <2> QED BY <1>5, <1>6, <1>7, <1>9, <2>1, <2>2, BobMoves
<1>11. CASE Complete(y, "Hdr")
  <2>1. ReceiveHeader(a, m) = Absorbed(z)
    BY <1>8, <1>11 DEF ReceiveHeader, y
  <2>2. /\ DOMAIN z = AgentFields /\ z.state = "HeaderReceived" /\ z.epoch = y.epoch /\ z.auth = y.auth
        /\ z.ek = KeyPair(a.epoch) /\ z.cursor = y.cursor /\ z.chunks = y.chunks
    BY <1>6, <1>8 DEF AgentOK, AgentFields
  <2> HIDE DEF z
  <2>3. Known(z) = Known(y)
    BY <1>6, <1>7, <2>2 DEF Known, SampledStates
  <2>4. z.state \notin NeedsCt1 /\ z.state # "Ct2Sampled"
    BY <2>2 DEF NeedsCt1, SampledStates
  <2>5. AgentOK(p, z)
    BY <1>6, <1>9, <2>2, <2>3, <2>4, StateChanged
  <2>6. Receiving(a, b, z)
    BY <1>5, <2>2 DEF Receiving
  <2>7. InStep(b, z)
    BY <1>2, <2>2 DEF InStep
  <2> QED BY <1>7, <1>9, <2>1, <2>2, <2>3, <2>5, <2>6, <2>7, BobMoves
<1> QED BY <1>10, <1>11

\* bobSampleCt2(), from any state with the epoch secret.
LEMMA SampleCt2OK ==
  ASSUME NEW p, NEW y, AgentOK(p, y), y.state \in {"Ct1Sampled", "Ct1Acknowledged", "EkReceivedCt1Sampled"}
  PROVE  LET z == SampleCt2(y) IN
         /\ AgentOK(p, z) /\ z.state = "Ct2Sampled" /\ z.epoch = y.epoch
         /\ z.cursor = y.cursor /\ z.chunks = y.chunks /\ Known(z) = Known(y)
<1> DEFINE z == SampleCt2(y)
<1>1. /\ DOMAIN z = AgentFields /\ z.state = "Ct2Sampled" /\ z.epoch = y.epoch /\ z.auth = y.auth
      /\ z.ek = y.ek /\ z.ct1 = y.ct1 /\ z.cursor = y.cursor /\ z.chunks = y.chunks
      /\ z.ct2 = Mac(y.auth, y.epoch, y.ct1)
  BY DEF SampleCt2, AgentOK, AgentFields
<1> HIDE DEF z
<1>2. y.state \in SampledStates /\ z.state \in SampledStates /\ y.state \in BobStates /\ z.state \in BobStates
  BY <1>1 DEF SampledStates, BobStates
<1>3. Known(z) = Known(y) /\ Known(y) = y.epoch
  BY <1>1, <1>2 DEF Known
<1>4. y.ek = KeyPair(y.epoch) /\ y.ct1 = EpochSecret(y.epoch) /\ y.auth = Roots(y.epoch)
  BY <1>2, <1>3 DEF AgentOK
<1>5. z.ct2 = Canonical("Ct2", z.epoch)
  BY <1>1, <1>4 DEF Canonical
<1>6. AgentOK(p, z)
  BY <1>1, <1>2, <1>3, <1>4, <1>5, StateChanged
<1> QED BY <1>1, <1>3, <1>6 DEF z

(* An acknowledgment of ct1 at a Bob who has the whole key.                *)
LEMMA BobAcknowledged ==
  ASSUME NEW p \in Parties, NEW a, NEW b, Pair(p, a, b), a.epoch = b.epoch,
         NEW m, ChunkOK(Peer(p), b, m), m.epoch = a.epoch,
         AcknowledgesCt1(m), a.state = "EkReceivedCt1Sampled", InStep(b, a)
  PROVE  ReceiveResult(p, a, b, Absorbed(SampleCt2(a)))
<1> DEFINE z == SampleCt2(a)
<1>1. AgentOK(p, a)
  BY DEF Pair
<1>2. /\ AgentOK(p, z) /\ z.state = "Ct2Sampled" /\ z.epoch = a.epoch
      /\ z.cursor = a.cursor /\ z.chunks = a.chunks /\ Known(z) = Known(a)
  BY <1>1, SampleCt2OK
<1> HIDE DEF z
<1>3. b.state = "Ct1Received"
  BY DEF ChunkOK, StatesAfter, AcknowledgesCt1, InStep
<1>4. InStep(b, z)
  BY <1>2, <1>3 DEF InStep
<1>5. Receiving(a, b, z)
  BY <1>2 DEF Receiving, Pair, PairOK
<1>6. a.state \in BobStates /\ z.state \in BobStates
  BY <1>2 DEF BobStates
<1>7. ReceiveResult(p, a, b, Absorbed(z))
  BY <1>2, <1>4, <1>5, <1>6, BobMoves
<1> QED BY <1>7 DEF z

(* A chunk of the encapsulation key at Bob: the complete key matches the   *)
(* header.                                                                 *)
LEMMA BobReceivesEk ==
  ASSUME NEW p \in Parties, NEW a, NEW b, Pair(p, a, b), a.epoch = b.epoch,
         NEW m, ChunkOK(Peer(p), b, m), m.epoch = a.epoch,
         m.type \in {"Ek", "EkCt1Ack"}, a.state \in {"Ct1Sampled", "Ct1Acknowledged"}, InStep(b, a)
  PROVE  ReceiveResult(p, a, b, ReceiveEk(a, m))
<1> DEFINE y == AddChunk(a, "Ek", m)
           acks == m.type = "EkCt1Ack" \/ a.state = "Ct1Acknowledged"
<1>1. "Ek" \in Components /\ PartOf(m.type) = "Ek"
  BY DEF Components, PartOf
<1>2. /\ m.index \in Nat /\ m.data = Canonical("Ek", a.epoch) /\ m.index < b.cursor["Ek"]
      /\ b.state \in StatesAfter(m.type)
  BY <1>1 DEF ChunkOK
<1>3. AgentOK(p, a)
  BY DEF Pair
<1>4. ChunkAdded(p, a, "Ek", m, y)
  BY <1>1, <1>2, <1>3, AddChunkFields
<1>5. Receiving(a, b, y)
  BY <1>1, <1>2, AddChunkReceiving
<1>6. /\ y.state = a.state /\ y.epoch = a.epoch /\ y.auth = a.auth /\ y.ek = a.ek /\ y.ct1 = a.ct1
      /\ y.cursor = a.cursor /\ AgentOK(p, y)
  BY <1>4 DEF ChunkAdded
<1>7. a.state \in SampledStates /\ a.state \in BobStates
  BY DEF SampledStates, BobStates
<1>8. /\ a.ek = KeyPair(a.epoch) /\ a.ct1 = EpochSecret(a.epoch) /\ m.data = a.ek
      /\ Known(a) = a.epoch /\ Known(y) = a.epoch
  BY <1>2, <1>3, <1>6, <1>7 DEF AgentOK, Canonical, Known
<1>9. b.state \in {"HeaderSent", "Ct1Received"} /\ (acks => b.state = "Ct1Received")
  BY <1>2 DEF StatesAfter, InStep
<1> HIDE DEF y
<1>10. CASE Complete(y, "Ek") /\ acks
  <2> DEFINE z == SampleCt2(y)
  <2>1. ReceiveEk(a, m) = Absorbed(z)
    BY <1>8, <1>10 DEF ReceiveEk, y
  <2>2. /\ AgentOK(p, z) /\ z.state = "Ct2Sampled" /\ z.epoch = y.epoch
        /\ z.cursor = y.cursor /\ z.chunks = y.chunks /\ Known(z) = Known(y)
    BY <1>6, SampleCt2OK
  <2> HIDE DEF z
  <2>3. InStep(b, z)
    BY <1>9, <1>10, <2>2 DEF InStep
  <2>4. Receiving(a, b, z) /\ z.state \in BobStates
    BY <1>5, <2>2 DEF Receiving, BobStates
  <2> QED BY <1>7, <1>8, <2>1, <2>2, <2>3, <2>4, BobMoves
<1>11. CASE ~Complete(y, "Ek") /\ ~acks
  <2>1. ReceiveEk(a, m) = Absorbed(y)
    BY <1>11 DEF ReceiveEk, y
  <2>2. InStep(b, y)
    BY <1>6 DEF InStep
  <2> QED BY <1>5, <1>6, <1>7, <1>8, <2>1, <2>2, BobMoves
<1>12. CASE (Complete(y, "Ek") /\ ~acks) \/ (~Complete(y, "Ek") /\ acks)
  <2> DEFINE state == IF acks THEN "Ct1Acknowledged" ELSE "EkReceivedCt1Sampled"
             z == [y EXCEPT !.state = state]
  <2>1. ReceiveEk(a, m) = Absorbed(z)
    <3>1. CASE Complete(y, "Ek") /\ ~acks
      BY <1>8, <3>1 DEF ReceiveEk, y
    <3>2. CASE ~Complete(y, "Ek") /\ acks
      BY <3>2 DEF ReceiveEk, y
    <3> QED BY <1>12, <3>1, <3>2
  <2>2. /\ DOMAIN z = AgentFields /\ z.state = state /\ z.epoch = y.epoch /\ z.auth = y.auth
        /\ z.ek = y.ek /\ z.ct1 = y.ct1 /\ z.cursor = y.cursor /\ z.chunks = y.chunks
    BY <1>6 DEF AgentOK, AgentFields
  <2> HIDE DEF z
  <2>3. z.state \in {"Ct1Acknowledged", "EkReceivedCt1Sampled"} /\ (z.state = "Ct1Acknowledged" => acks)
    BY <2>2
  <2>4. z.state \in SampledStates /\ z.state \in BobStates /\ z.state # "Ct2Sampled"
    BY <2>3 DEF SampledStates, BobStates
  <2>5. Known(z) = Known(y)
    BY <1>6, <1>8, <2>2, <2>4 DEF Known
  <2>6. AgentOK(p, z)
    BY <1>6, <1>7, <1>8, <2>2, <2>4, <2>5, StateChanged
  <2>7. InStep(b, z)
    BY <1>9, <2>3 DEF InStep
  <2>8. Receiving(a, b, z)
    BY <1>5, <2>2 DEF Receiving
  <2> QED BY <1>7, <1>8, <2>1, <2>2, <2>3, <2>4, <2>5, <2>6, <2>7, <2>8, BobMoves
<1> QED BY <1>10, <1>11, <1>12

(* Any chunk of the peer at Alice.                                         *)
LEMMA AliceReceiveOK ==
  ASSUME NEW p \in Parties, NEW a, NEW b, Pair(p, a, b), a.state \in AliceStates,
         NEW m, ChunkOK(Peer(p), b, m)
  PROVE  ReceiveResult(p, a, b, ReceiveAlice(a, m))
<1>1. AgentOK(p, a) /\ AgentOK(Peer(p), b)
  BY DEF Pair
<1>2. a.epoch \in Nat /\ b.epoch \in Nat /\ m.epoch \in 1 .. b.epoch
  BY <1>1 DEF AgentOK, ChunkOK
<1>3. a.state \notin BobStates /\ a.state # "Ct2Sampled"
  BY DEF AliceStates, BobStates
<1>4. b.epoch <= a.epoch
  BY <1>2, <1>3 DEF Pair, PairOK
<1>5. CASE m.epoch < a.epoch
  BY <1>5, IgnoredOK DEF ReceiveAlice
<1>6. CASE ~(m.epoch < a.epoch)
  <2>1. m.epoch = a.epoch /\ b.epoch = a.epoch
    BY <1>2, <1>4, <1>6
  <2>2. ~(m.epoch > a.epoch)
    BY <1>2, <2>1
  <2>3. CASE m.type = "Ct1" /\ a.state \in {"KeysSampled", "HeaderSent"}
    <3>1. "Ct1" \in Components /\ m.data = Canonical("Ct1", a.epoch)
      BY <2>1, <2>3 DEF Components, ChunkOK, PartOf
    <3>2. ~Conflicts(a, "Ct1", m)
      BY <1>1, <3>1, NoConflict
    <3>3. ReceiveAlice(a, m) = Absorbed(ReceiveCt1(a, m))
      BY <1>6, <2>2, <2>3, <3>2 DEF ReceiveAlice
    <3> QED BY <2>1, <2>3, <3>3, AliceReceivesCt1
  <2>4. CASE m.type = "Ct2" /\ a.state \in {"Ct1Received", "EkSentCt1Received"}
    <3>1. "Ct2" \in Components /\ m.data = Canonical("Ct2", a.epoch)
      BY <2>1, <2>4 DEF Components, ChunkOK, PartOf
    <3>2. ~Conflicts(a, "Ct2", m)
      BY <1>1, <3>1, NoConflict
    <3>3. ReceiveAlice(a, m) = ReceiveCt2(a, m)
      BY <1>6, <2>2, <2>4, <3>2 DEF ReceiveAlice
    <3> QED BY <2>1, <2>4, <3>3, AliceReceivesCt2
  <2>5. CASE /\ ~(m.type = "Ct1" /\ a.state \in {"KeysSampled", "HeaderSent"})
             /\ ~(m.type = "Ct2" /\ a.state \in {"Ct1Received", "EkSentCt1Received"})
    <3>1. ReceiveAlice(a, m) = Absorbed(a)
      BY <1>6, <2>2, <2>5 DEF ReceiveAlice
    <3> QED BY <3>1, IgnoredOK
  <2> QED BY <2>3, <2>4, <2>5
<1> QED BY <1>5, <1>6

(* A chunk of the next epoch moves Bob to it, in the Alice role.           *)
LEMMA BobNextEpoch ==
  ASSUME NEW p \in Parties, NEW a, NEW b, Pair(p, a, b), a.state = "Ct2Sampled", b.epoch = a.epoch + 1
  PROVE  ReceiveResult(p, a, b, Absorbed(FreshAgent("KeysUnsampled", a.epoch + 1, a.auth)))
<1> DEFINE e == a.epoch + 1
           f == FreshAgent("KeysUnsampled", e, a.auth)
<1>1. AgentOK(p, a) /\ AgentOK(Peer(p), b)
  BY DEF Pair
<1>2. a.epoch \in Nat \ {0} /\ p = BobOf(a.epoch) /\ Known(a) = a.epoch /\ a.auth = Roots(a.epoch)
  BY <1>1 DEF AgentOK, AliceStates, Known, SampledStates
<1>3. e \in Nat \ {0} /\ e - 1 = a.epoch /\ p = AliceOf(e)
  BY <1>2, RolesSwap
<1>4. b.state = "NoHeaderReceived" /\ \A c \in Components : b.chunks[c] = {}
  BY <1>2 DEF Pair, PairOK
<1>5. /\ f.epoch = e /\ f.state = "KeysUnsampled" /\ f.chunks = [c \in Components |-> {}]
  BY DEF FreshAgent
<1> HIDE DEF e
<1>6. AgentOK(p, f) /\ Known(f) = a.epoch
  BY <1>2, <1>3, FreshOK
<1> HIDE DEF f
<1>7. InStep(f, b)
  BY <1>4, <1>5 DEF InStep
<1>8. b.epoch = f.epoch
  BY <1>5 DEF e
<1>9. PairOK(f, b)
  <2>1. \A c \in Components : \A x \in b.chunks[c] : x[1] < f.cursor[c]
    BY <1>4
  <2>2. ~(f.epoch > b.epoch)
    BY <1>3, <1>5, <1>8
  <2> QED BY <1>7, <1>8, <2>1, <2>2 DEF PairOK
<1>10. PairOK(b, f)
  <2>1. \A c \in Components : f.chunks[c] = {}
    BY <1>5
  <2>2. ~(b.epoch > f.epoch)
    BY <1>3, <1>5, <1>8
  <2>3. b.state \notin AliceStates
    BY <1>4 DEF AliceStates
  <2> QED BY <1>8, <2>1, <2>2, <2>3 DEF PairOK
<1>11. Later(a, f)
  BY <1>5 DEF Later, e
<1> QED BY <1>1, <1>2, <1>6, <1>9, <1>10, <1>11 DEF ReceiveResult, Absorbed, Pair, f, e

(* Any chunk of the peer at Bob.                                           *)
LEMMA BobReceiveOK ==
  ASSUME NEW p \in Parties, NEW a, NEW b, Pair(p, a, b), a.state \in BobStates,
         NEW m, ChunkOK(Peer(p), b, m), m.type # "None"
  PROVE  ReceiveResult(p, a, b, ReceiveBob(a, m))
<1>1. AgentOK(p, a) /\ AgentOK(Peer(p), b)
  BY DEF Pair
<1>2. a.epoch \in Nat /\ b.epoch \in Nat /\ m.epoch \in 1 .. b.epoch
  BY <1>1 DEF AgentOK, ChunkOK
<1>3. b.epoch > a.epoch => b.epoch = a.epoch + 1 /\ a.state = "Ct2Sampled"
  BY <1>2 DEF Pair, PairOK
<1>4. CASE m.epoch < a.epoch
  BY <1>4, IgnoredOK DEF ReceiveBob
<1>5. CASE m.epoch > a.epoch
  <2>1. b.epoch = a.epoch + 1 /\ m.epoch = a.epoch + 1 /\ a.state = "Ct2Sampled"
    BY <1>2, <1>3, <1>5
  <2>2. ~(m.epoch < a.epoch)
    BY <1>2, <2>1
  <2>3. ReceiveBob(a, m) = Absorbed(FreshAgent("KeysUnsampled", a.epoch + 1, a.auth))
    BY <2>1, <2>2 DEF ReceiveBob
  <2> QED BY <2>1, <2>3, BobNextEpoch
<1>6. CASE m.epoch = a.epoch
  <2>1. ~(m.epoch < a.epoch) /\ ~(m.epoch > a.epoch) /\ m.epoch # a.epoch + 1
    BY <1>2, <1>6
  <2>2. CASE a.state = "Ct2Sampled"
    <3>1. ReceiveBob(a, m) = Absorbed(a)
      BY <2>1, <2>2 DEF ReceiveBob
    <3> QED BY <3>1, IgnoredOK
  <2>3. CASE a.state # "Ct2Sampled"
    <3>1. b.epoch = a.epoch
      BY <1>2, <1>3, <1>6, <2>3
    <3>2. b.state \in AliceStates
      <4>1. Peer(p) \in Parties /\ Peer(Peer(p)) = p
        BY <1>2, RolesSwap
      <4> QED BY <1>1, <3>1, <4>1, SameEpochRoles
    <3>3. InStep(b, a)
      BY <3>1, <3>2 DEF Pair, PairOK
    <3>4. CASE m.type = "Hdr" /\ a.state = "NoHeaderReceived"
      <4>1. "Hdr" \in Components /\ m.data = Canonical("Hdr", a.epoch)
        BY <1>6, <3>4 DEF Components, ChunkOK, PartOf
      <4>2. ~Conflicts(a, "Hdr", m)
        BY <1>1, <4>1, NoConflict
      <4>3. ReceiveBob(a, m) = ReceiveHeader(a, m)
        BY <2>1, <2>3, <3>4, <4>2 DEF ReceiveBob
      <4> QED BY <1>6, <3>1, <3>3, <3>4, <4>3, BobReceivesHeader
    <3>5. CASE AcknowledgesCt1(m) /\ a.state = "EkReceivedCt1Sampled"
      <4>1. ReceiveBob(a, m) = Absorbed(SampleCt2(a))
        BY <2>1, <2>3, <3>5 DEF ReceiveBob
      <4> QED BY <1>6, <3>1, <3>3, <3>5, <4>1, BobAcknowledged
    <3>6. CASE m.type \in {"Ek", "EkCt1Ack"} /\ a.state \in {"Ct1Sampled", "Ct1Acknowledged"}
      <4>1. "Ek" \in Components /\ m.data = Canonical("Ek", a.epoch)
        BY <1>6, <3>6 DEF Components, ChunkOK, PartOf
      <4>2. ~Conflicts(a, "Ek", m)
        BY <1>1, <4>1, NoConflict
      <4>3. ReceiveBob(a, m) = ReceiveEk(a, m)
        BY <2>1, <2>3, <3>6, <4>2 DEF ReceiveBob
      <4> QED BY <1>6, <3>1, <3>3, <3>6, <4>3, BobReceivesEk
    <3>7. CASE /\ ~(m.type = "Hdr" /\ a.state = "NoHeaderReceived")
               /\ ~(AcknowledgesCt1(m) /\ a.state = "EkReceivedCt1Sampled")
               /\ ~(m.type \in {"Ek", "EkCt1Ack"} /\ a.state \in {"Ct1Sampled", "Ct1Acknowledged"})
      <4>1. ReceiveBob(a, m) = Absorbed(a)
        BY <2>1, <2>3, <3>7 DEF ReceiveBob
      <4> QED BY <4>1, IgnoredOK
    <3> QED BY <3>4, <3>5, <3>6, <3>7
  <2> QED BY <2>2, <2>3
<1> QED BY <1>2, <1>4, <1>5, <1>6

\* The braid takes every chunk of the peer, and stays in step with it.
LEMMA BraidReceiveOK ==
  ASSUME NEW p \in Parties, NEW a, NEW b, Pair(p, a, b), NEW m, ChunkOK(Peer(p), b, m), m.type # "None"
  PROVE  ReceiveResult(p, a, b, BraidReceive(a, m))
<1>1. CASE a.state \in AliceStates
  BY <1>1, AliceReceiveOK DEF BraidReceive
<1>2. CASE a.state \notin AliceStates
  BY <1>2, BobReceiveOK DEF BraidReceive, AgentOK, Pair
<1> QED BY <1>1, <1>2

-----------------------------------------------------------------------------
(* The message-key chains.                                                 *)

\* What was sent or received under s still counts as such under z.
Kept(s, z) ==
  /\ \A e, i \in Nat : i # 0 /\ SentUnder(s, e, i) => SentUnder(z, e, i)
  /\ \A e, i \in Nat : i # 0 /\ UsedUp(s, e, i) => UsedUp(z, e, i)

(* trimEpochSkippedKeys() acts above the limit that it trims to.           *)
LEMMA TrimSizeIsLarge ==
  TrimSize \in Nat /\ MaxOOOKeys < TrimSize
<1>1. MaxOOOKeys \in Nat
  BY BraidAssumption
<1>2. \A m \in Nat : (m * 11) \div 10 \in Nat /\ m <= (m * 11) \div 10
  OBVIOUS
<1> QED BY <1>1, <1>2 DEF TrimSize

\* Fewer keys are within the limit, too.
LEMMA FewerHeld ==
  ASSUME NEW s, NEW z, IsFiniteSet(s.MKSKIPPED), z.MKSKIPPED \subseteq s.MKSKIPPED,
         \A e \in Nat : Cardinality(Held(s, e)) < TrimSize
  PROVE  /\ IsFiniteSet(z.MKSKIPPED)
         /\ \A e \in Nat : Cardinality(Held(z, e)) < TrimSize
<1>1. IsFiniteSet(z.MKSKIPPED)
  BY FS_Subset
<1>2. ASSUME NEW e \in Nat PROVE Cardinality(Held(z, e)) < TrimSize
  <2>1. Held(s, e) \subseteq s.MKSKIPPED /\ Held(z, e) \subseteq Held(s, e)
    BY DEF Held
  <2>2. IsFiniteSet(Held(s, e))
    BY <2>1, FS_Subset
  <2>3. IsFiniteSet(Held(z, e)) /\ Cardinality(Held(z, e)) <= Cardinality(Held(s, e))
    BY <2>1, <2>2, FS_Subset
  <2>4. Cardinality(Held(z, e)) \in Nat /\ Cardinality(Held(s, e)) \in Nat
    BY <2>2, <2>3, FS_CardinalityType
  <2> QED BY <2>3, <2>4, TrimSizeIsLarge
<1> QED BY <1>1, <1>2

(* addSPQRBraidEpoch() with the secret of the next epoch.                  *)
LEMMA AddEpochOK ==
  ASSUME NEW n \in Nat, NEW s, SpqrOK(s, n)
  PROVE  /\ SpqrOK(AddEpoch(s, EpochSecret(n + 1)), n + 1)
         /\ Kept(s, AddEpoch(s, EpochSecret(n + 1)))
         /\ AddEpoch(s, EpochSecret(n + 1)).negotiated = s.negotiated
<1> DEFINE z == AddEpoch(s, EpochSecret(n + 1))
           new == [InitialChains EXCEPT !.root = Roots(n + 1)]
<1>1. Append(s.RK, EpochSecret(n + 1)) = Roots(n + 1)
  <2>1. n + 1 \in Nat \ {0} /\ (n + 1) - 1 = n
    OBVIOUS
  <2> QED BY <2>1, NextRoot DEF SpqrOK
<1>2. /\ DOMAIN z = SpqrFields /\ z.epoch = n + 1 /\ z.RK = Roots(n + 1)
      /\ z.sendEpoch = s.sendEpoch /\ z.negotiated = s.negotiated /\ z.MKSKIPPED = s.MKSKIPPED
      /\ z.kdfChains = [e \in DOMAIN s.kdfChains \cup {n + 1} |->
                          IF e = n + 1 THEN new ELSE s.kdfChains[e]]
  BY <1>1 DEF AddEpoch, SpqrOK, SpqrFields
<1>3. /\ DOMAIN new = ChainFields /\ new.root = Roots(n + 1) /\ new.send = 0 /\ new.receive = 0
  BY DEF InitialChains, ChainFields
<1> HIDE DEF z, new
<1>4. DOMAIN s.kdfChains \subseteq 0 .. n /\ s.sendEpoch \in 0 .. n
  BY DEF SpqrOK
<1>5. DOMAIN z.kdfChains = DOMAIN s.kdfChains \cup {n + 1}
  BY <1>2
<1>6. \A e \in DOMAIN s.kdfChains : z.kdfChains[e] = s.kdfChains[e]
  BY <1>2, <1>4
<1>7. z.kdfChains[n + 1] = new
  BY <1>2
<1>8. \A e \in DOMAIN z.kdfChains : ChainOK(e, z.kdfChains[e])
  BY <1>3, <1>5, <1>6, <1>7 DEF SpqrOK, ChainOK
<1>9. \A e \in Nat : Held(z, e) = Held(s, e)
  BY <1>2 DEF Held
<1>10. SpqrOK(z, n + 1)
  <2>1. \A k \in z.MKSKIPPED :
          /\ k \in Nat \X Nat /\ k[1] \in DOMAIN z.kdfChains
          /\ k[2] <= z.kdfChains[k[1]].receive
    BY <1>2, <1>5, <1>6 DEF SpqrOK
  <2>2. DOMAIN z.kdfChains \subseteq 0 .. n + 1 /\ z.sendEpoch \in 0 .. n + 1
    BY <1>2, <1>4, <1>5
  <2> QED BY <1>2, <1>8, <1>9, <2>1, <2>2 DEF SpqrOK
<1>11. Kept(s, z)
  <2>1. ASSUME NEW e \in Nat, NEW i \in Nat, i # 0, SentUnder(s, e, i) PROVE SentUnder(z, e, i)
    BY <1>2, <1>4, <1>5, <1>6, <2>1 DEF SentUnder
  <2>2. ASSUME NEW e \in Nat, NEW i \in Nat, i # 0, UsedUp(s, e, i) PROVE UsedUp(z, e, i)
    <3>1. e <= n
      BY <2>2 DEF UsedUp, SpqrOK
    <3> QED BY <1>2, <1>5, <1>6, <2>2, <3>1 DEF UsedUp
  <2> QED BY <2>1, <2>2 DEF Kept
<1> QED BY <1>2, <1>10, <1>11 DEF z

(* The pruning of deriveSPQRSendKey() keeps the roots, the limits and what *)
(* was used up.                                                            *)
LEMMA PruneOK ==
  ASSUME NEW n \in Nat, NEW s, SpqrOK(s, n), NEW e \in 0 .. n
  PROVE  LET z == Prune(s, e) IN
         /\ SpqrOK(z, n) /\ Kept(s, z) /\ z.negotiated = s.negotiated
         /\ e <= z.sendEpoch /\ (s.sendEpoch <= e => z.sendEpoch = e)
         /\ e \in DOMAIN s.kdfChains => e \in DOMAIN z.kdfChains
<1> DEFINE z == Prune(s, e)
<1>1. n \in Nat /\ s.sendEpoch \in 0 .. n /\ DOMAIN s.kdfChains \subseteq 0 .. n
  BY DEF SpqrOK
<1>2. CASE e <= s.sendEpoch
  <2>1. z = s
    BY <1>2 DEF Prune
  <2>2. Kept(s, s)
    BY DEF Kept
  <2> QED BY <1>1, <1>2, <2>1, <2>2
<1>3. CASE ~(e <= s.sendEpoch)
  <2> DEFINE D == {y \in DOMAIN s.kdfChains : y + 1 >= e}
  <2>1. /\ DOMAIN z = SpqrFields /\ z.epoch = s.epoch /\ z.RK = s.RK
        /\ z.sendEpoch = e /\ z.negotiated = s.negotiated
        /\ z.MKSKIPPED = {k \in s.MKSKIPPED : k[1] + 1 >= e}
        /\ z.kdfChains = [x \in D |-> IF x < e THEN [s.kdfChains[x] EXCEPT !.send = NoValue]
                                               ELSE s.kdfChains[x]]
    BY <1>3 DEF Prune, SpqrOK, SpqrFields
  <2> HIDE DEF z
  <2>2. DOMAIN z.kdfChains = D /\ D \subseteq DOMAIN s.kdfChains /\ D \subseteq 0 .. n
    BY <1>1, <2>1
  <2>3. ASSUME NEW x \in D
        PROVE  /\ ChainOK(x, z.kdfChains[x])
               /\ z.kdfChains[x].receive = s.kdfChains[x].receive
               /\ x < e => z.kdfChains[x].send = NoValue
               /\ ~(x < e) => z.kdfChains[x] = s.kdfChains[x]
    <3>1. ChainOK(x, s.kdfChains[x])
      BY DEF SpqrOK
    <3> QED BY <2>1, <3>1 DEF ChainOK, ChainFields
  <2>4. \A k \in z.MKSKIPPED :
          /\ k \in Nat \X Nat /\ k[1] \in DOMAIN z.kdfChains
          /\ k[2] <= z.kdfChains[k[1]].receive
    <3> SUFFICES ASSUME NEW k \in z.MKSKIPPED
                 PROVE  /\ k \in Nat \X Nat /\ k[1] \in D
                        /\ k[2] <= z.kdfChains[k[1]].receive
      BY <2>2
    <3>1. k \in s.MKSKIPPED /\ k[1] + 1 >= e
      BY <2>1
    <3>2. k \in Nat \X Nat /\ k[1] \in DOMAIN s.kdfChains /\ k[2] <= s.kdfChains[k[1]].receive
      BY <3>1 DEF SpqrOK
    <3>3. k[1] \in D
      BY <3>1, <3>2
    <3> QED BY <2>3, <3>2, <3>3
  <2>5. IsFiniteSet(z.MKSKIPPED) /\ \A x \in Nat : Cardinality(Held(z, x)) < TrimSize
    BY <2>1, FewerHeld DEF SpqrOK
  <2>6. SpqrOK(z, n)
    <3>1. z.epoch = n /\ z.RK = Roots(n) /\ z.sendEpoch \in 0 .. z.epoch /\ z.negotiated \in BOOLEAN
      BY <2>1 DEF SpqrOK
    <3>2. DOMAIN z.kdfChains \subseteq 0 .. z.epoch
      BY <2>2, <3>1
    <3>3. \A x \in DOMAIN z.kdfChains : ChainOK(x, z.kdfChains[x])
      BY <2>2, <2>3
    <3> QED BY <2>1, <2>4, <2>5, <3>1, <3>2, <3>3 DEF SpqrOK
  <2>7. ASSUME NEW x \in Nat, NEW i \in Nat, i # 0, SentUnder(s, x, i) PROVE SentUnder(z, x, i)
    <3>1. x <= s.sendEpoch /\ x < e
      BY <1>1, <1>3, <2>7 DEF SentUnder
    <3> QED BY <2>1, <2>2, <2>3, <3>1 DEF SentUnder
  <2>8. ASSUME NEW x \in Nat, NEW i \in Nat, i # 0, UsedUp(s, x, i) PROVE UsedUp(z, x, i)
    BY <2>1, <2>2, <2>3, <2>8 DEF UsedUp
  <2>9. Kept(s, z)
    BY <2>7, <2>8 DEF Kept
  <2>10. e \in DOMAIN s.kdfChains => e \in DOMAIN z.kdfChains
    BY <2>2
  <2> QED BY <2>1, <2>6, <2>9, <2>10 DEF z
<1> QED BY <1>2, <1>3

(* deriveSPQRSendKey() gives out an index that no message of the epoch     *)
(* has.                                                                    *)
LEMMA AfterDeriveSendOK ==
  ASSUME NEW n \in Nat, NEW s, SpqrOK(s, n), NEW e \in 0 .. n, CanDeriveSend(s, e)
  PROVE  LET z == AfterDeriveSend(s, e)
             i == SendIndex(Prune(s, e), e)
         IN
         /\ SpqrOK(z, n) /\ Kept(s, z) /\ z.negotiated = s.negotiated
         /\ i \in Nat \ {0} /\ SentUnder(z, e, i)
         /\ \A j \in Nat : j # 0 /\ SentUnder(s, e, j) => j < i
<1> DEFINE q == Prune(s, e)
           z == AfterDeriveSend(s, e)
           i == SendIndex(q, e)
           new == [q.kdfChains[e] EXCEPT !.send = @ + 1]
<1>1. e \in DOMAIN s.kdfChains /\ e >= s.sendEpoch /\ q.kdfChains[e].send # NoValue
  BY DEF CanDeriveSend
<1>2. s.sendEpoch \in Nat /\ e \in Nat /\ s.sendEpoch <= e
  BY <1>1 DEF SpqrOK
<1>3. /\ SpqrOK(q, n) /\ Kept(s, q) /\ q.negotiated = s.negotiated
      /\ q.sendEpoch = e /\ e \in DOMAIN q.kdfChains
  BY <1>1, <1>2, PruneOK
<1>4. z = [q EXCEPT !.kdfChains[e].send = @ + 1] /\ i = q.kdfChains[e].send + 1
  BY DEF AfterDeriveSend, SendIndex
<1> HIDE DEF q, z, i
<1>5. ChainOK(e, q.kdfChains[e]) /\ q.kdfChains[e].send \in Nat
  BY <1>1, <1>3 DEF SpqrOK, ChainOK
<1>6. /\ DOMAIN z = SpqrFields /\ z.epoch = q.epoch /\ z.RK = q.RK
      /\ z.sendEpoch = q.sendEpoch /\ z.negotiated = q.negotiated /\ z.MKSKIPPED = q.MKSKIPPED
      /\ z.kdfChains = [q.kdfChains EXCEPT ![e] = new]
  BY <1>3, <1>4 DEF SpqrOK, SpqrFields
<1>7. /\ ChainOK(e, new) /\ new.send = q.kdfChains[e].send + 1
      /\ new.receive = q.kdfChains[e].receive
  BY <1>1, <1>5 DEF ChainOK, ChainFields
<1> HIDE DEF new
<1>8. /\ DOMAIN z.kdfChains = DOMAIN q.kdfChains /\ z.kdfChains[e] = new
      /\ \A x \in DOMAIN q.kdfChains : x # e => z.kdfChains[x] = q.kdfChains[x]
  BY <1>3, <1>6
<1>9. \A x \in DOMAIN q.kdfChains :
        ChainOK(x, z.kdfChains[x]) /\ z.kdfChains[x].receive = q.kdfChains[x].receive
  BY <1>3, <1>7, <1>8 DEF SpqrOK
<1>10. SpqrOK(z, n)
  <2>1. \A x \in Nat : Held(z, x) = Held(q, x)
    BY <1>6 DEF Held
  <2>2. \A k \in z.MKSKIPPED :
          /\ k \in Nat \X Nat /\ k[1] \in DOMAIN z.kdfChains
          /\ k[2] <= z.kdfChains[k[1]].receive
    BY <1>3, <1>6, <1>8, <1>9 DEF SpqrOK
  <2> QED BY <1>3, <1>6, <1>8, <1>9, <2>1, <2>2 DEF SpqrOK
<1>11. ASSUME NEW x \in Nat, NEW j \in Nat, j # 0, SentUnder(q, x, j) PROVE SentUnder(z, x, j)
  BY <1>1, <1>3, <1>5, <1>6, <1>7, <1>8, <1>11 DEF SentUnder
<1>12. ASSUME NEW x \in Nat, NEW j \in Nat, j # 0, UsedUp(q, x, j) PROVE UsedUp(z, x, j)
  BY <1>6, <1>8, <1>9, <1>12 DEF UsedUp
<1>13. Kept(s, z)
  BY <1>3, <1>11, <1>12 DEF Kept
<1>14. SentUnder(z, e, i)
  BY <1>2, <1>3, <1>4, <1>5, <1>6, <1>7, <1>8 DEF SentUnder
<1>15. ASSUME NEW j \in Nat, j # 0, SentUnder(s, e, j) PROVE j < i
  <2>1. SentUnder(q, e, j)
    BY <1>2, <1>3, <1>15 DEF Kept
  <2> QED BY <1>1, <1>3, <1>4, <1>5, <2>1 DEF SentUnder
<1> QED BY <1>3, <1>4, <1>5, <1>6, <1>10, <1>13, <1>14, <1>15 DEF z, i, q

\* The keys of an epoch within a window of m indices are at most m.
LEMMA WindowSize ==
  ASSUME NEW H, NEW e, NEW low \in Int, NEW m \in Nat,
         \A k \in H : k \in Nat \X Nat /\ k[1] = e /\ k[2] \in low .. (low + m - 1)
  PROVE  IsFiniteSet(H) /\ Cardinality(H) <= m
<1> DEFINE T == low .. (low + m - 1)
           f == [k \in H |-> k[2]]
<1>1. IsFiniteSet(T) /\ Cardinality(T) = m
  <2>1. low + m - 1 \in Int OBVIOUS
  <2>2. IsFiniteSet(T) /\ Cardinality(T) = IF low > low + m - 1 THEN 0 ELSE (low + m - 1) - low + 1
    BY <2>1, FS_Interval
  <2> QED BY <2>2
<1>2. \A k \in H : k[2] \in T
  OBVIOUS
<1>3. \A k, l \in H : k[2] = l[2] => k = l
  OBVIOUS
<1>4. f \in Injection(H, T)
  BY <1>2, <1>3 DEF Injection, IsInjective
<1> HIDE DEF T
<1> QED BY <1>1, <1>4, FS_Injection

\* H is a set of held keys within the limit: keys that s holds, and skipped ones.
HeldOK(s, e, i, H) ==
  /\ IsFiniteSet(H)
  /\ \A k \in H : \/ k \in s.MKSKIPPED
                  \/ k \in Nat \X Nat /\ k[1] = e /\ k[2] \in s.kdfChains[e].receive + 1 .. i - 1
  /\ \A x \in Nat : Cardinality({k \in H : k[1] = x}) < TrimSize

\* The keys that are held after the chain of epoch e went to index i.
LEMMA HoldSkippedOK ==
  ASSUME NEW n \in Nat, NEW s, SpqrOK(s, n), NEW e \in Nat, NEW i \in Nat,
         e \in DOMAIN s.kdfChains, s.kdfChains[e].receive < i
  PROVE  HeldOK(s, e, i, HoldSkipped(s, e, i))
<1> DEFINE r == s.kdfChains[e].receive
           old == {k \in s.MKSKIPPED : k[1] # e \/ i <= r + MaxOOOKeys}
           new == {<<e, j>> : j \in {x \in r + 1 .. i - 1 : x + MaxOOOKeys >= i}}
           K == old \cup new
           H == HoldSkipped(s, e, i)
           In(x) == {k \in H : k[1] = x}
<1>1. r \in Nat /\ MaxOOOKeys \in Nat /\ TrimSize \in Nat /\ MaxOOOKeys < TrimSize
  BY BraidAssumption, TrimSizeIsLarge DEF SpqrOK, ChainOK
<1>2. H = TrimEpoch(K, e, i)
  BY DEF HoldSkipped
<1>3. \A k \in new : k \in Nat \X Nat /\ k[1] = e /\ k[2] \in r + 1 .. i - 1
  BY <1>1
<1>4. \A k \in old : k \in s.MKSKIPPED
  OBVIOUS
<1>5. IsFiniteSet(K)
  <2>1. IsFiniteSet(old)
    BY <1>4, FS_Subset DEF SpqrOK
  <2>2. IsFiniteSet(new)
    <3> DEFINE w == IF i - r >= 1 THEN i - r ELSE 0
    <3>1. w \in Nat /\ r + 1 \in Int /\ (i - 1 <= (r + 1) + w - 1)
      BY <1>1
    <3> HIDE DEF w, new, r
    <3>2. \A k \in new : k \in Nat \X Nat /\ k[1] = e /\ k[2] \in r + 1 .. (r + 1) + w - 1
      BY <1>1, <1>3, <3>1
    <3> QED BY <3>1, <3>2, WindowSize
  <2> QED BY <2>1, <2>2, FS_Union
<1> HIDE DEF r, old, new, H
<1>6. H \subseteq K
  BY <1>2 DEF TrimEpoch
<1>7. IsFiniteSet(H)
  BY <1>5, <1>6, FS_Subset
<1>8. \A k \in H : k \in s.MKSKIPPED \/ (k \in Nat \X Nat /\ k[1] = e /\ k[2] \in r + 1 .. i - 1)
  BY <1>3, <1>4, <1>6
<1>9. ASSUME NEW x \in Nat, x # e PROVE Cardinality(In(x)) < TrimSize
  <2>1. In(x) \subseteq Held(s, x) /\ Held(s, x) \subseteq s.MKSKIPPED
    BY <1>8, <1>9 DEF Held
  <2>2. IsFiniteSet(Held(s, x))
    BY <2>1, FS_Subset DEF SpqrOK
  <2>3. IsFiniteSet(In(x)) /\ Cardinality(In(x)) <= Cardinality(Held(s, x))
    BY <2>1, <2>2, FS_Subset
  <2>4. Cardinality(In(x)) \in Nat /\ Cardinality(Held(s, x)) \in Nat
    BY <2>2, <2>3, FS_CardinalityType
  <2>5. Cardinality(Held(s, x)) < TrimSize
    BY DEF SpqrOK
  <2> QED BY <1>1, <2>3, <2>4, <2>5
<1>10. Cardinality(In(e)) < TrimSize
  <2>1. CASE Cardinality({k \in K : k[1] = e}) < TrimSize
    <3>1. H = K
      BY <1>2, <2>1 DEF TrimEpoch
    <3> QED BY <2>1, <3>1
  <2>2. CASE ~(Cardinality({k \in K : k[1] = e}) < TrimSize)
    <3>1. H = {k \in K : k[1] # e \/ k[2] + MaxOOOKeys >= i}
      BY <1>2, <2>2 DEF TrimEpoch
    <3>2. \A k \in In(e) : k \in Nat \X Nat /\ k[1] = e /\ k[2] <= i - 1 /\ k[2] + MaxOOOKeys >= i
      <4> SUFFICES ASSUME NEW k \in In(e)
                   PROVE  k \in Nat \X Nat /\ k[1] = e /\ k[2] <= i - 1 /\ k[2] + MaxOOOKeys >= i
        OBVIOUS
      <4>1. k \in H /\ k[1] = e /\ k[2] + MaxOOOKeys >= i
        BY <3>1
      <4>2. CASE k \in s.MKSKIPPED
        <5>1. k \in Nat \X Nat /\ k[2] <= r
          BY <4>1, <4>2 DEF SpqrOK, r
        <5> QED BY <1>1, <4>1, <5>1 DEF r
      <4>3. CASE k \in Nat \X Nat /\ k[1] = e /\ k[2] \in r + 1 .. i - 1
        BY <1>1, <4>1, <4>3
      <4> QED BY <1>8, <4>1, <4>2, <4>3
    <3> DEFINE low == i - MaxOOOKeys
               I == In(e)
    <3>3. low \in Int /\ \A k \in I : k \in Nat \X Nat /\ k[1] = e /\ k[2] \in low .. (low + MaxOOOKeys - 1)
      BY <1>1, <3>2
    <3> HIDE DEF low, I
    <3>4. IsFiniteSet(I) /\ Cardinality(I) <= MaxOOOKeys
      BY <1>1, <3>3, WindowSize
    <3>5. Cardinality(I) \in Nat
      BY <3>4, FS_CardinalityType
    <3> QED BY <1>1, <3>4, <3>5 DEF I
  <2> QED BY <2>1, <2>2
<1> QED BY <1>7, <1>8, <1>9, <1>10 DEF H, r, HeldOK

(* deriveSPQRReceiveKey(): the key that it returns is used up.             *)
LEMMA DeriveReceiveOK ==
  ASSUME NEW n \in Nat, NEW s, SpqrOK(s, n), NEW e \in Nat, NEW i \in Nat, NEW from,
         DeriveReceive(s, from, e, i).ok
  PROVE  LET z == DeriveReceive(s, from, e, i).spqr IN
         /\ SpqrOK(z, n) /\ Kept(s, z) /\ z.negotiated = s.negotiated
         /\ i # 0 /\ s.negotiated => UsedUp(z, e, i)
<1> DEFINE d == DeriveReceive(s, from, e, i)
           z == d.spqr
<1>0. s.negotiated \in BOOLEAN /\ MaxOOOKeys \in Nat
  BY BraidAssumption DEF SpqrOK
<1>1. CASE i = 0 \/ ~s.negotiated
  <2>1. z = s
    BY <1>1 DEF DeriveReceive, NoKeyYet
  <2>2. Kept(s, s)
    BY DEF Kept
  <2> QED BY <1>1, <2>1, <2>2
<1>2. CASE i > 0 /\ s.negotiated /\ Trimmed(s, e, i)
  <2>1. ~d.ok
    BY <1>2 DEF DeriveReceive, NoSuchKey
  <2> QED BY <2>1
<1>3. CASE i > 0 /\ s.negotiated /\ ~Trimmed(s, e, i) /\ <<e, i>> \in s.MKSKIPPED
  <2>1. z = [s EXCEPT !.MKSKIPPED = @ \ {<<e, i>>}]
    BY <1>3 DEF DeriveReceive
  <2> HIDE DEF z
  <2>2. /\ DOMAIN z = SpqrFields /\ z.epoch = s.epoch /\ z.RK = s.RK /\ z.sendEpoch = s.sendEpoch
        /\ z.negotiated = s.negotiated /\ z.kdfChains = s.kdfChains
        /\ z.MKSKIPPED = s.MKSKIPPED \ {<<e, i>>}
    BY <2>1 DEF SpqrOK, SpqrFields
  <2>3. IsFiniteSet(z.MKSKIPPED) /\ \A x \in Nat : Cardinality(Held(z, x)) < TrimSize
    BY <2>2, FewerHeld DEF SpqrOK
  <2>4. SpqrOK(z, n)
    BY <2>2, <2>3 DEF SpqrOK
  <2>5. Kept(s, z)
    BY <2>2 DEF Kept, SentUnder, UsedUp
  <2>6. UsedUp(z, e, i)
    <3>1. e \in DOMAIN s.kdfChains /\ i <= s.kdfChains[e].receive
      BY <1>3 DEF SpqrOK
    <3>2. e <= s.epoch
      BY <3>1 DEF SpqrOK
    <3> QED BY <2>2, <3>1, <3>2 DEF UsedUp
  <2> QED BY <2>2, <2>4, <2>5, <2>6 DEF z
<1>4. CASE i > 0 /\ s.negotiated /\ ~Trimmed(s, e, i) /\ <<e, i>> \notin s.MKSKIPPED
  <2>1. DerivableReceive(s, e, i) /\ z = [s EXCEPT !.kdfChains[e].receive = i, !.MKSKIPPED = HoldSkipped(s, e, i)]
    BY <1>4 DEF DeriveReceive, NoSuchKey
  <2> HIDE DEF z
  <2> DEFINE H == HoldSkipped(s, e, i)
             r == s.kdfChains[e].receive
             new == [s.kdfChains[e] EXCEPT !.receive = i]
  <2>2. e \in DOMAIN s.kdfChains /\ r < i /\ e <= s.epoch /\ ChainOK(e, s.kdfChains[e]) /\ r \in Nat
    BY <2>1 DEF DerivableReceive, SpqrOK, ChainOK
  <2>3. /\ IsFiniteSet(H)
        /\ \A k \in H : \/ k \in s.MKSKIPPED
                        \/ k \in Nat \X Nat /\ k[1] = e /\ k[2] \in r + 1 .. i - 1
        /\ \A x \in Nat : Cardinality({k \in H : k[1] = x}) < TrimSize
    <3>1. HeldOK(s, e, i, H)
      BY <2>2, HoldSkippedOK
    <3> QED BY <3>1 DEF HeldOK
  <2>4. /\ DOMAIN z = SpqrFields /\ z.epoch = s.epoch /\ z.RK = s.RK /\ z.sendEpoch = s.sendEpoch
        /\ z.negotiated = s.negotiated /\ z.MKSKIPPED = H
        /\ z.kdfChains = [s.kdfChains EXCEPT ![e] = new]
    <3> HIDE DEF H
    <3> QED BY <2>1 DEF SpqrOK, SpqrFields, H
  <2>5. ChainOK(e, new) /\ new.receive = i /\ new.send = s.kdfChains[e].send
    BY <2>2 DEF ChainOK, ChainFields
  <2> HIDE DEF H, new
  <2>6. /\ DOMAIN z.kdfChains = DOMAIN s.kdfChains /\ z.kdfChains[e] = new
        /\ \A x \in DOMAIN s.kdfChains : x # e => z.kdfChains[x] = s.kdfChains[x]
    BY <2>2, <2>4
  <2>7. \A x \in DOMAIN s.kdfChains :
          /\ ChainOK(x, z.kdfChains[x]) /\ z.kdfChains[x].send = s.kdfChains[x].send
          /\ z.kdfChains[x].receive >= s.kdfChains[x].receive
    BY <2>2, <2>5, <2>6 DEF SpqrOK, ChainOK
  <2>8. \A k \in z.MKSKIPPED :
          /\ k \in Nat \X Nat /\ k[1] \in DOMAIN z.kdfChains
          /\ k[2] <= z.kdfChains[k[1]].receive
    <3> SUFFICES ASSUME NEW k \in z.MKSKIPPED
                 PROVE  /\ k \in Nat \X Nat /\ k[1] \in DOMAIN z.kdfChains
                        /\ k[2] <= z.kdfChains[k[1]].receive
      OBVIOUS
    <3>1. CASE k \in s.MKSKIPPED
      <4>1. k \in Nat \X Nat /\ k[1] \in DOMAIN s.kdfChains /\ k[2] <= s.kdfChains[k[1]].receive
        BY <3>1 DEF SpqrOK
      <4>2. s.kdfChains[k[1]].receive \in Nat /\ z.kdfChains[k[1]].receive \in Nat
        BY <2>7, <4>1 DEF SpqrOK, ChainOK
      <4> QED BY <2>6, <2>7, <4>1, <4>2
    <3>2. CASE k \in Nat \X Nat /\ k[1] = e /\ k[2] \in r + 1 .. i - 1
      BY <2>2, <2>5, <2>6, <3>2
    <3> QED BY <2>3, <2>4, <3>1, <3>2
  <2>9. \A x \in Nat : Cardinality(Held(z, x)) < TrimSize
    BY <2>3, <2>4 DEF Held
  <2>10. SpqrOK(z, n)
    BY <2>3, <2>4, <2>6, <2>7, <2>8, <2>9 DEF SpqrOK
  <2>11. ASSUME NEW x \in Nat, NEW j \in Nat, j # 0, SentUnder(s, x, j) PROVE SentUnder(z, x, j)
    BY <2>4, <2>6, <2>7, <2>11 DEF SentUnder
  <2>12. ASSUME NEW x \in Nat, NEW j \in Nat, j # 0, UsedUp(s, x, j) PROVE UsedUp(z, x, j)
    <3>1. x \in DOMAIN s.kdfChains => j <= z.kdfChains[x].receive
      <4> SUFFICES ASSUME x \in DOMAIN s.kdfChains PROVE j <= z.kdfChains[x].receive
        OBVIOUS
      <4>1. s.kdfChains[x].receive \in Nat /\ z.kdfChains[x].receive \in Nat
        BY <2>7 DEF SpqrOK, ChainOK
      <4> QED BY <2>7, <2>12, <4>1 DEF UsedUp
    <3>2. <<x, j>> \notin H
      BY <2>2, <2>3, <2>12 DEF UsedUp
    <3> QED BY <2>4, <2>6, <2>12, <3>1, <3>2 DEF UsedUp
  <2>13. UsedUp(z, e, i)
    <3>1. <<e, i>> \notin H
      BY <1>4, <2>2, <2>3
    <3> QED BY <2>2, <2>4, <2>5, <2>6, <3>1 DEF UsedUp
  <2> QED BY <2>4, <2>10, <2>11, <2>12, <2>13 DEF Kept, z
<1> QED BY <1>0, <1>1, <1>2, <1>3, <1>4

\* A message that was decrypted cannot be decrypted again.
LEMMA UsedUpRefused ==
  ASSUME NEW n \in Nat, NEW s, SpqrOK(s, n), NEW e \in Nat, NEW i \in Nat, i # 0, NEW from,
         s.negotiated, UsedUp(s, e, i)
  PROVE  ~DeriveReceive(s, from, e, i).ok
<1>1. ~DerivableReceive(s, e, i)
  <2>1. ASSUME e \in DOMAIN s.kdfChains PROVE ~(s.kdfChains[e].receive < i)
    <3>1. s.kdfChains[e].receive \in Nat
      BY <2>1 DEF SpqrOK, ChainOK
    <3> QED BY <2>1, <3>1 DEF UsedUp
  <2> QED BY <2>1 DEF DerivableReceive
<1>2. CASE Trimmed(s, e, i)
  BY <1>2 DEF DeriveReceive, NoSuchKey
<1>3. CASE ~Trimmed(s, e, i)
  <2>1. <<e, i>> \notin s.MKSKIPPED
    BY DEF UsedUp
  <2> QED BY <1>1, <1>3, <2>1 DEF DeriveReceive, NoSuchKey
<1> QED BY <1>2, <1>3

\* The epochs that have a chain: those from one before the send epoch on.
ChainsKept(s) == DOMAIN s.kdfChains = {e \in 0 .. s.epoch : e + 1 >= s.sendEpoch}

\* Index i of epoch e, when the chain is past it, is held or below the horizon.
Available(s, e, i) ==
  e \in DOMAIN s.kdfChains /\ i <= s.kdfChains[e].receive =>
    <<e, i>> \in s.MKSKIPPED \/ i + MaxOOOKeys < s.kdfChains[e].receive

\* A step from s to z that opens the indices of used loses no other, and moves
\* a chain to no other.
Retains(s, z, used) ==
  /\ ChainsKept(s) => ChainsKept(z)
  /\ \A e, i \in Nat : i # 0 /\ <<e, i>> \notin used /\ Available(s, e, i) => Available(z, e, i)
  /\ \A e \in DOMAIN z.kdfChains :
       \/ z.kdfChains[e].receive = 0
       \/ <<e, z.kdfChains[e].receive>> \in used
       \/ e \in DOMAIN s.kdfChains /\ z.kdfChains[e].receive = s.kdfChains[e].receive

(* No step loses nothing.                                                  *)
LEMMA RetainsSame ==
  ASSUME NEW s, NEW z, NEW used, z.epoch = s.epoch, z.sendEpoch = s.sendEpoch,
         z.kdfChains = s.kdfChains, z.MKSKIPPED = s.MKSKIPPED
  PROVE  Retains(s, z, used)
  BY DEF Retains, ChainsKept, Available

(* A step that opens nothing, and one that opens an index.                 *)
LEMMA RetainsTransitive ==
  ASSUME NEW s, NEW t, NEW z, NEW used, Retains(s, t, {}), Retains(t, z, used)
  PROVE  Retains(s, z, used)
<1>1. ChainsKept(s) => ChainsKept(z)
  BY DEF Retains
<1>2. \A e, i \in Nat : i # 0 /\ <<e, i>> \notin used /\ Available(s, e, i) => Available(z, e, i)
  BY Zenon DEF Retains
<1>3. \A e \in DOMAIN z.kdfChains :
       \/ z.kdfChains[e].receive = 0
       \/ <<e, z.kdfChains[e].receive>> \in used
       \/ e \in DOMAIN s.kdfChains /\ z.kdfChains[e].receive = s.kdfChains[e].receive
  BY DEF Retains
<1> QED BY <1>1, <1>2, <1>3 DEF Retains

(* addSPQRBraidEpoch() adds a chain that has not moved.                    *)
LEMMA AddEpochRetains ==
  ASSUME NEW n \in Nat, NEW s, SpqrOK(s, n), NEW secret
  PROVE  Retains(s, AddEpoch(s, secret), {})
<1> DEFINE z == AddEpoch(s, secret)
           new == [InitialChains EXCEPT !.root = Append(s.RK, secret)]
<1>1. /\ z.epoch = n + 1 /\ z.sendEpoch = s.sendEpoch /\ z.MKSKIPPED = s.MKSKIPPED
      /\ z.kdfChains = [e \in DOMAIN s.kdfChains \cup {n + 1} |->
                          IF e = n + 1 THEN new ELSE s.kdfChains[e]]
  BY DEF AddEpoch, SpqrOK, SpqrFields
<1>2. new.receive = 0
  BY DEF InitialChains
<1> HIDE DEF z, new
<1>3. DOMAIN s.kdfChains \subseteq 0 .. n /\ s.sendEpoch \in 0 .. n /\ s.epoch = n
  BY DEF SpqrOK
<1>4. /\ DOMAIN z.kdfChains = DOMAIN s.kdfChains \cup {n + 1}
      /\ z.kdfChains[n + 1].receive = 0
      /\ \A e \in DOMAIN s.kdfChains : z.kdfChains[e] = s.kdfChains[e]
  BY <1>1, <1>2, <1>3
<1>5. ASSUME ChainsKept(s) PROVE ChainsKept(z)
  <2>1. \A e : e \in DOMAIN s.kdfChains <=> e \in 0 .. n /\ e + 1 >= s.sendEpoch
    BY <1>3, <1>5 DEF ChainsKept
  <2>2. \A e : e \in DOMAIN z.kdfChains <=> e \in 0 .. n + 1 /\ e + 1 >= s.sendEpoch
    BY <1>3, <1>4, <2>1
  <2> QED BY <1>1, <2>2 DEF ChainsKept
<1>6. ASSUME NEW e \in Nat, NEW i \in Nat, i # 0, Available(s, e, i) PROVE Available(z, e, i)
  BY <1>1, <1>4, <1>6 DEF Available
<1>7. \A e \in DOMAIN z.kdfChains :
        \/ z.kdfChains[e].receive = 0
        \/ e \in DOMAIN s.kdfChains /\ z.kdfChains[e].receive = s.kdfChains[e].receive
  BY <1>4
<1> QED BY <1>5, <1>6, <1>7 DEF Retains, z

(* The pruning of deriveSPQRSendKey() drops the chains of the epochs below *)
(* the one before the send epoch, with their keys, and no key of another.  *)
LEMMA PruneRetains ==
  ASSUME NEW n \in Nat, NEW s, SpqrOK(s, n), NEW e \in 0 .. n
  PROVE  Retains(s, Prune(s, e), {})
<1> DEFINE z == Prune(s, e)
<1>1. n \in Nat /\ s.sendEpoch \in 0 .. n /\ DOMAIN s.kdfChains \subseteq 0 .. n /\ s.epoch = n
  BY DEF SpqrOK
<1>2. CASE e <= s.sendEpoch
  <2>1. z = s
    BY <1>2 DEF Prune
  <2> QED BY <2>1, RetainsSame
<1>3. CASE ~(e <= s.sendEpoch)
  <2> DEFINE D == {y \in DOMAIN s.kdfChains : y + 1 >= e}
  <2>1. /\ z.epoch = s.epoch /\ z.sendEpoch = e
        /\ z.MKSKIPPED = {k \in s.MKSKIPPED : k[1] + 1 >= e}
        /\ z.kdfChains = [x \in D |-> IF x < e THEN [s.kdfChains[x] EXCEPT !.send = NoValue]
                                               ELSE s.kdfChains[x]]
    BY <1>3 DEF Prune, SpqrOK, SpqrFields
  <2> HIDE DEF z
  <2>2. DOMAIN z.kdfChains = D /\ D \subseteq DOMAIN s.kdfChains
    BY <2>1
  <2>3. \A x \in D : z.kdfChains[x].receive = s.kdfChains[x].receive
    <3> SUFFICES ASSUME NEW x \in D PROVE z.kdfChains[x].receive = s.kdfChains[x].receive
      OBVIOUS
    <3>1. ChainOK(x, s.kdfChains[x])
      BY DEF SpqrOK
    <3> QED BY <2>1, <3>1 DEF ChainOK, ChainFields
  <2>4. ASSUME ChainsKept(s) PROVE ChainsKept(z)
    <3>1. \A x : x \in DOMAIN s.kdfChains <=> x \in 0 .. n /\ x + 1 >= s.sendEpoch
      BY <1>1, <2>4 DEF ChainsKept
    <3>2. \A x : x \in DOMAIN z.kdfChains <=> x \in 0 .. n /\ x + 1 >= e
      BY <1>1, <1>3, <2>2, <3>1
    <3> QED BY <1>1, <2>1, <3>2 DEF ChainsKept
  <2>5. ASSUME NEW x \in Nat, NEW i \in Nat, i # 0, Available(s, x, i) PROVE Available(z, x, i)
    <3>1. x \in D /\ <<x, i>> \in s.MKSKIPPED => <<x, i>> \in z.MKSKIPPED
      BY <2>1
    <3> QED BY <2>2, <2>3, <2>5, <3>1 DEF Available
  <2> QED BY <2>2, <2>3, <2>4, <2>5 DEF Retains, z
<1> QED BY <1>2, <1>3

(* deriveSPQRSendKey() moves no receive chain.                             *)
LEMMA AfterDeriveSendRetains ==
  ASSUME NEW n \in Nat, NEW s, SpqrOK(s, n), NEW e \in 0 .. n, CanDeriveSend(s, e)
  PROVE  Retains(s, AfterDeriveSend(s, e), {})
<1> DEFINE q == Prune(s, e)
           z == AfterDeriveSend(s, e)
           new == [q.kdfChains[e] EXCEPT !.send = @ + 1]
<1>1. e \in DOMAIN s.kdfChains
  BY DEF CanDeriveSend
<1>2. SpqrOK(q, n) /\ e \in DOMAIN q.kdfChains
  BY <1>1, PruneOK
<1>3. Retains(s, q, {})
  BY PruneRetains
<1>4. z = [q EXCEPT !.kdfChains[e].send = @ + 1]
  BY DEF AfterDeriveSend
<1> HIDE DEF q, z
<1>5. ChainOK(e, q.kdfChains[e])
  BY <1>2 DEF SpqrOK
<1>6. /\ z.epoch = q.epoch /\ z.sendEpoch = q.sendEpoch /\ z.MKSKIPPED = q.MKSKIPPED
      /\ z.kdfChains = [q.kdfChains EXCEPT ![e] = new]
  BY <1>2, <1>4 DEF SpqrOK, SpqrFields
<1>7. new.receive = q.kdfChains[e].receive
  BY <1>5 DEF ChainOK, ChainFields
<1> HIDE DEF new
<1>8. /\ DOMAIN z.kdfChains = DOMAIN q.kdfChains
      /\ \A x \in DOMAIN q.kdfChains : z.kdfChains[x].receive = q.kdfChains[x].receive
  BY <1>2, <1>6, <1>7
<1>9. Retains(q, z, {})
  BY <1>6, <1>8 DEF Retains, ChainsKept, Available
<1> QED BY <1>3, <1>9, RetainsTransitive DEF z

(* When the chain of epoch e goes to index i, a key that it passed is held *)
(* or below the horizon, and so is a key that was held.                    *)
LEMMA HoldSkippedRetains ==
  ASSUME NEW n \in Nat, NEW s, SpqrOK(s, n), NEW e \in Nat, NEW i \in Nat,
         e \in DOMAIN s.kdfChains, s.kdfChains[e].receive < i,
         NEW x \in Nat, NEW j \in Nat, j # 0, <<x, j>> # <<e, i>>, Available(s, x, j)
  PROVE  /\ x # e /\ <<x, j>> \in s.MKSKIPPED => <<x, j>> \in HoldSkipped(s, e, i)
         /\ x = e /\ j <= i => <<x, j>> \in HoldSkipped(s, e, i) \/ j + MaxOOOKeys < i
<1> DEFINE r == s.kdfChains[e].receive
           old == {k \in s.MKSKIPPED : k[1] # e \/ i <= r + MaxOOOKeys}
           new == {<<e, y>> : y \in {w \in r + 1 .. i - 1 : w + MaxOOOKeys >= i}}
           K == old \cup new
           H == HoldSkipped(s, e, i)
<1>1. r \in Nat /\ MaxOOOKeys \in Nat
  BY BraidAssumption DEF SpqrOK, ChainOK
<1>2. H = TrimEpoch(K, e, i)
  BY DEF HoldSkipped
<1>3. x # e /\ <<x, j>> \in s.MKSKIPPED => <<x, j>> \in K
  OBVIOUS
<1>4. x = e /\ j <= i => <<x, j>> \in K \/ j + MaxOOOKeys < i
  <2> SUFFICES ASSUME x = e, j <= i, ~(j + MaxOOOKeys < i) PROVE <<x, j>> \in K
    OBVIOUS
  <2>1. j < i
    OBVIOUS
  <2>2. CASE j <= r
    <3>1. <<e, j>> \in s.MKSKIPPED
      BY <1>1, <2>2 DEF Available
    <3>2. i <= r + MaxOOOKeys
      BY <1>1, <2>2
    <3> QED BY <3>1, <3>2
  <2>3. CASE ~(j <= r)
    <3>1. j \in {w \in r + 1 .. i - 1 : w + MaxOOOKeys >= i}
      BY <1>1, <2>1, <2>3
    <3> QED BY <3>1
  <2> QED BY <2>2, <2>3
<1> HIDE DEF K
<1>5. <<x, j>> \in K /\ (x # e \/ j + MaxOOOKeys >= i) => <<x, j>> \in TrimEpoch(K, e, i)
  BY DEF TrimEpoch
<1> QED BY <1>1, <1>2, <1>3, <1>4, <1>5

(* deriveSPQRReceiveKey() opens one index and loses no other within the    *)
(* horizon.                                                                *)
LEMMA DeriveReceiveRetains ==
  ASSUME NEW n \in Nat, NEW s, SpqrOK(s, n), NEW e \in Nat, NEW i \in Nat, NEW from,
         DeriveReceive(s, from, e, i).ok
  PROVE  Retains(s, DeriveReceive(s, from, e, i).spqr, {<<e, i>>})
<1> DEFINE d == DeriveReceive(s, from, e, i)
           z == d.spqr
<1>0. s.negotiated \in BOOLEAN /\ MaxOOOKeys \in Nat
  BY BraidAssumption DEF SpqrOK
<1>1. CASE i = 0 \/ ~s.negotiated
  <2>1. z = s
    BY <1>1 DEF DeriveReceive, NoKeyYet
  <2> QED BY <2>1, RetainsSame
<1>2. CASE i > 0 /\ s.negotiated /\ Trimmed(s, e, i)
  <2>1. ~d.ok
    BY <1>2 DEF DeriveReceive, NoSuchKey
  <2> QED BY <2>1
<1>3. CASE i > 0 /\ s.negotiated /\ ~Trimmed(s, e, i) /\ <<e, i>> \in s.MKSKIPPED
  <2>1. z = [s EXCEPT !.MKSKIPPED = @ \ {<<e, i>>}]
    BY <1>3 DEF DeriveReceive
  <2> HIDE DEF z
  <2>2. /\ z.epoch = s.epoch /\ z.sendEpoch = s.sendEpoch /\ z.kdfChains = s.kdfChains
        /\ z.MKSKIPPED = s.MKSKIPPED \ {<<e, i>>}
    BY <2>1 DEF SpqrOK, SpqrFields
  <2>3. ASSUME NEW x \in Nat, NEW j \in Nat, <<x, j>> \notin {<<e, i>>}, Available(s, x, j)
        PROVE  Available(z, x, j)
    BY <2>2, <2>3 DEF Available
  <2>4. ChainsKept(s) => ChainsKept(z)
    BY <2>2 DEF ChainsKept
  <2> QED BY <2>2, <2>3, <2>4 DEF Retains, z
<1>4. CASE i > 0 /\ s.negotiated /\ ~Trimmed(s, e, i) /\ <<e, i>> \notin s.MKSKIPPED
  <2>1. DerivableReceive(s, e, i) /\ z = [s EXCEPT !.kdfChains[e].receive = i, !.MKSKIPPED = HoldSkipped(s, e, i)]
    BY <1>4 DEF DeriveReceive, NoSuchKey
  <2> HIDE DEF z
  <2> DEFINE H == HoldSkipped(s, e, i)
             r == s.kdfChains[e].receive
             new == [s.kdfChains[e] EXCEPT !.receive = i]
  <2>2. e \in DOMAIN s.kdfChains /\ r < i /\ ChainOK(e, s.kdfChains[e]) /\ r \in Nat
    BY <2>1 DEF DerivableReceive, SpqrOK, ChainOK
  <2>4. /\ z.epoch = s.epoch /\ z.sendEpoch = s.sendEpoch /\ z.MKSKIPPED = H
        /\ z.kdfChains = [s.kdfChains EXCEPT ![e] = new]
    <3> HIDE DEF H
    <3> QED BY <2>1 DEF SpqrOK, SpqrFields, H
  <2>5. new.receive = i
    BY <2>2 DEF ChainOK, ChainFields
  <2> HIDE DEF H, new
  <2>6. /\ DOMAIN z.kdfChains = DOMAIN s.kdfChains /\ z.kdfChains[e].receive = i
        /\ \A x \in DOMAIN s.kdfChains : x # e => z.kdfChains[x] = s.kdfChains[x]
    BY <2>2, <2>4, <2>5
  <2>7. ASSUME NEW x \in Nat, NEW j \in Nat, j # 0, <<x, j>> \notin {<<e, i>>}, Available(s, x, j)
        PROVE  Available(z, x, j)
    <3>1. /\ x # e /\ <<x, j>> \in s.MKSKIPPED => <<x, j>> \in H
          /\ x = e /\ j <= i => <<x, j>> \in H \/ j + MaxOOOKeys < i
      BY <2>2, <2>7, HoldSkippedRetains DEF H
    <3>2. CASE x = e
      BY <2>4, <2>6, <3>1, <3>2 DEF Available
    <3>3. CASE x # e
      BY <2>4, <2>6, <2>7, <3>1, <3>3 DEF Available
    <3> QED BY <3>2, <3>3
  <2>8. ChainsKept(s) => ChainsKept(z)
    BY <2>4, <2>6 DEF ChainsKept
  <2>9. \A x \in DOMAIN z.kdfChains :
          \/ <<x, z.kdfChains[x].receive>> \in {<<e, i>>}
          \/ x \in DOMAIN s.kdfChains /\ z.kdfChains[x].receive = s.kdfChains[x].receive
    BY <2>6
  <2> QED BY <2>7, <2>8, <2>9 DEF Retains, z
<1> QED BY <1>0, <1>1, <1>2, <1>3, <1>4

-----------------------------------------------------------------------------
(* The messages.                                                           *)

(* What Append makes of a sequence of any elements.                        *)
LEMMA AppendToSeq ==
  ASSUME NEW q, IsSeq(q), NEW m
  PROVE  /\ IsSeq(Append(q, m))
         /\ Len(q) \in Nat /\ DOMAIN q = 1 .. Len(q) /\ DOMAIN Append(q, m) = 1 .. Len(q) + 1
         /\ Append(q, m)[Len(q) + 1] = m
         /\ \A i \in DOMAIN q : Append(q, m)[i] = q[i]
<1> DEFINE S == {q[i] : i \in DOMAIN q} \cup {m}
           r == Append(q, m)
<1>1. q \in Seq(S)
  <2>1. q \in Seq({q[i] : i \in DOMAIN q})
    BY DEF IsSeq
  <2> HIDE DEF S
  <2>2. {q[i] : i \in DOMAIN q} \subseteq S
    BY DEF S
  <2> DEFINE T == {q[i] : i \in DOMAIN q}
  <2> HIDE DEF T
  <2>3. q \in Seq(T) /\ T \subseteq S
    BY <2>1, <2>2 DEF T
  <2> QED BY <2>3
<1>2. m \in S
  OBVIOUS
<1> HIDE DEF S
<1>3. /\ r \in Seq(S) /\ Len(r) = Len(q) + 1 /\ r[Len(q) + 1] = m
      /\ \A i \in 1 .. Len(q) : r[i] = q[i]
  BY <1>1, <1>2, AppendProperties
<1>4. Len(q) \in Nat /\ DOMAIN q = 1 .. Len(q) /\ DOMAIN r = 1 .. Len(r) /\ r \in [1 .. Len(r) -> S]
  BY <1>1, <1>3, LenProperties
<1> HIDE DEF r
<1>5. IsSeq(r)
  <2> DEFINE T == {r[i] : i \in DOMAIN r}
  <2>1. \A i \in 1 .. Len(r) : r[i] \in T
    BY <1>4
  <2>2. r = [i \in 1 .. Len(r) |-> r[i]]
    BY <1>4
  <2> HIDE DEF T
  <2>3. [i \in 1 .. Len(r) |-> r[i]] \in [1 .. Len(r) -> T]
    BY <2>1
  <2>4. r \in [1 .. Len(r) -> T]
    BY <2>2, <2>3, Zenon
  <2>5. Len(r) \in Nat
    BY <1>3, <1>4
  <2>6. r \in Seq(T)
    BY <2>4, <2>5
  <2> QED BY <2>6 DEF IsSeq, T
<1> QED BY <1>3, <1>4, <1>5 DEF r

(* The messages that a party sent are well formed in its later states,     *)
(* too.                                                                    *)
LEMMA SentKept ==
  ASSUME NEW p, NEW a, NEW z, AgentOK(p, a), AgentOK(p, z), Later(a, z),
         NEW s, NEW t, Kept(s, t), NEW q, SentOK(p, a, s, q)
  PROVE  SentOK(p, z, t, q)
<1> SUFFICES ASSUME NEW i \in DOMAIN q
             PROVE  ChunkOK(p, z, q[i].chunk) /\ SendOK(p, t, q[i])
  BY DEF SentOK
<1>1. ChunkOK(p, a, q[i].chunk) /\ SendOK(p, s, q[i])
  BY DEF SentOK
<1>2. ChunkOK(p, z, q[i].chunk)
  BY <1>1, OldChunks
<1>3. InternalEpoch(q[i].chunk.epoch) \in Nat
  <2>1. q[i].chunk.epoch \in 1 .. a.epoch /\ a.epoch \in Nat
    BY <1>1 DEF ChunkOK, AgentOK
  <2> QED BY <2>1 DEF InternalEpoch
<1>4. SendOK(p, t, q[i])
  BY <1>1, <1>3 DEF SendOK, Kept
<1> QED BY <1>2, <1>4

(* One more message, with a key of its own.                                *)
LEMMA SentAppend ==
  ASSUME NEW p, NEW a, NEW s, NEW q, SentOK(p, a, s, q), NEW m, ChunkOK(p, a, m.chunk), SendOK(p, s, m),
         \A i \in DOMAIN q : q[i].index # 0 /\ m.index # 0 =>
            q[i].chunk.epoch # m.chunk.epoch \/ q[i].index # m.index
  PROVE  SentOK(p, a, s, Append(q, m))
<1> DEFINE r == Append(q, m)
<1>1. /\ IsSeq(r) /\ Len(q) \in Nat /\ DOMAIN q = 1 .. Len(q) /\ DOMAIN r = 1 .. Len(q) + 1
      /\ r[Len(q) + 1] = m
      /\ \A i \in DOMAIN q : r[i] = q[i]
  BY AppendToSeq DEF SentOK
<1> HIDE DEF r
<1>2. \A i \in DOMAIN r : (i \in DOMAIN q /\ r[i] = q[i]) \/ (i = Len(q) + 1 /\ r[i] = m)
  BY <1>1
<1>3. KeysDiffer(r)
  BY <1>2 DEF KeysDiffer, SentOK
<1>4. \A i \in DOMAIN r : ChunkOK(p, a, r[i].chunk) /\ SendOK(p, s, r[i])
  BY <1>2 DEF SentOK
<1> QED BY <1>1, <1>3, <1>4 DEF SentOK, r

(* The messages that a party received stay used up.                        *)
LEMMA ReceivedKept ==
  ASSUME NEW a, NEW z, NEW s, NEW t, Kept(s, t), s.negotiated => t.negotiated,
         NEW rcvd, ReceivedOK(a, s, rcvd), rcvd = {} => z.state \in Untouched
  PROVE  ReceivedOK(z, t, rcvd)
<1>1. ASSUME NEW m \in rcvd, m.index # 0
      PROVE  UsedUp(t, InternalEpoch(m.chunk.epoch), m.index)
  <2>1. m.index \in Nat /\ m.chunk.epoch \in Nat \ {0} /\ UsedUp(s, InternalEpoch(m.chunk.epoch), m.index)
    BY <1>1 DEF ReceivedOK
  <2>2. InternalEpoch(m.chunk.epoch) \in Nat
    BY <2>1 DEF InternalEpoch
  <2> QED BY <1>1, <2>1, <2>2 DEF Kept
<1> QED BY <1>1 DEF ReceivedOK

(* Steps compose.                                                          *)
LEMMA KeptTransitive ==
  ASSUME NEW s, NEW t, NEW z, Kept(s, t), Kept(t, z)
  PROVE  Kept(s, z)
  BY DEF Kept

\* The secret that the braid puts out, when it puts one out.
LEMMA AddIfAnyOK ==
  ASSUME NEW n \in Nat, NEW s, SpqrOK(s, n), NEW secret, NEW k,
         (secret = NoValue /\ k = n) \/ (secret = EpochSecret(n + 1) /\ k = n + 1)
  PROVE  /\ SpqrOK(AddIfAny(s, secret), k) /\ Kept(s, AddIfAny(s, secret))
         /\ AddIfAny(s, secret).negotiated = s.negotiated
         /\ Retains(s, AddIfAny(s, secret), {})
<1>1. CASE secret = NoValue
  <2>1. AddIfAny(s, secret) = s
    BY <1>1 DEF AddIfAny
  <2>4. Retains(s, s, {})
    BY RetainsSame
  <2>2. n + 1 \in Nat
    OBVIOUS
  <2>3. k = n
    BY <1>1, <2>2, SecretIsValue
  <2> QED BY <2>1, <2>3, <2>4 DEF Kept
<1>2. CASE secret # NoValue
  <2>1. Retains(s, AddEpoch(s, secret), {})
    BY AddEpochRetains
  <2> QED BY <1>2, <2>1, AddEpochOK DEF AddIfAny
<1> QED BY <1>1, <1>2

(* The first message settles the version.                                  *)
LEMMA NegotiatedOK ==
  ASSUME NEW n \in Nat, NEW s, SpqrOK(s, n)
  PROVE  LET z == [s EXCEPT !.negotiated = TRUE] IN
         SpqrOK(z, n) /\ Kept(s, z) /\ z.negotiated = TRUE /\ Retains(s, z, {})
<1> DEFINE z == [s EXCEPT !.negotiated = TRUE]
<1>1. /\ DOMAIN z = SpqrFields /\ z.epoch = s.epoch /\ z.RK = s.RK /\ z.sendEpoch = s.sendEpoch
      /\ z.negotiated = TRUE /\ z.kdfChains = s.kdfChains /\ z.MKSKIPPED = s.MKSKIPPED
  BY DEF SpqrOK, SpqrFields
<1> HIDE DEF z
<1>2. \A x \in Nat : Held(z, x) = Held(s, x)
  BY <1>1 DEF Held
<1>3. SpqrOK(z, n)
  BY <1>1, <1>2 DEF SpqrOK
<1>4. Kept(s, z)
  BY <1>1 DEF Kept, SentUnder, UsedUp
<1>5. Retains(s, z, {})
  BY <1>1, RetainsSame
<1> QED BY <1>1, <1>3, <1>4, <1>5 DEF z

(* The number of the secrets that an agent knows is its epoch or one less. *)
LEMMA KnownType ==
  ASSUME NEW p, NEW a, AgentOK(p, a)
  PROVE  Known(a) \in Nat /\ Known(a) \in {a.epoch - 1, a.epoch} /\ a.epoch \in Nat \ {0}
  BY DEF AgentOK, Known

-----------------------------------------------------------------------------
(* The steps.                                                              *)

(* Being in step is symmetric.                                             *)
LEMMA PairSymmetric ==
  ASSUME NEW p \in Parties, NEW a, NEW b, Pair(p, a, b)
  PROVE  Pair(Peer(p), b, a)
<1>1. Peer(Peer(p)) = p
  BY RolesSwap
<1> QED BY <1>1 DEF Pair

\* A step of one party, which leaves the other in step with it.
LEMMA PartyStep ==
  ASSUME IInv, NEW p \in Parties,
         NEW a, NEW s, NEW q, NEW rcvd,
         Pair(p, a, agent[Peer(p)]), PartyOK(p, a, s, q, rcvd),
         agent' = [agent EXCEPT ![p] = a], spqr' = [spqr EXCEPT ![p] = s],
         sent' = [sent EXCEPT ![p] = q], received' = [received EXCEPT ![p] = rcvd]
  PROVE  IInv'
<1>1. ByParty(agent') /\ ByParty(spqr') /\ ByParty(sent') /\ ByParty(received')
  <2>1. \A f, v : ByParty(f) => ByParty([f EXCEPT ![p] = v])
    BY DEF ByParty
  <2> QED BY <2>1, Zenon DEF IInv
<1>2. Peer(p) \in Parties /\ Peer(p) # p /\ Peer(Peer(p)) = p /\ Parties = {p, Peer(p)}
  BY RolesSwap DEF Parties, Peer
<1>3. /\ agent'[p] = a /\ spqr'[p] = s /\ sent'[p] = q /\ received'[p] = rcvd
      /\ agent'[Peer(p)] = agent[Peer(p)] /\ spqr'[Peer(p)] = spqr[Peer(p)]
      /\ sent'[Peer(p)] = sent[Peer(p)] /\ received'[Peer(p)] = received[Peer(p)]
  BY <1>2 DEF IInv, ByParty
<1>4. Pair(p, agent'[p], agent'[Peer(p)]) /\ PartyOK(p, agent'[p], spqr'[p], sent'[p], received'[p])
  BY <1>3
<1>5. Pair(Peer(p), agent'[Peer(p)], agent'[p])
  BY <1>4, PairSymmetric
<1>6. PartyOK(Peer(p), agent'[Peer(p)], spqr'[Peer(p)], sent'[Peer(p)], received'[Peer(p)])
  BY <1>2, <1>3 DEF IInv
<1>7. \A x \in Parties : /\ Pair(x, agent'[x], agent'[Peer(x)])
                         /\ PartyOK(x, agent'[x], spqr'[x], sent'[x], received'[x])
  BY <1>2, <1>4, <1>5, <1>6
<1> QED BY <1>1, <1>7 DEF IInv

\* Index i of epoch e is above those that were used.
Above(s, e, i) == \A j \in Nat : j # 0 /\ SentUnder(s, e, j) => j < i

\* What spqrSend() makes of the chains, and the message.
SendKeyResult(p, s, z, o, q, m, n) ==
  /\ SpqrOK(z, n) /\ Kept(s, z) /\ z.negotiated = s.negotiated
  /\ SendOK(p, z, m) /\ m.chunk = o.chunk
  /\ \A i \in DOMAIN q : q[i].index # 0 /\ m.index # 0 =>
       q[i].chunk.epoch # m.chunk.epoch \/ q[i].index # m.index
  /\ Retains(s, z, {})
  /\ m.index # 0 => Above(s, InternalEpoch(m.chunk.epoch), m.index)

(* spqrSend(): the chunk of the braid and a key that encrypted no message  *)
(* before.                                                                 *)
LEMMA SendOutcomeOK ==
  ASSUME IInv, NEW p \in Parties, SendOutcome(p).ok
  PROVE  LET o == BraidSend(p, agent[p])
             r == SendOutcome(p)
         IN  /\ r.agent = o.agent
             /\ SendKeyResult(p, spqr[p], r.spqr, o, sent[p], r.message, Known(o.agent))
<1> DEFINE a == agent[p]
           s == spqr[p]
           q == sent[p]
           o == BraidSend(p, a)
           t == AddIfAny(s, o.secret)
           e == SendEpoch(o.chunk, t)
           r == SendOutcome(p)
           m == r.message
           n == Known(o.agent)
           i == SendIndex(Prune(t, e), e)
<1>1. AgentOK(p, a) /\ SpqrOK(s, Known(a)) /\ SentOK(p, a, s, q)
  BY DEF IInv, Pair, PartyOK
<1>2. SendResult(p, a, o)
  BY <1>1, BraidSendOK
<1>3. AgentOK(p, o.agent) /\ o.agent.epoch = a.epoch /\ o.chunk.epoch = a.epoch
  BY <1>2 DEF SendResult
<1>4. /\ Known(a) \in Nat /\ n \in Nat /\ a.epoch \in Nat \ {0}
      /\ n \in {a.epoch - 1, a.epoch}
  BY <1>1, <1>3, KnownType
<1>5. e \in 0 .. n /\ o.chunk.epoch = e + 1 /\ e = InternalEpoch(o.chunk.epoch)
  BY <1>3, <1>4 DEF SendEpoch, InternalEpoch
<1>6. (o.secret = NoValue /\ n = Known(a)) \/ (o.secret = EpochSecret(Known(a) + 1) /\ n = Known(a) + 1)
  BY <1>2, <1>4 DEF SendResult
<1>7. r.ok = (~t.negotiated \/ CanDeriveSend(t, e)) /\ r.agent = o.agent
      /\ r.spqr = (IF t.negotiated THEN AfterDeriveSend(t, e) ELSE t)
  BY DEF SendOutcome
<1>8. /\ m.from = p /\ m.chunk = o.chunk
      /\ m.index = (IF t.negotiated THEN i ELSE 0)
      /\ m.key = (IF t.negotiated THEN MessageKey(t.kdfChains[e].root, p, i) ELSE NoValue)
  BY DEF SendOutcome
<1> HIDE DEF a, s, q, o, t, e, r, m, n, i
<1>9. SpqrOK(t, n) /\ Kept(s, t) /\ t.negotiated = s.negotiated /\ Retains(s, t, {})
  BY <1>1, <1>4, <1>6, AddIfAnyOK DEF t
<1>10. t.negotiated \in BOOLEAN
  BY <1>9 DEF SpqrOK
<1>11. CASE ~t.negotiated
  <2>1. r.spqr = t /\ m.index = 0 /\ m.key = NoValue
    BY <1>7, <1>8, <1>11
  <2>2. SendOK(p, t, m)
    BY <1>8, <2>1 DEF SendOK
  <2>3. SendKeyResult(p, s, r.spqr, o, q, m, n)
    BY <1>8, <1>9, <2>1, <2>2 DEF SendKeyResult, Above
  <2> QED BY <1>7, <2>3 DEF a, s, q, o, r, m, n
<1>12. CASE t.negotiated
  <2>1. r.spqr = AfterDeriveSend(t, e) /\ m.index = i /\ m.key = MessageKey(t.kdfChains[e].root, p, i)
    BY <1>7, <1>8, <1>12
  <2>2. CanDeriveSend(t, e)
    <3>1. r.ok
      BY DEF r
    <3> QED BY <1>7, <1>12, <3>1
  <2> DEFINE z == AfterDeriveSend(t, e)
  <2>3. /\ SpqrOK(z, n) /\ Kept(t, z) /\ z.negotiated = t.negotiated
        /\ i \in Nat \ {0} /\ SentUnder(z, e, i)
        /\ \A j \in Nat : j # 0 /\ SentUnder(t, e, j) => j < i
    BY <1>4, <1>5, <1>9, <2>2, AfterDeriveSendOK DEF i
  <2> HIDE DEF z
  <2>4. Kept(s, z)
    BY <1>9, <2>3, KeptTransitive
  <2>5. t.kdfChains[e].root = Roots(e)
    BY <1>9, <2>2 DEF CanDeriveSend, SpqrOK, ChainOK
  <2>6. SendOK(p, z, m)
    BY <1>5, <1>8, <2>1, <2>3, <2>5 DEF SendOK
  <2>7. ASSUME NEW x \in DOMAIN q, q[x].index # 0, q[x].chunk.epoch = m.chunk.epoch
        PROVE  q[x].index # m.index
    <3>1. SendOK(p, s, q[x])
      BY <1>1 DEF SentOK
    <3>2. q[x].index \in Nat /\ SentUnder(s, e, q[x].index)
      BY <1>5, <1>8, <2>7, <3>1 DEF SendOK
    <3>3. SentUnder(t, e, q[x].index)
      BY <1>4, <1>5, <1>9, <2>7, <3>2 DEF Kept
    <3> QED BY <2>1, <2>3, <2>7, <3>2, <3>3
  <2>8. Above(s, e, i)
    <3> SUFFICES ASSUME NEW j \in Nat, j # 0, SentUnder(s, e, j) PROVE j < i
      BY DEF Above
    <3>1. SentUnder(t, e, j)
      BY <1>4, <1>5, <1>9 DEF Kept
    <3> QED BY <2>3, <3>1
  <2>9. Retains(t, AfterDeriveSend(t, e), {})
    BY <1>4, <1>5, <1>9, <2>2, AfterDeriveSendRetains
  <2>10. Retains(s, z, {})
    BY <1>9, <2>9, RetainsTransitive DEF z
  <2>11. SendKeyResult(p, s, r.spqr, o, q, m, n)
    BY <1>5, <1>8, <1>9, <2>1, <2>3, <2>4, <2>6, <2>7, <2>8, <2>10 DEF SendKeyResult, z
  <2> QED BY <1>7, <2>11 DEF a, s, q, o, r, m, n
<1> QED BY <1>10, <1>11, <1>12

(* encrypt() preserves the invariant.                                      *)
LEMMA EncryptStep ==
  ASSUME IInv, NEW p \in Parties, Encrypt(p)
  PROVE  IInv'
<1> DEFINE a == agent[p]
           s == spqr[p]
           q == sent[p]
           o == BraidSend(p, a)
           r == SendOutcome(p)
           m == r.message
<1>1. /\ r.ok
      /\ agent' = [agent EXCEPT ![p] = r.agent]
      /\ spqr' = [spqr EXCEPT ![p] = r.spqr]
      /\ sent' = [sent EXCEPT ![p] = Append(q, m)]
      /\ received' = received
      /\ p = Responder => received[p] # {}
  BY DEF Encrypt
<1>2. /\ Pair(p, a, agent[Peer(p)]) /\ AgentOK(p, a)
      /\ SpqrOK(s, Known(a)) /\ SentOK(p, a, s, q) /\ ReceivedOK(a, s, received[p])
  BY DEF IInv, Pair, PartyOK
<1>3. SendResult(p, a, o) /\ Sending(a, o.agent)
  BY <1>2, BraidSendOK
<1>4. r.agent = o.agent /\ SendKeyResult(p, s, r.spqr, o, q, m, Known(o.agent))
  BY <1>1, SendOutcomeOK
<1> HIDE DEF a, s, q, o, r, m
<1>5. AgentOK(p, o.agent) /\ Later(a, o.agent) /\ ChunkOK(p, o.agent, o.chunk)
      /\ (a.state \in Untouched => o.agent.state \in Untouched)
  BY <1>3 DEF SendResult
<1>6. /\ SpqrOK(r.spqr, Known(o.agent)) /\ Kept(s, r.spqr) /\ r.spqr.negotiated = s.negotiated
      /\ SendOK(p, r.spqr, m) /\ m.chunk = o.chunk
      /\ \A i \in DOMAIN q : q[i].index # 0 /\ m.index # 0 =>
           q[i].chunk.epoch # m.chunk.epoch \/ q[i].index # m.index
  BY <1>4 DEF SendKeyResult
<1>7. Pair(p, o.agent, agent[Peer(p)])
  BY <1>2, <1>3, <1>5, SendingKeepsPair
<1>8. SentOK(p, o.agent, r.spqr, q)
  BY <1>2, <1>5, <1>6, SentKept
<1>9. SentOK(p, o.agent, r.spqr, Append(q, m))
  BY <1>5, <1>6, <1>8, SentAppend
<1>10. ReceivedOK(o.agent, r.spqr, received[p])
  <2>1. received[p] = {} => o.agent.state \in Untouched
    BY <1>2, <1>5 DEF ReceivedOK
  <2> QED BY <1>2, <1>6, <2>1, ReceivedKept
<1>11. PartyOK(p, r.agent, r.spqr, Append(q, m), received[p])
  BY <1>4, <1>6, <1>9, <1>10 DEF PartyOK
<1>12. received' = [received EXCEPT ![p] = received[p]]
  BY <1>1 DEF IInv, ByParty
<1> QED BY <1>1, <1>4, <1>7, <1>11, <1>12, PartyStep

\* A message under way has a chunk that the peer sent.
LEMMA InTransitOK ==
  ASSUME IInv, NEW p \in Parties, NEW m \in InTransit(p)
  PROVE  /\ ChunkOK(Peer(p), agent[Peer(p)], m.chunk) /\ m.index \in Nat
         /\ m.chunk.epoch \in Nat \ {0} /\ InternalEpoch(m.chunk.epoch) \in Nat
<1>1. PICK i \in DOMAIN sent[Peer(p)] : m = sent[Peer(p)][i]
  BY DEF InTransit
<1>2. Peer(p) \in Parties
  BY RolesSwap
<1>3. SentOK(Peer(p), agent[Peer(p)], spqr[Peer(p)], sent[Peer(p)]) /\ AgentOK(Peer(p), agent[Peer(p)])
  BY <1>2 DEF IInv, PartyOK, Pair
<1>4. ChunkOK(Peer(p), agent[Peer(p)], m.chunk) /\ SendOK(Peer(p), spqr[Peer(p)], m)
  BY <1>1, <1>3 DEF SentOK
<1>5. m.chunk.epoch \in Nat \ {0}
  BY <1>3, <1>4 DEF ChunkOK, AgentOK
<1> QED BY <1>4, <1>5 DEF SendOK, InternalEpoch

\* What a decrypted message makes of agent and chains.
DecryptResult(p, a, b, s, z, t, m) ==
  /\ Pair(p, z, b) /\ Later(a, z)
  /\ SpqrOK(t, Known(z)) /\ Kept(s, t) /\ t.negotiated = TRUE
  /\ m.index # 0 => UsedUp(t, InternalEpoch(m.chunk.epoch), m.index)
  /\ Retains(s, t, {<<InternalEpoch(m.chunk.epoch), m.index>>})

(* spqrRecv() of a message under way.                                      *)
LEMMA RecvOutcomeOK ==
  ASSUME IInv, NEW p \in Parties, NEW m \in InTransit(p), RecvOutcome(p, m).ok
  PROVE  DecryptResult(p, agent[p], agent[Peer(p)], spqr[p],
                       RecvOutcome(p, m).agent, RecvOutcome(p, m).spqr, m)
<1> DEFINE a == agent[p]
           b == agent[Peer(p)]
           s == spqr[p]
           o == IF m.chunk.type = "None" THEN Absorbed(a) ELSE BraidReceive(a, m.chunk)
           u == [s EXCEPT !.negotiated = TRUE]
           t == AddIfAny(u, o.secret)
           e == InternalEpoch(m.chunk.epoch)
           i == m.index
           d == DeriveReceive(t, m.from, e, i)
           r == RecvOutcome(p, m)
           n == Known(o.agent)
<1>1. Pair(p, a, b) /\ AgentOK(p, a) /\ SpqrOK(s, Known(a))
  BY DEF IInv, Pair, PartyOK
<1>2. ChunkOK(Peer(p), b, m.chunk) /\ i \in Nat /\ e \in Nat
  BY InTransitOK
<1>3. ReceiveResult(p, a, b, o)
  <2>1. CASE m.chunk.type = "None"
    <3>1. ReceiveResult(p, a, b, Absorbed(a))
      BY <1>1, IgnoredOK
    <3> QED BY <2>1, <3>1
  <2>2. CASE m.chunk.type # "None"
    <3>1. ReceiveResult(p, a, b, BraidReceive(a, m.chunk))
      BY <1>1, <1>2, <2>2, BraidReceiveOK
    <3> QED BY <2>2, <3>1
  <2> QED BY <2>1, <2>2
<1>4. r.ok = (o.ok /\ d.ok) /\ r.agent = o.agent /\ r.spqr = d.spqr
  BY DEF RecvOutcome
<1> HIDE DEF a, b, s, o, t, e, i, d, r, n
<1>5. Pair(p, o.agent, b) /\ Later(a, o.agent) /\ AgentOK(p, o.agent)
  BY <1>3 DEF ReceiveResult, Pair
<1>6. Known(a) \in Nat /\ n \in Nat /\ a.epoch \in Nat \ {0}
  BY <1>1, <1>5, KnownType DEF n
<1>7. (o.secret = NoValue /\ n = Known(a)) \/ (o.secret = EpochSecret(Known(a) + 1) /\ n = Known(a) + 1)
  BY <1>3, <1>6 DEF ReceiveResult, n
<1>8. SpqrOK(u, Known(a)) /\ Kept(s, u) /\ u.negotiated = TRUE /\ Retains(s, u, {})
  BY <1>1, <1>6, NegotiatedOK
<1> HIDE DEF u
<1>9. SpqrOK(t, n) /\ Kept(u, t) /\ t.negotiated = TRUE /\ Retains(u, t, {})
  BY <1>6, <1>7, <1>8, AddIfAnyOK DEF t
<1>10. d.ok
  <2>1. r.ok
    BY DEF r
  <2> QED BY <1>4, <2>1
<1>11. /\ SpqrOK(d.spqr, n) /\ Kept(t, d.spqr) /\ d.spqr.negotiated = t.negotiated
       /\ i # 0 /\ t.negotiated => UsedUp(d.spqr, e, i)
  BY <1>2, <1>6, <1>9, <1>10, DeriveReceiveOK DEF d
<1>12. Kept(s, d.spqr)
  BY <1>8, <1>9, <1>11, KeptTransitive
<1>13. Retains(s, d.spqr, {<<e, i>>})
  <2>1. Retains(s, t, {})
    BY <1>8, <1>9, RetainsTransitive
  <2>2. Retains(t, d.spqr, {<<e, i>>})
    BY <1>2, <1>6, <1>9, <1>10, DeriveReceiveRetains DEF d
  <2> QED BY <2>1, <2>2, RetainsTransitive
<1>14. DecryptResult(p, a, b, s, r.agent, r.spqr, m)
  BY <1>4, <1>5, <1>9, <1>11, <1>12, <1>13 DEF DecryptResult, n, e, i
<1> QED BY <1>14 DEF a, b, s, r

(* trySkippedMessageKeys() of a message that another has overtaken.        *)
LEMMA LateOutcomeOK ==
  ASSUME IInv, NEW p \in Parties, NEW m \in InTransit(p), LateOutcome(p, m).ok, received[p] # {}
  PROVE  DecryptResult(p, agent[p], agent[Peer(p)], spqr[p],
                       LateOutcome(p, m).agent, LateOutcome(p, m).spqr, m)
<1> DEFINE a == agent[p]
           b == agent[Peer(p)]
           s == spqr[p]
           e == InternalEpoch(m.chunk.epoch)
           i == m.index
           d == DeriveReceive(s, m.from, e, i)
           r == LateOutcome(p, m)
<1>1. /\ Pair(p, a, b) /\ AgentOK(p, a) /\ SpqrOK(s, Known(a))
      /\ s.negotiated
  BY DEF IInv, Pair, PartyOK, ReceivedOK
<1>2. i \in Nat /\ e \in Nat
  BY InTransitOK
<1>3. d.ok /\ r.agent = a /\ r.spqr = d.spqr
  BY DEF LateOutcome
<1> HIDE DEF a, b, s, e, i, d, r
<1>4. s.negotiated = TRUE
  BY <1>1 DEF SpqrOK
<1>5. Known(a) \in Nat
  BY <1>1, KnownType
<1>6. /\ SpqrOK(d.spqr, Known(a)) /\ Kept(s, d.spqr) /\ d.spqr.negotiated = s.negotiated
      /\ i # 0 /\ s.negotiated => UsedUp(d.spqr, e, i)
  BY <1>1, <1>2, <1>3, <1>5, DeriveReceiveOK DEF d
<1>7. Later(a, a)
  <2>1. ReceiveResult(p, a, b, Absorbed(a))
    BY <1>1, IgnoredOK
  <2> QED BY <2>1 DEF ReceiveResult, Absorbed
<1>8. Retains(s, d.spqr, {<<e, i>>})
  BY <1>1, <1>2, <1>3, <1>5, DeriveReceiveRetains DEF d
<1>9. DecryptResult(p, a, b, s, r.agent, r.spqr, m)
  BY <1>1, <1>3, <1>4, <1>6, <1>7, <1>8 DEF DecryptResult, e, i
<1> QED BY <1>9 DEF a, b, s, r

(* In either way.                                                          *)
LEMMA DecryptOutcomeOK ==
  ASSUME IInv, NEW p \in Parties, NEW m \in InTransit(p), DecryptOutcome(p, m).ok
  PROVE  DecryptResult(p, agent[p], agent[Peer(p)], spqr[p],
                       DecryptOutcome(p, m).agent, DecryptOutcome(p, m).spqr, m)
<1>1. CASE Overtaken(p, m)
  <2>1. DecryptOutcome(p, m) = LateOutcome(p, m) /\ received[p] # {}
    BY <1>1 DEF DecryptOutcome, Overtaken
  <2> QED BY <2>1, LateOutcomeOK
<1>2. CASE ~Overtaken(p, m)
  <2>1. DecryptOutcome(p, m) = RecvOutcome(p, m)
    BY <1>2 DEF DecryptOutcome
  <2> QED BY <2>1, RecvOutcomeOK
<1> QED BY <1>1, <1>2

(* decrypt() preserves the invariant.                                      *)
LEMMA DecryptStep ==
  ASSUME IInv, NEW p \in Parties, Decrypt(p)
  PROVE  IInv'
<1>1. PICK m \in InTransit(p) :
        /\ DecryptOutcome(p, m).ok
        /\ agent' = [agent EXCEPT ![p] = DecryptOutcome(p, m).agent]
        /\ spqr' = [spqr EXCEPT ![p] = DecryptOutcome(p, m).spqr]
        /\ received' = [received EXCEPT ![p] = @ \cup {m}]
        /\ UNCHANGED sent
  BY DEF Decrypt
<1> DEFINE a == agent[p]
           b == agent[Peer(p)]
           s == spqr[p]
           o == DecryptOutcome(p, m)
           R == received[p] \cup {m}
<1>2. DecryptResult(p, a, b, s, o.agent, o.spqr, m)
  BY <1>1, DecryptOutcomeOK
<1>3. /\ AgentOK(p, a) /\ SentOK(p, a, s, sent[p]) /\ ReceivedOK(a, s, received[p])
  BY DEF IInv, Pair, PartyOK
<1>4. m.index \in Nat /\ m.chunk.epoch \in Nat \ {0}
  BY InTransitOK
<1>5. /\ agent' = [agent EXCEPT ![p] = o.agent] /\ spqr' = [spqr EXCEPT ![p] = o.spqr]
      /\ received' = [received EXCEPT ![p] = R] /\ sent' = [sent EXCEPT ![p] = sent[p]]
  BY <1>1 DEF IInv, ByParty
<1>6. R # {} /\ \A x \in R : x \in received[p] \/ x = m
  OBVIOUS
<1> HIDE DEF a, b, s, o, R
<1>7. /\ Pair(p, o.agent, b) /\ AgentOK(p, o.agent) /\ Later(a, o.agent)
      /\ SpqrOK(o.spqr, Known(o.agent)) /\ Kept(s, o.spqr) /\ o.spqr.negotiated = TRUE
      /\ m.index # 0 => UsedUp(o.spqr, InternalEpoch(m.chunk.epoch), m.index)
  BY <1>2 DEF DecryptResult, Pair
<1>8. SentOK(p, o.agent, o.spqr, sent[p])
  BY <1>3, <1>7, SentKept
<1>9. ReceivedOK(o.agent, o.spqr, R)
  <2>1. ASSUME NEW x \in R
        PROVE  /\ x.index \in Nat /\ x.chunk.epoch \in Nat \ {0}
               /\ x.index # 0 => UsedUp(o.spqr, InternalEpoch(x.chunk.epoch), x.index)
    <3>1. CASE x = m
      BY <1>4, <1>7, <3>1
    <3>2. CASE x \in received[p]
      <4>1. /\ x.index \in Nat /\ x.chunk.epoch \in Nat \ {0}
            /\ x.index # 0 => UsedUp(s, InternalEpoch(x.chunk.epoch), x.index)
        BY <1>3, <3>2 DEF ReceivedOK
      <4>2. InternalEpoch(x.chunk.epoch) \in Nat
        BY <4>1 DEF InternalEpoch
      <4> QED BY <1>7, <4>1, <4>2 DEF Kept
    <3> QED BY <1>6, <3>1, <3>2
  <2> QED BY <1>6, <1>7, <2>1 DEF ReceivedOK
<1>10. PartyOK(p, o.agent, o.spqr, sent[p], R)
  BY <1>7, <1>8, <1>9 DEF PartyOK
<1> QED BY <1>5, <1>7, <1>10, PartyStep DEF b

(* A new session satisfies the invariant.                                  *)
LEMMA InitOK ==
  ASSUME Init
  PROVE  IInv
<1>1. Initiator # Responder /\ Parties = {Initiator, Responder}
      /\ Peer(Initiator) = Responder /\ Peer(Responder) = Initiator
  BY BraidAssumption DEF Parties, Peer
<1>2. AliceOf(1) = Initiator /\ BobOf(1) = Responder
  BY <1>1 DEF AliceOf, BobOf
<1>3. <<>> = Roots(0)
  BY DEF Roots
<1> DEFINE a == FreshAgent("KeysUnsampled", 1, Roots(0))
           b == FreshAgent("NoHeaderReceived", 1, Roots(0))
<1>4. agent = [p \in Parties |-> IF p = Initiator THEN a ELSE b]
  BY <1>3 DEF Init
<1>5. /\ a.epoch = 1 /\ a.state = "KeysUnsampled" /\ \A c \in Components : a.chunks[c] = {}
      /\ b.epoch = 1 /\ b.state = "NoHeaderReceived" /\ \A c \in Components : b.chunks[c] = {}
  BY DEF FreshAgent
<1>6. AgentOK(Initiator, a) /\ AgentOK(Responder, b) /\ Known(a) = 0 /\ Known(b) = 0
  <2>1. 1 \in Nat \ {0} /\ 1 - 1 = 0
    OBVIOUS
  <2> QED BY <1>2, <2>1, FreshOK
<1> HIDE DEF a, b
<1>7. Pair(Initiator, a, b)
  <2>1. InStep(a, b)
    BY <1>5 DEF InStep
  <2>2. PairOK(a, b)
    BY <1>5, <2>1 DEF PairOK
  <2>3. PairOK(b, a)
    BY <1>5 DEF PairOK, AliceStates
  <2> QED BY <1>1, <1>6, <2>2, <2>3 DEF Pair
<1>8. Pair(Responder, b, a)
  BY <1>1, <1>7, PairSymmetric
<1>9. SpqrOK(InitialSpqr, 0)
  <2> DEFINE s == InitialSpqr
  <2>1. /\ DOMAIN s = SpqrFields /\ s.epoch = 0 /\ s.RK = Roots(0) /\ s.sendEpoch = 0
        /\ s.negotiated = FALSE /\ s.MKSKIPPED = {} /\ DOMAIN s.kdfChains = {0}
        /\ s.kdfChains[0] = InitialChains
    BY <1>3 DEF InitialSpqr, SpqrFields
  <2>2. ChainOK(0, InitialChains)
    BY <1>3 DEF ChainOK, InitialChains, ChainFields
  <2> HIDE DEF s
  <2>3. \A e \in Nat : Held(s, e) = {}
    BY <2>1 DEF Held
  <2>4. \A e \in Nat : Cardinality(Held(s, e)) < TrimSize
    BY <2>3, FS_EmptySet, TrimSizeIsLarge, BraidAssumption
  <2>5. IsFiniteSet(s.MKSKIPPED)
    BY <2>1, FS_EmptySet
  <2>6. SpqrOK(s, 0)
    <3>1. \A e \in DOMAIN s.kdfChains : ChainOK(e, s.kdfChains[e])
      BY <2>1, <2>2
    <3>2. \A k \in s.MKSKIPPED :
            /\ k \in Nat \X Nat /\ k[1] \in DOMAIN s.kdfChains
            /\ k[2] <= s.kdfChains[k[1]].receive
      BY <2>1
    <3>3. DOMAIN s.kdfChains \subseteq 0 .. s.epoch /\ s.sendEpoch \in 0 .. s.epoch
      BY <2>1
    <3> QED BY <2>1, <2>4, <2>5, <3>1, <3>2, <3>3, Zenon DEF SpqrOK
  <2> QED BY <2>6 DEF s
<1>10. ASSUME NEW p, NEW x PROVE SentOK(p, x, InitialSpqr, <<>>)
  <2>1. IsSeq(<<>>) /\ DOMAIN <<>> = {}
    BY DEF IsSeq
  <2> QED BY <2>1 DEF SentOK, KeysDiffer
<1>11. ReceivedOK(a, InitialSpqr, {}) /\ ReceivedOK(b, InitialSpqr, {})
  BY <1>5 DEF ReceivedOK, Untouched
<1>12. PartyOK(Initiator, a, InitialSpqr, <<>>, {}) /\ PartyOK(Responder, b, InitialSpqr, <<>>, {})
  BY <1>6, <1>9, <1>10, <1>11 DEF PartyOK
<1>13. /\ agent[Initiator] = a /\ agent[Responder] = b
       /\ \A p \in Parties : spqr[p] = InitialSpqr /\ sent[p] = <<>> /\ received[p] = {}
  BY <1>1, <1>4 DEF Init
<1>14. ByParty(agent) /\ ByParty(spqr) /\ ByParty(sent) /\ ByParty(received)
  BY DEF Init, ByParty
<1> QED BY <1>1, <1>7, <1>8, <1>12, <1>13, <1>14 DEF IInv

(* Every state that sends, losses and deliveries in any order can reach    *)
(* satisfies the invariant.                                                *)
THEOREM Invariance == Spec => []IInv
<1>1. Init => IInv
  BY InitOK
<1>2. IInv /\ [Next]_vars => IInv'
  <2> SUFFICES ASSUME IInv, [Next]_vars PROVE IInv'
    OBVIOUS
  <2>1. CASE Next
    <3>1. PICK p \in Parties : Encrypt(p) \/ Decrypt(p)
      BY <2>1 DEF Next
    <3> QED BY <3>1, EncryptStep, DecryptStep
  <2>2. CASE UNCHANGED vars
    BY <2>2 DEF vars, IInv
  <2> QED BY <2>1, <2>2
<1> QED BY <1>1, <1>2, PTL DEF Spec

-----------------------------------------------------------------------------
(* The properties.                                                         *)

(* The roots of two epochs: one extends the other.                         *)
LEMMA RootsPrefix ==
  ASSUME NEW m \in Nat, NEW n \in Nat
  PROVE  Len(Roots(m)) = m /\ (n <= m => SubSeq(Roots(m), 1, n) = Roots(n))
<1>1. Len(Roots(m)) = m
  BY DEF Roots
<1>2. ASSUME n <= m PROVE SubSeq(Roots(m), 1, n) = Roots(n)
  <2> DEFINE S == {EpochSecret(k) : k \in Nat}
             R == Roots(m)
  <2>1. R \in Seq(S) /\ \A k \in 1 .. m : R[k] = EpochSecret(k)
    BY DEF Roots
  <2>2. Len(R) = m
    BY <1>1
  <2> HIDE DEF S, R
  <2>3. SubSeq(R, 1, n) = [k \in 1 .. n |-> R[k]]
    BY <1>2, <2>1, <2>2
  <2>4. [k \in 1 .. n |-> R[k]] = [k \in 1 .. n |-> EpochSecret(k)]
    BY <1>2, <2>1
  <2> QED BY <2>3, <2>4 DEF Roots, R
<1> QED BY <1>1, <1>2

(* Neither agent knows two secrets more than the other.                    *)
LEMMA KnownClose ==
  ASSUME NEW p, NEW a, NEW b, Pair(p, a, b)
  PROVE  Known(a) \in Nat /\ Known(b) \in Nat /\ Known(b) <= Known(a) + 1
<1>1. /\ Known(a) \in Nat /\ Known(a) \in {a.epoch - 1, a.epoch} /\ a.epoch \in Nat \ {0}
      /\ Known(b) \in Nat /\ Known(b) \in {b.epoch - 1, b.epoch} /\ b.epoch \in Nat \ {0}
  BY KnownType DEF Pair
<1>2. b.epoch > a.epoch => b.epoch = a.epoch + 1 /\ b.state = "NoHeaderReceived" /\ a.state = "Ct2Sampled"
  BY DEF Pair, PairOK
<1>3. b.epoch > a.epoch => Known(b) = b.epoch - 1
  BY <1>2 DEF Known, SampledStates
<1> QED BY <1>1, <1>2, <1>3

(* The invariant implies each of the properties.                           *)
LEMMA SecretsAgreeNow ==
  ASSUME IInv
  PROVE  SecretsAgree
<1> SUFFICES ASSUME NEW p \in Parties, Len(spqr[p].RK) <= Len(spqr[Peer(p)].RK)
             PROVE  /\ Len(spqr[Peer(p)].RK) <= Len(spqr[p].RK) + 1
                    /\ SubSeq(spqr[Peer(p)].RK, 1, Len(spqr[p].RK)) = spqr[p].RK
  BY DEF SecretsAgree
<1> DEFINE n == Known(agent[p])
           m == Known(agent[Peer(p)])
<1>1. Peer(p) \in Parties
  BY RolesSwap
<1>2. spqr[p].RK = Roots(n) /\ spqr[Peer(p)].RK = Roots(m)
  BY <1>1 DEF IInv, PartyOK, SpqrOK
<1>3. n \in Nat /\ m \in Nat /\ m <= n + 1
  BY KnownClose DEF IInv
<1> HIDE DEF n, m
<1>4. Len(Roots(n)) = n /\ Len(Roots(m)) = m
  BY <1>3, RootsPrefix
<1>5. n <= m
  BY <1>2, <1>4
<1>6. SubSeq(Roots(m), 1, n) = Roots(n)
  BY <1>3, <1>5, RootsPrefix
<1> QED BY <1>2, <1>3, <1>4, <1>6

(* Two messages with one key would have one root and one index; a received *)
(* message is used up.                                                     *)
LEMMA KeysUsedOnceNow ==
  ASSUME IInv
  PROVE  KeysUsedOnce
<1>1. ASSUME NEW p \in Parties, NEW i \in DOMAIN sent[p], NEW j \in DOMAIN sent[p],
             sent[p][i].key = sent[p][j].key, i # j
      PROVE  sent[p][i].key = NoValue
  <2> DEFINE q == sent[p]
             x == q[i]
             y == q[j]
             e == InternalEpoch(x.chunk.epoch)
             f == InternalEpoch(y.chunk.epoch)
  <2>1. AgentOK(p, agent[p]) /\ SentOK(p, agent[p], spqr[p], q)
    BY DEF IInv, PartyOK, Pair
  <2>2. /\ ChunkOK(p, agent[p], x.chunk) /\ SendOK(p, spqr[p], x)
        /\ ChunkOK(p, agent[p], y.chunk) /\ SendOK(p, spqr[p], y)
    BY <2>1 DEF SentOK
  <2>3. CASE x.index = 0 \/ y.index = 0
    BY <1>1, <2>2, <2>3 DEF SendOK
  <2>4. CASE x.index # 0 /\ y.index # 0
    <3>1. x.chunk.epoch # y.chunk.epoch \/ x.index # y.index
      BY <1>1, <2>1, <2>4 DEF SentOK, KeysDiffer
    <3>2. <<Roots(e), p, x.index>> = <<Roots(f), p, y.index>>
      BY <1>1, <2>2, <2>4 DEF SendOK, MessageKey
    <3>3. x.chunk.epoch \in Nat \ {0} /\ y.chunk.epoch \in Nat \ {0}
      BY <2>1, <2>2 DEF ChunkOK, AgentOK
    <3>4. e \in Nat /\ f \in Nat /\ x.chunk.epoch = e + 1 /\ y.chunk.epoch = f + 1
      BY <3>3 DEF InternalEpoch
    <3> HIDE DEF e, f, x, y
    <3>5. Roots(e) = Roots(f) /\ x.index = y.index
      BY <3>2
    <3>6. Len(Roots(e)) = e /\ Len(Roots(f)) = f
      BY <3>4, RootsPrefix
    <3>7. e = f
      BY <3>5, <3>6
    <3> QED BY <3>1, <3>4, <3>5, <3>7
  <2> QED BY <2>3, <2>4
<1>2. ASSUME NEW p \in Parties, NEW m \in received[p], m.index > 0
      PROVE  ~DeriveReceive(spqr[p], m.from, InternalEpoch(m.chunk.epoch), m.index).ok
  <2>1. /\ AgentOK(p, agent[p]) /\ SpqrOK(spqr[p], Known(agent[p]))
        /\ spqr[p].negotiated
        /\ m.index \in Nat /\ m.chunk.epoch \in Nat \ {0}
        /\ m.index # 0 => UsedUp(spqr[p], InternalEpoch(m.chunk.epoch), m.index)
    BY DEF IInv, Pair, PartyOK, ReceivedOK
  <2>2. InternalEpoch(m.chunk.epoch) \in Nat /\ m.index # 0
    BY <1>2, <2>1 DEF InternalEpoch
  <2>3. Known(agent[p]) \in Nat
    BY <2>1, KnownType
  <2> QED BY <2>1, <2>2, <2>3, UsedUpRefused
<1> QED BY <1>1, <1>2 DEF KeysUsedOnce

(* The bound is part of the invariant.                                     *)
LEMMA HeldKeysBoundedNow ==
  ASSUME IInv
  PROVE  HeldKeysBounded
<1> SUFFICES ASSUME NEW p \in Parties, NEW e \in 0 .. spqr[p].epoch
             PROVE  LET held == {k \in spqr[p].MKSKIPPED : k[1] = e} IN
                    /\ Cardinality(held) < TrimSize
                    /\ held # {} => e \in DOMAIN spqr[p].kdfChains
  BY DEF HeldKeysBounded
<1>1. SpqrOK(spqr[p], Known(agent[p]))
  BY DEF IInv, PartyOK
<1>2. e \in Nat
  OBVIOUS
<1> QED BY <1>1, <1>2 DEF SpqrOK, Held

\* No chunk under way is refused by the state machine of the party that it reaches.
ChunksTaken ==
  \A p \in Parties : \A m \in InTransit(p) :
    m.chunk.type # "None" => BraidReceive(agent[p], m.chunk).ok

(* Every chunk under way is canonical, and the agents are in step.         *)
LEMMA ChunksTakenNow ==
  ASSUME IInv
  PROVE  ChunksTaken
<1> SUFFICES ASSUME NEW p \in Parties, NEW m \in InTransit(p), m.chunk.type # "None"
             PROVE  BraidReceive(agent[p], m.chunk).ok
  BY DEF ChunksTaken
<1>1. Pair(p, agent[p], agent[Peer(p)]) /\ ChunkOK(Peer(p), agent[Peer(p)], m.chunk)
  BY InTransitOK DEF IInv
<1>2. ReceiveResult(p, agent[p], agent[Peer(p)], BraidReceive(agent[p], m.chunk))
  BY <1>1, BraidReceiveOK
<1> QED BY <1>2 DEF ReceiveResult

(* Whatever chunks are lost, late or overtaken, the chains of the two      *)
(* sides grow from the same secrets in the same order, and neither side is *)
(* two epochs ahead.                                                       *)
THEOREM SecretsAlwaysAgree == Spec => []SecretsAgree
  BY Invariance, SecretsAgreeNow, PTL

(* deriveSPQRSendKey() gives no key to two messages, through epoch changes *)
(* and pruning, and deriveSPQRReceiveKey() returns none twice.             *)
THEOREM KeysAreUsedOnce == Spec => []KeysUsedOnce
  BY Invariance, KeysUsedOnceNow, PTL

(* For every limit maxOutOfOrderKeys, fewer than TrimSize keys of an epoch *)
(* are held at any time, and none of an epoch whose chain was pruned.      *)
THEOREM HeldKeysStayBounded == Spec => []HeldKeysBounded
  BY Invariance, HeldKeysBoundedNow, PTL

(* The state machine of a party never throws on a chunk that the peer      *)
(* sent: no epoch is ahead of it, no payload conflicts, every MAC and the  *)
(* key hash verify.                                                        *)
THEOREM ChunksAreTaken == Spec => []ChunksTaken
  BY Invariance, ChunksTakenNow, PTL

-----------------------------------------------------------------------------
(* The first epoch.                                                        *)

\* k is a chunk of component c that the agent b does not have.
NewChunk(b, c, k) ==
  /\ k.epoch = b.epoch /\ k.index \in Nat /\ k.data = Canonical(c, b.epoch)
  /\ \A x \in b.chunks[c] : x[1] < k.index

(* A chunk that is new changes the decoder, and is not refused.            *)
LEMMA NewChunkAdded ==
  ASSUME NEW q, NEW b, AgentOK(q, b), NEW c \in Components, NEW k, NewChunk(b, c, k)
  PROVE  AddChunk(b, c, k).chunks # b.chunks /\ ~Conflicts(b, c, k)
<1> DEFINE y == <<k.index, k.data>>
           z == AddChunk(b, c, k)
<1>1. z.chunks = [b.chunks EXCEPT ![c] = @ \cup {y}] /\ DOMAIN b.chunks = Components
  BY DEF AddChunk, AgentOK, AgentFields
<1>2. y[1] = k.index /\ k.index \in Nat
  BY DEF NewChunk
<1> HIDE DEF y, z
<1>3. y \in z.chunks[c] /\ y \notin b.chunks[c]
  BY <1>1, <1>2 DEF NewChunk
<1>4. ~Conflicts(b, c, k)
  BY NoConflict DEF NewChunk
<1> QED BY <1>3, <1>4 DEF z

(* A new header chunk moves a Bob without header.                          *)
LEMMA HeaderMoves ==
  ASSUME NEW q, NEW b, AgentOK(q, b), b.state = "NoHeaderReceived", NEW k, NewChunk(b, "Hdr", k), k.type = "Hdr"
  PROVE  BraidReceive(b, k).agent # b
<1> DEFINE y == AddChunk(b, "Hdr", k)
           z == [y EXCEPT !.state = "HeaderReceived", !.ek = k.data[4]]
<1>1. "Hdr" \in Components /\ b.state \notin AliceStates
  BY DEF Components, AliceStates
<1>2. y.chunks # b.chunks /\ ~Conflicts(b, "Hdr", k)
  BY <1>1, NewChunkAdded
<1>3. b.epoch \in Nat /\ k.epoch = b.epoch
  BY DEF AgentOK, NewChunk
<1>4. BraidReceive(b, k) = ReceiveHeader(b, k)
  BY <1>1, <1>2, <1>3 DEF BraidReceive, ReceiveBob
<1>5. b.auth = Roots(b.epoch - 1)
  BY DEF AgentOK, Known, SampledStates
<1>6. k.data = Mac(b.auth, k.epoch, k.data[4])
  BY <1>3, <1>5 DEF NewChunk, Canonical, Mac
<1>7. z.chunks = y.chunks
  BY DEF AddChunk, AgentOK, AgentFields
<1> HIDE DEF z, y
<1>8. ReceiveHeader(b, k).agent \in {y, z}
  <2>1. CASE Complete(y, "Hdr")
    <3>1. ReceiveHeader(b, k) = Absorbed(z)
      BY <1>6, <2>1 DEF ReceiveHeader, y, z
    <3> QED BY <3>1 DEF Absorbed
  <2>2. CASE ~Complete(y, "Hdr")
    <3>1. ReceiveHeader(b, k) = Absorbed(y)
      BY <2>2 DEF ReceiveHeader, y
    <3> QED BY <3>1 DEF Absorbed
  <2> QED BY <2>1, <2>2
<1> QED BY <1>2, <1>4, <1>7, <1>8

(* A new ct1 chunk moves an Alice who waits for ct1.                       *)
LEMMA Ct1Moves ==
  ASSUME NEW q, NEW a, AgentOK(q, a), a.state \in {"KeysSampled", "HeaderSent"}, NEW k, NewChunk(a, "Ct1", k), k.type = "Ct1"
  PROVE  BraidReceive(a, k).agent # a
<1> DEFINE y == AddChunk(a, "Ct1", k)
<1>1. "Ct1" \in Components /\ a.state \in AliceStates
  BY DEF Components, AliceStates
<1>2. y.chunks # a.chunks /\ ~Conflicts(a, "Ct1", k)
  BY <1>1, NewChunkAdded
<1>3. a.epoch \in Nat /\ k.epoch = a.epoch
  BY DEF AgentOK, NewChunk
<1>4. BraidReceive(a, k) = Absorbed(ReceiveCt1(a, k))
  BY <1>1, <1>2, <1>3 DEF BraidReceive, ReceiveAlice
<1>5. ReceiveCt1(a, k).chunks = y.chunks
  BY DEF ReceiveCt1, AddChunk, AgentOK, AgentFields
<1> HIDE DEF y
<1> QED BY <1>2, <1>4, <1>5 DEF Absorbed

(* A new ct2 chunk moves an Alice who has ct1.                             *)
LEMMA Ct2Moves ==
  ASSUME NEW q, NEW a, AgentOK(q, a), a.state \in {"Ct1Received", "EkSentCt1Received"}, NEW k, NewChunk(a, "Ct2", k), k.type = "Ct2"
  PROVE  BraidReceive(a, k).agent # a
<1> DEFINE y == AddChunk(a, "Ct2", k)
           z == [y EXCEPT !.state = "EkSentCt1Received"]
           auth == Append(a.auth, a.ct1)
           f == FreshAgent("NoHeaderReceived", a.epoch + 1, auth)
<1>1. "Ct2" \in Components /\ a.state \in AliceStates
  BY DEF Components, AliceStates
<1>2. y.chunks # a.chunks /\ ~Conflicts(a, "Ct2", k)
  BY <1>1, NewChunkAdded
<1>3. a.epoch \in Nat \ {0} /\ k.epoch = a.epoch
  BY DEF AgentOK, NewChunk
<1>4. BraidReceive(a, k) = ReceiveCt2(a, k)
  BY <1>1, <1>2, <1>3 DEF BraidReceive, ReceiveAlice
<1>5. z.chunks = y.chunks /\ f.epoch = a.epoch + 1
  BY DEF AddChunk, AgentOK, AgentFields, FreshAgent
<1>6. k.data = Mac(auth, k.epoch, a.ct1)
  <2>1. a.auth = Roots(a.epoch - 1) /\ a.ct1 = EpochSecret(a.epoch)
    BY DEF AgentOK, Known, SampledStates
  <2>2. auth = Roots(a.epoch)
    BY <1>3, <2>1, NextRoot
  <2> QED BY <1>3, <2>1, <2>2 DEF NewChunk, Canonical
<1> HIDE DEF y, z, f, auth
<1>7. ReceiveCt2(a, k).agent \in {z, f}
  <2>1. CASE Complete(z, "Ct2")
    <3>1. ReceiveCt2(a, k) = [Absorbed(f) EXCEPT !.secret = a.ct1]
      BY <1>6, <2>1 DEF ReceiveCt2, y, z, f, auth
    <3> QED BY <3>1 DEF Absorbed
  <2>2. CASE ~Complete(z, "Ct2")
    <3>1. ReceiveCt2(a, k) = Absorbed(z)
      BY <2>2 DEF ReceiveCt2, y, z
    <3> QED BY <3>1 DEF Absorbed
  <2> QED BY <2>1, <2>2
<1>8. f # a
  BY <1>3, <1>5
<1> QED BY <1>2, <1>4, <1>5, <1>7, <1>8

(* A new chunk of the key moves a Bob who waits for it.                    *)
LEMMA EkMoves ==
  ASSUME NEW q, NEW b, AgentOK(q, b), b.state \in {"Ct1Sampled", "Ct1Acknowledged"},
         NEW k, NewChunk(b, "Ek", k), k.type = "EkCt1Ack"
  PROVE  BraidReceive(b, k).agent # b
<1> DEFINE y == AddChunk(b, "Ek", k)
           z == SampleCt2(y)
           w == [y EXCEPT !.state = "Ct1Acknowledged"]
<1>1. "Ek" \in Components /\ b.state \notin AliceStates
  BY DEF Components, AliceStates
<1>2. y.chunks # b.chunks /\ ~Conflicts(b, "Ek", k)
  BY <1>1, NewChunkAdded
<1>3. b.epoch \in Nat /\ k.epoch = b.epoch
  BY DEF AgentOK, NewChunk
<1>4. BraidReceive(b, k) = ReceiveEk(b, k)
  BY <1>1, <1>2, <1>3 DEF BraidReceive, ReceiveBob
<1>5. z.chunks = y.chunks /\ w.chunks = y.chunks
  BY DEF SampleCt2, AddChunk, AgentOK, AgentFields
<1>6. k.data = b.ek
  BY DEF NewChunk, Canonical, AgentOK, SampledStates
<1> HIDE DEF y, z, w
<1>7. ReceiveEk(b, k).agent \in {z, w}
  <2>1. CASE Complete(y, "Ek")
    <3>1. ReceiveEk(b, k) = Absorbed(z)
      BY <1>6, <2>1 DEF ReceiveEk, y, z
    <3> QED BY <3>1 DEF Absorbed
  <2>2. CASE ~Complete(y, "Ek")
    <3>1. ReceiveEk(b, k) = Absorbed(w)
      BY <2>2 DEF ReceiveEk, y, w
    <3> QED BY <3>1 DEF Absorbed
  <2> QED BY <2>1, <2>2
<1> QED BY <1>2, <1>4, <1>5, <1>7

(* An acknowledgment moves a Bob who has the key.                          *)
LEMMA AckMoves ==
  ASSUME NEW q, NEW b, AgentOK(q, b), b.state = "EkReceivedCt1Sampled",
         NEW k, k.epoch = b.epoch, k.type = "EkCt1Ack"
  PROVE  BraidReceive(b, k).agent # b
<1>1. b.epoch \in Nat /\ b.state \notin AliceStates
  BY DEF AgentOK, AliceStates
<1>2. BraidReceive(b, k) = Absorbed(SampleCt2(b))
  BY <1>1 DEF BraidReceive, ReceiveBob, AcknowledgesCt1
<1>3. SampleCt2(b).state = "Ct2Sampled"
  BY DEF SampleCt2, AgentOK, AgentFields
<1> QED BY <1>2, <1>3 DEF Absorbed

\* A message of p moves the exchange when it moves either state machine.
LEMMA TurnByAgents ==
  ASSUME NEW p \in Parties,
         LET o == BraidSend(p, agent[p]) IN
         \/ o.agent.state # agent[p].state
         \/ o.chunk.type # "None" /\ BraidReceive(agent[Peer(p)], o.chunk).agent # agent[Peer(p)]
  PROVE  TurnMoves(p)
<1> DEFINE o == BraidSend(p, agent[p])
           r == SendOutcome(p)
<1>1. r.agent = o.agent /\ r.message.chunk = o.chunk
  BY DEF SendOutcome
<1>2. ASSUME o.chunk.type # "None"
      PROVE  RecvOutcome(Peer(p), r.message).agent = BraidReceive(agent[Peer(p)], o.chunk).agent
  <2> HIDE DEF o, r
  <2> QED BY <1>1, <1>2 DEF RecvOutcome
<1> HIDE DEF o, r
<1>3. o.agent.state # agent[p].state \/ RecvOutcome(Peer(p), r.message).agent # agent[Peer(p)]
  BY <1>2 DEF o
<1> QED BY <1>1, <1>3 DEF TurnMoves, r

\* A chunk that an agent sends next is new to an agent in step with it.
LEMMA NextChunkIsNew ==
  ASSUME NEW p \in Parties, NEW a, NEW b, Pair(p, a, b), a.epoch = b.epoch,
         NEW c \in Components, NEW type, type \notin {"Ct1Ack", "None"}, PartOf(type) = c,
         BraidSend(p, a).chunk.type = type, BraidSend(p, a).chunk.index = a.cursor[c]
  PROVE  NewChunk(b, c, BraidSend(p, a).chunk)
<1> DEFINE k == BraidSend(p, a).chunk
<1>1. SendResult(p, a, BraidSend(p, a))
  BY BraidSendOK DEF Pair
<1>2. ChunkOK(p, BraidSend(p, a).agent, k) /\ k.epoch = a.epoch
  BY <1>1 DEF SendResult
<1> HIDE DEF k
<1>3. k.type = type /\ k.index = a.cursor[c]
  BY DEF k
<1>4. k.data = Canonical(c, b.epoch) /\ k.index \in Nat
  BY <1>2, <1>3 DEF ChunkOK
<1>5. \A x \in b.chunks[c] : x[1] < k.index
  BY <1>3 DEF Pair, PairOK
<1> QED BY <1>2, <1>4, <1>5 DEF NewChunk, k

\* Until both have the secret of the first epoch, both are in that epoch.
LEMMA InFirstEpoch ==
  ASSUME IInv, ~(\A p \in Parties : spqr[p].epoch >= 1)
  PROVE  LET a == agent[Initiator]
             b == agent[Responder]
         IN  /\ a.epoch = 1 /\ b.epoch = 1 /\ a.state \in AliceStates /\ b.state \in BobStates
             /\ InStep(a, b)
<1> DEFINE a == agent[Initiator]
           b == agent[Responder]
<1>1. Parties = {Initiator, Responder} /\ Peer(Initiator) = Responder /\ Peer(Responder) = Initiator
      /\ Initiator # Responder
  BY BraidAssumption DEF Parties, Peer
<1>2. Pair(Initiator, a, b) /\ AgentOK(Initiator, a) /\ AgentOK(Responder, b)
  BY <1>1 DEF IInv, Pair
<1>3. spqr[Initiator].epoch = Known(a) /\ spqr[Responder].epoch = Known(b)
  BY <1>1 DEF IInv, PartyOK, SpqrOK
<1> HIDE DEF a, b
<1>4. /\ Known(a) \in Nat /\ Known(a) \in {a.epoch - 1, a.epoch} /\ a.epoch \in Nat \ {0}
      /\ Known(b) \in Nat /\ Known(b) \in {b.epoch - 1, b.epoch} /\ b.epoch \in Nat \ {0}
  BY <1>2, KnownType
<1>5. Known(a) = 0 \/ Known(b) = 0
  <2>1. ~(Known(a) >= 1 /\ Known(b) >= 1)
    BY <1>1, <1>3
  <2> QED BY <1>4, <2>1
<1>6. a.epoch = b.epoch
  <2>1. a.epoch > b.epoch => a.epoch = b.epoch + 1 /\ b.state = "Ct2Sampled"
    BY <1>2 DEF Pair, PairOK
  <2>2. b.epoch > a.epoch => b.epoch = a.epoch + 1 /\ a.state = "Ct2Sampled"
    BY <1>2 DEF Pair, PairOK
  <2>3. b.state = "Ct2Sampled" => Known(b) = b.epoch
    BY DEF Known, SampledStates
  <2>4. a.state = "Ct2Sampled" => Known(a) = a.epoch
    BY DEF Known, SampledStates
  <2> QED BY <1>4, <1>5, <2>1, <2>2, <2>3, <2>4
<1>7. a.epoch = 1 /\ b.epoch = 1
  BY <1>4, <1>5, <1>6
<1>8. AliceOf(1) = Initiator /\ BobOf(1) = Responder
  BY <1>1 DEF AliceOf, BobOf
<1>9. a.state \in AliceStates /\ b.state \in BobStates
  BY <1>1, <1>2, <1>7, <1>8 DEF AgentOK
<1>10. InStep(a, b)
  BY <1>2, <1>6, <1>9 DEF Pair, PairOK
<1> QED BY <1>7, <1>9, <1>10 DEF a, b

(* In each pair of states that are in step, one of the two has a message   *)
(* that moves the exchange.                                                *)
LEMMA EpochCompletesNow ==
  ASSUME IInv
  PROVE  EpochCompletes
<1> SUFFICES ASSUME ~(\A p \in Parties : spqr[p].epoch >= 1) PROVE BraidGoesOn
  BY DEF EpochCompletes
<1> DEFINE a == agent[Initiator]
           b == agent[Responder]
           o == BraidSend(Initiator, a)
           r == BraidSend(Responder, b)
<1>1. Initiator \in Parties /\ Responder \in Parties
      /\ Peer(Initiator) = Responder /\ Peer(Responder) = Initiator /\ Initiator # Responder
  BY BraidAssumption DEF Parties, Peer
<1>2. /\ a.epoch = b.epoch /\ a.state \in AliceStates /\ b.state \in BobStates
      /\ InStep(a, b)
  BY InFirstEpoch
<1>3. /\ Pair(Initiator, a, b) /\ Pair(Responder, b, a)
      /\ AgentOK(Initiator, a) /\ AgentOK(Responder, b)
      /\ ReceivedOK(b, spqr[Responder], received[Responder])
  BY <1>1 DEF IInv, Pair, PartyOK
<1>4. /\ o.agent.state # a.state => TurnMoves(Initiator)
      /\ o.chunk.type # "None" /\ BraidReceive(b, o.chunk).agent # b => TurnMoves(Initiator)
  BY <1>1, TurnByAgents
<1>5. /\ r.agent.state # b.state => TurnMoves(Responder)
      /\ r.chunk.type # "None" /\ BraidReceive(a, r.chunk).agent # a => TurnMoves(Responder)
  BY <1>1, TurnByAgents
<1>6. TurnMoves(Initiator) => BraidGoesOn
  BY <1>1 DEF BraidGoesOn, HasSession
<1>7. b.state # "NoHeaderReceived" /\ TurnMoves(Responder) => BraidGoesOn
  <2>1. b.state # "NoHeaderReceived" => b.state \notin Untouched
    BY <1>2 DEF Untouched, BobStates
  <2>2. b.state # "NoHeaderReceived" => received[Responder] # {}
    BY <1>3, <2>1 DEF ReceivedOK
  <2> QED BY <1>1, <2>2 DEF BraidGoesOn, HasSession
<1>8. o = SendAlice(Initiator, a) /\ r = SendBob(Responder, b)
  <2>1. b.state \notin AliceStates
    BY <1>2 DEF AliceStates, BobStates
  <2> QED BY <1>2, <2>1 DEF BraidSend
<1>9. {"Hdr", "Ek", "Ct1", "Ct2"} \subseteq Components
      /\ PartOf("Hdr") = "Hdr" /\ PartOf("EkCt1Ack") = "Ek" /\ PartOf("Ct1") = "Ct1" /\ PartOf("Ct2") = "Ct2"
  BY DEF Components, PartOf
<1> HIDE DEF a, b
<1>10. CASE a.state = "KeysUnsampled"
  <2>1. o.agent.state = "KeysSampled"
    <3> DEFINE y == [a EXCEPT !.state = "KeysSampled", !.ek = <<Initiator, a.epoch>>]
    <3>1. o = SendChunk(y, "Hdr", "Hdr")
      BY <1>8, <1>10 DEF SendAlice
    <3>2. y.state = "KeysSampled" /\ DOMAIN y = AgentFields
      BY <1>3 DEF AgentOK, AgentFields
    <3> HIDE DEF o, y
    <3> QED BY <3>1, <3>2 DEF SendChunk, AgentFields
  <2> QED BY <1>4, <1>6, <1>10, <2>1
<1>11. CASE a.state = "KeysSampled" /\ b.state = "NoHeaderReceived"
  <2>1. o.chunk.type = "Hdr" /\ o.chunk.index = a.cursor["Hdr"]
    BY <1>8, <1>11 DEF SendAlice, SendChunk
  <2>2. NewChunk(b, "Hdr", o.chunk)
    BY <1>1, <1>2, <1>3, <1>9, <2>1, NextChunkIsNew
  <2>3. BraidReceive(b, o.chunk).agent # b
    BY <1>3, <1>11, <2>1, <2>2, HeaderMoves
  <2> QED BY <1>4, <1>6, <2>1, <2>3
<1>12. CASE b.state = "HeaderReceived"
  <2>1. r.agent.state = "Ct1Sampled"
    <3> DEFINE s == Secret(b.ek, Responder)
               y == [b EXCEPT !.state = "Ct1Sampled", !.ct1 = s, !.auth = Append(@, s)]
    <3>1. r = [SendChunk(y, "Ct1", "Ct1") EXCEPT !.secret = s]
      BY <1>8, <1>12 DEF SendBob, SampleCt1
    <3>2. y.state = "Ct1Sampled" /\ DOMAIN y = AgentFields
      BY <1>3 DEF AgentOK, AgentFields
    <3> HIDE DEF r, y, s
    <3>3. SendChunk(y, "Ct1", "Ct1").agent.state = "Ct1Sampled"
      BY <3>2 DEF SendChunk, AgentFields
    <3>4. r.agent = SendChunk(y, "Ct1", "Ct1").agent
      BY <3>1 DEF SendChunk
    <3> QED BY <3>3, <3>4
  <2> QED BY <1>5, <1>7, <1>12, <2>1
<1>13. CASE a.state \in {"KeysSampled", "HeaderSent"} /\ b.state \in {"Ct1Sampled", "EkReceivedCt1Sampled"}
  <2>1. r.chunk.type = "Ct1" /\ r.chunk.index = b.cursor["Ct1"]
    BY <1>8, <1>13 DEF SendBob, SendChunk
  <2>2. NewChunk(a, "Ct1", r.chunk)
    BY <1>1, <1>2, <1>3, <1>9, <2>1, NextChunkIsNew
  <2>3. BraidReceive(a, r.chunk).agent # a
    BY <1>3, <1>13, <2>1, <2>2, Ct1Moves
  <2> QED BY <1>5, <1>7, <1>13, <2>1, <2>3
<1>14. CASE a.state = "Ct1Received" /\ b.state \in {"Ct1Sampled", "Ct1Acknowledged", "EkReceivedCt1Sampled"}
  <2>1. o.chunk.type = "EkCt1Ack" /\ o.chunk.index = a.cursor["Ek"]
    BY <1>8, <1>14 DEF SendAlice, SendChunk
  <2>2. NewChunk(b, "Ek", o.chunk)
    BY <1>1, <1>2, <1>3, <1>9, <2>1, NextChunkIsNew
  <2>3. BraidReceive(b, o.chunk).agent # b
    <3>1. CASE b.state = "EkReceivedCt1Sampled"
      <4>1. o.chunk.epoch = b.epoch
        BY <2>2 DEF NewChunk
      <4> QED BY <1>3, <2>1, <3>1, <4>1, AckMoves
    <3>2. CASE b.state # "EkReceivedCt1Sampled"
      <4>1. b.state \in {"Ct1Sampled", "Ct1Acknowledged"}
        BY <1>14, <3>2
      <4> QED BY <1>3, <2>1, <2>2, <4>1, EkMoves
    <3> QED BY <3>1, <3>2
  <2> QED BY <1>4, <1>6, <2>1, <2>3
<1>15. CASE a.state \in {"Ct1Received", "EkSentCt1Received"} /\ b.state = "Ct2Sampled"
  <2>1. r.chunk.type = "Ct2" /\ r.chunk.index = b.cursor["Ct2"]
    BY <1>8, <1>15 DEF SendBob, SendChunk
  <2>2. NewChunk(a, "Ct2", r.chunk)
    BY <1>1, <1>2, <1>3, <1>9, <2>1, NextChunkIsNew
  <2>3. BraidReceive(a, r.chunk).agent # a
    BY <1>3, <1>15, <2>1, <2>2, Ct2Moves
  <2> QED BY <1>5, <1>7, <1>15, <2>1, <2>3
<1>16. \/ a.state = "KeysUnsampled"
       \/ a.state = "KeysSampled" /\ b.state = "NoHeaderReceived"
       \/ b.state = "HeaderReceived"
       \/ a.state \in {"KeysSampled", "HeaderSent"} /\ b.state \in {"Ct1Sampled", "EkReceivedCt1Sampled"}
       \/ a.state = "Ct1Received" /\ b.state \in {"Ct1Sampled", "Ct1Acknowledged", "EkReceivedCt1Sampled"}
       \/ a.state \in {"Ct1Received", "EkSentCt1Received"} /\ b.state = "Ct2Sampled"
  BY <1>2 DEF InStep, AliceStates, BobStates
<1> QED BY <1>10, <1>11, <1>12, <1>13, <1>14, <1>15, <1>16

(* From whatever state losses and reordering have left, a single delivered *)
(* message moves the exchange of the first epoch on: no wait of both sides *)
(* for each other before both have its secret.                             *)
THEOREM FirstEpochCompletes == Spec => []EpochCompletes
  BY Invariance, EpochCompletesNow, PTL

-----------------------------------------------------------------------------
(* Delivery.                                                               *)

\* The receive chains of s are at indices that the peer, with chains t, has used.
Opened(s, t) ==
  \A e \in DOMAIN s.kdfChains :
    s.kdfChains[e].receive = 0 \/ SentUnder(t, e, s.kdfChains[e].receive)

\* No key of a message of q that is still under way was lost.
TransitOK(s, q, rcvd) ==
  \A j \in DOMAIN q : q[j].index # 0 /\ q[j] \notin rcvd =>
    Available(s, InternalEpoch(q[j].chunk.epoch), q[j].index)

LinkOK(s, t, q, rcvd) == ChainsKept(s) /\ Opened(s, t) /\ TransitOK(s, q, rcvd)

\* What delivery needs besides: the chains of each side and the messages that the
\* other side has sent to it.
Links == \A p \in Parties : LinkOK(spqr[p], spqr[Peer(p)], sent[Peer(p)], received[p])

DInv == IInv /\ Links

(* What the peer has used stays used.                                      *)
LEMMA OpenedKept ==
  ASSUME NEW n, NEW s, SpqrOK(s, n), NEW t, NEW z, Opened(s, t), Kept(t, z)
  PROVE  Opened(s, z)
<1> SUFFICES ASSUME NEW e \in DOMAIN s.kdfChains, s.kdfChains[e].receive # 0
             PROVE  SentUnder(z, e, s.kdfChains[e].receive)
  BY DEF Opened
<1>1. s.kdfChains[e].receive \in Nat /\ e \in Nat
  BY DEF SpqrOK, ChainOK
<1>2. SentUnder(t, e, s.kdfChains[e].receive)
  BY DEF Opened
<1> QED BY <1>1, <1>2 DEF Kept

(* A step of the receiver that opens an index which the peer has used, or  *)
(* none.                                                                   *)
LEMMA OpenedRetained ==
  ASSUME NEW s, NEW z, NEW t, NEW used, Opened(s, t), Retains(s, z, used),
         \A e, i : <<e, i>> \in used => i = 0 \/ SentUnder(t, e, i)
  PROVE  Opened(z, t)
<1> SUFFICES ASSUME NEW e \in DOMAIN z.kdfChains
             PROVE  z.kdfChains[e].receive = 0 \/ SentUnder(t, e, z.kdfChains[e].receive)
  BY DEF Opened
<1>1. \/ z.kdfChains[e].receive = 0
      \/ <<e, z.kdfChains[e].receive>> \in used
      \/ e \in DOMAIN s.kdfChains /\ z.kdfChains[e].receive = s.kdfChains[e].receive
  BY DEF Retains
<1>2. CASE <<e, z.kdfChains[e].receive>> \in used
  BY <1>2
<1>3. CASE e \in DOMAIN s.kdfChains /\ z.kdfChains[e].receive = s.kdfChains[e].receive
  BY <1>3 DEF Opened
<1> QED BY <1>1, <1>2, <1>3

(* A message that is sent has an index that the chain of the receiver has  *)
(* not reached.                                                            *)
LEMMA NewAvailable ==
  ASSUME NEW n, NEW s, SpqrOK(s, n), NEW t, Opened(s, t),
         NEW e, NEW i \in Nat, i # 0, Above(t, e, i)
  PROVE  Available(s, e, i)
<1> SUFFICES ASSUME e \in DOMAIN s.kdfChains, i <= s.kdfChains[e].receive
             PROVE  FALSE
  BY DEF Available
<1>1. s.kdfChains[e].receive \in Nat /\ s.kdfChains[e].receive # 0
  BY DEF SpqrOK, ChainOK
<1>2. SentUnder(t, e, s.kdfChains[e].receive)
  BY <1>1 DEF Opened
<1>3. s.kdfChains[e].receive < i
  BY <1>1, <1>2 DEF Above
<1> QED BY <1>1, <1>3

\* The two links of a party that takes a step, and of its peer.
LEMMA LinkStep ==
  ASSUME IInv, NEW p \in Parties, NEW s, NEW q, NEW rcvd,
         spqr' = [spqr EXCEPT ![p] = s], sent' = [sent EXCEPT ![p] = q],
         received' = [received EXCEPT ![p] = rcvd],
         LinkOK(s, spqr[Peer(p)], sent[Peer(p)], rcvd),
         LinkOK(spqr[Peer(p)], s, q, received[Peer(p)])
  PROVE  Links'
<1>1. Peer(p) \in Parties /\ Peer(p) # p /\ Peer(Peer(p)) = p /\ Parties = {p, Peer(p)}
  BY RolesSwap DEF Parties, Peer
<1>2. /\ spqr'[p] = s /\ sent'[p] = q /\ received'[p] = rcvd
      /\ spqr'[Peer(p)] = spqr[Peer(p)]
      /\ sent'[Peer(p)] = sent[Peer(p)] /\ received'[Peer(p)] = received[Peer(p)]
  BY <1>1 DEF IInv, ByParty
<1>3. LinkOK(spqr'[p], spqr'[Peer(p)], sent'[Peer(p)], received'[p])
  BY <1>2
<1>4. LinkOK(spqr'[Peer(p)], spqr'[Peer(Peer(p))], sent'[Peer(Peer(p))], received'[Peer(p)])
  BY <1>1, <1>2
<1> QED BY <1>1, <1>3, <1>4 DEF Links

(* encrypt(): the index of the new message is ahead of the receiver, and   *)
(* the own receive chains lose nothing.                                    *)
LEMMA EncryptLinks ==
  ASSUME DInv, NEW p \in Parties, Encrypt(p)
  PROVE  Links'
<1> DEFINE s == spqr[p]
           t == spqr[Peer(p)]
           q == sent[p]
           o == BraidSend(p, agent[p])
           r == SendOutcome(p)
           m == r.message
           z == r.spqr
<1>1. /\ r.ok
      /\ spqr' = [spqr EXCEPT ![p] = z]
      /\ sent' = [sent EXCEPT ![p] = Append(q, m)]
      /\ received' = received
  BY DEF Encrypt
<1>2. Peer(p) \in Parties /\ Peer(Peer(p)) = p
  BY RolesSwap
<1>3. /\ IInv /\ SpqrOK(s, Known(agent[p])) /\ SpqrOK(t, Known(agent[Peer(p)])) /\ IsSeq(q)
      /\ LinkOK(s, t, sent[Peer(p)], received[p])
      /\ LinkOK(t, s, q, received[Peer(p)])
  BY <1>2 DEF DInv, Links, IInv, PartyOK, SentOK
<1>4. SendKeyResult(p, s, z, o, q, m, Known(o.agent))
  BY <1>1, <1>3, SendOutcomeOK
<1> HIDE DEF s, t, q, o, r, m, z
<1>5. /\ Kept(s, z) /\ Retains(s, z, {}) /\ m.index \in Nat
      /\ m.index # 0 => Above(s, InternalEpoch(m.chunk.epoch), m.index)
  BY <1>4 DEF SendKeyResult, SendOK
<1>6. LinkOK(z, t, sent[Peer(p)], received[p])
  <2>1. ChainsKept(s) /\ Opened(s, t) /\ TransitOK(s, sent[Peer(p)], received[p])
    BY <1>3 DEF LinkOK
  <2>2. ChainsKept(z)
    BY <1>5, <2>1 DEF Retains
  <2>3. Opened(z, t)
    BY <1>5, <2>1, OpenedRetained
  <2>4. TransitOK(z, sent[Peer(p)], received[p])
    <3> SUFFICES ASSUME NEW j \in DOMAIN sent[Peer(p)], sent[Peer(p)][j].index # 0,
                        sent[Peer(p)][j] \notin received[p]
                 PROVE  Available(z, InternalEpoch(sent[Peer(p)][j].chunk.epoch), sent[Peer(p)][j].index)
      BY DEF TransitOK
    <3> DEFINE x == sent[Peer(p)][j]
    <3>1. x \in InTransit(p)
      BY DEF InTransit
    <3>2. x.index \in Nat /\ InternalEpoch(x.chunk.epoch) \in Nat
      BY <1>3, <3>1, InTransitOK
    <3>3. Available(s, InternalEpoch(x.chunk.epoch), x.index)
      BY <2>1 DEF TransitOK
    <3> QED BY <1>5, <3>2, <3>3 DEF Retains
  <2> QED BY <2>2, <2>3, <2>4 DEF LinkOK
<1>7. LinkOK(t, z, Append(q, m), received[Peer(p)])
  <2>1. ChainsKept(t) /\ Opened(t, s) /\ TransitOK(t, q, received[Peer(p)])
    BY <1>3 DEF LinkOK
  <2>2. Opened(t, z)
    BY <1>3, <1>5, <2>1, OpenedKept
  <2>3. m.index # 0 => Available(t, InternalEpoch(m.chunk.epoch), m.index)
    BY <1>3, <1>5, <2>1, NewAvailable
  <2> DEFINE w == Append(q, m)
  <2>4. /\ Len(q) \in Nat /\ DOMAIN q = 1 .. Len(q) /\ DOMAIN w = 1 .. Len(q) + 1
        /\ w[Len(q) + 1] = m /\ \A i \in DOMAIN q : w[i] = q[i]
    BY <1>3, AppendToSeq
  <2> HIDE DEF w
  <2>5. \A i \in DOMAIN w : (i \in DOMAIN q /\ w[i] = q[i]) \/ w[i] = m
    BY <2>4
  <2>6. TransitOK(t, w, received[Peer(p)])
    BY <2>1, <2>3, <2>5 DEF TransitOK
  <2> QED BY <2>1, <2>2, <2>6 DEF LinkOK, w
<1>8. received' = [received EXCEPT ![p] = received[p]]
  BY <1>1, <1>3 DEF IInv, ByParty
<1> QED BY <1>1, <1>3, <1>6, <1>7, <1>8, LinkStep DEF t

(* decrypt(): one index is opened, of the message itself, and the keys of  *)
(* the other messages under way are not lost.                              *)
LEMMA DecryptLinks ==
  ASSUME DInv, NEW p \in Parties, Decrypt(p)
  PROVE  Links'
<1>1. PICK m \in InTransit(p) :
        /\ DecryptOutcome(p, m).ok
        /\ spqr' = [spqr EXCEPT ![p] = DecryptOutcome(p, m).spqr]
        /\ received' = [received EXCEPT ![p] = @ \cup {m}]
        /\ UNCHANGED sent
  BY DEF Decrypt
<1> DEFINE s == spqr[p]
           t == spqr[Peer(p)]
           q == sent[Peer(p)]
           z == DecryptOutcome(p, m).spqr
           R == received[p] \cup {m}
           e == InternalEpoch(m.chunk.epoch)
           i == m.index
<1>2. Peer(p) \in Parties /\ Peer(Peer(p)) = p
  BY RolesSwap
<1>3. /\ IInv /\ SpqrOK(t, Known(agent[Peer(p)]))
      /\ SentOK(Peer(p), agent[Peer(p)], t, q)
      /\ LinkOK(s, t, q, received[p])
      /\ LinkOK(t, s, sent[p], received[Peer(p)])
  BY <1>2 DEF DInv, Links, IInv, PartyOK
<1>4. Kept(s, z) /\ Retains(s, z, {<<e, i>>})
  <2>1. DecryptResult(p, agent[p], agent[Peer(p)], s, DecryptOutcome(p, m).agent, z, m)
    BY <1>1, <1>3, DecryptOutcomeOK
  <2> QED BY <2>1 DEF DecryptResult
<1>5. PICK k \in DOMAIN q : m = q[k]
  BY DEF InTransit
<1>6. i \in Nat /\ e \in Nat /\ m.chunk.epoch \in Nat \ {0}
  BY <1>3, InTransitOK
<1>7. \A x : x \notin R => x \notin received[p] /\ x # m
  OBVIOUS
<1>8. spqr' = [spqr EXCEPT ![p] = z] /\ received' = [received EXCEPT ![p] = R]
      /\ sent' = [sent EXCEPT ![p] = sent[p]]
  BY <1>1, <1>3 DEF IInv, ByParty
<1> HIDE DEF s, t, q, z, R, e, i
<1>9. LinkOK(z, t, q, R)
  <2>1. ChainsKept(s) /\ Opened(s, t) /\ TransitOK(s, q, received[p])
    BY <1>3 DEF LinkOK
  <2>2. ChainsKept(z)
    BY <1>4, <2>1 DEF Retains
  <2>3. i = 0 \/ SentUnder(t, e, i)
    BY <1>3, <1>5 DEF SentOK, SendOK, e, i
  <2>4. \A x, j : <<x, j>> \in {<<e, i>>} => j = 0 \/ SentUnder(t, x, j)
    BY <2>3
  <2>5. Opened(z, t)
    BY <1>4, <2>1, <2>4, OpenedRetained
  <2>6. TransitOK(z, q, R)
    <3> SUFFICES ASSUME NEW j \in DOMAIN q, q[j].index # 0, q[j] \notin R
                 PROVE  Available(z, InternalEpoch(q[j].chunk.epoch), q[j].index)
      BY DEF TransitOK
    <3> DEFINE x == q[j]
               f == InternalEpoch(x.chunk.epoch)
    <3>1. x \notin received[p] /\ x # m
      BY <1>7
    <3>2. x \in InTransit(p)
      BY <3>1 DEF InTransit, q
    <3>3. x.index \in Nat /\ f \in Nat /\ x.chunk.epoch \in Nat \ {0}
      BY <1>3, <3>2, InTransitOK
    <3>4. Available(s, f, x.index)
      BY <2>1, <3>1 DEF TransitOK
    <3>5. i # 0 => x.chunk.epoch # m.chunk.epoch \/ x.index # i
      BY <1>3, <1>5, <3>1 DEF SentOK, KeysDiffer, i
    <3>6. <<f, x.index>> # <<e, i>>
      BY <1>6, <3>3, <3>5 DEF InternalEpoch, e
    <3> HIDE DEF f, x
    <3>7. <<f, x.index>> \notin {<<e, i>>} /\ x.index # 0
      BY <3>6 DEF x
    <3>8. Available(z, f, x.index)
      BY <1>4, <3>3, <3>4, <3>7 DEF Retains
    <3> QED BY <3>8 DEF f, x
  <2> QED BY <2>2, <2>5, <2>6 DEF LinkOK
<1>10. LinkOK(t, z, sent[p], received[Peer(p)])
  <2>1. ChainsKept(t) /\ Opened(t, s) /\ TransitOK(t, sent[p], received[Peer(p)])
    BY <1>3 DEF LinkOK
  <2>2. Opened(t, z)
    BY <1>3, <1>4, <2>1, OpenedKept
  <2> QED BY <2>1, <2>2 DEF LinkOK
<1> QED BY <1>3, <1>8, <1>9, <1>10, LinkStep DEF t, q

(* A new session has one chain, and nothing is under way.                  *)
LEMMA InitLinks ==
  ASSUME Init
  PROVE  Links
<1>1. \A p \in Parties : spqr[p] = InitialSpqr /\ sent[p] = <<>> /\ received[p] = {}
  BY DEF Init
<1>2. \A p \in Parties : Peer(p) \in Parties
  BY RolesSwap
<1>3. ASSUME NEW t, NEW rcvd PROVE LinkOK(InitialSpqr, t, <<>>, rcvd)
  <2>1. /\ InitialSpqr.epoch = 0 /\ InitialSpqr.sendEpoch = 0
        /\ DOMAIN InitialSpqr.kdfChains = {0} /\ InitialSpqr.kdfChains[0].receive = 0
    BY DEF InitialSpqr, InitialChains
  <2>2. ChainsKept(InitialSpqr)
    BY <2>1 DEF ChainsKept
  <2>3. Opened(InitialSpqr, t)
    BY <2>1 DEF Opened
  <2>4. DOMAIN <<>> = {}
    OBVIOUS
  <2> QED BY <2>2, <2>3, <2>4 DEF LinkOK, TransitOK
<1> QED BY <1>1, <1>2, <1>3 DEF Links

(* The chains that a message under way needs are there, and its key is     *)
(* ahead, held or below the horizon, in every reachable state.             *)
THEOREM DeliveryInvariance == Spec => []DInv
<1>1. Init => DInv
  BY InitOK, InitLinks DEF DInv
<1>2. DInv /\ [Next]_vars => DInv'
  <2> SUFFICES ASSUME DInv, [Next]_vars PROVE DInv'
    OBVIOUS
  <2>1. CASE Next
    <3>1. PICK p \in Parties : Encrypt(p) \/ Decrypt(p)
      BY <2>1 DEF Next
    <3>2. IInv'
      BY <3>1, EncryptStep, DecryptStep DEF DInv
    <3>3. Links'
      BY <3>1, EncryptLinks, DecryptLinks
    <3> QED BY <3>2, <3>3 DEF DInv
  <2>2. CASE UNCHANGED vars
    BY <2>2 DEF vars, DInv, IInv, Links
  <2> QED BY <2>1, <2>2
<1> QED BY <1>1, <1>2, PTL DEF Spec

(* deriveSPQRReceiveKey() returns the key of an index that no limit gives  *)
(* up: it is held, or the chain can go to it.                              *)
LEMMA DeriveOpens ==
  ASSUME NEW n \in Nat, NEW s, SpqrOK(s, n), ChainsKept(s), s.negotiated,
         NEW e \in 0 .. n, NEW i \in Nat, i # 0, Available(s, e, i), ~GivenUp(s, e, i), NEW from
  PROVE  /\ DeriveReceive(s, from, e, i).ok
         /\ DeriveReceive(s, from, e, i).key = MessageKey(Roots(e), from, i)
<1>1. s.epoch = n /\ s.sendEpoch \in 0 .. n /\ MaxOOOKeys \in Nat /\ MaxJump \in Nat
  BY BraidAssumption DEF SpqrOK
<1>2. ~Trimmed(s, e, i)
  BY DEF GivenUp
<1>3. CASE <<e, i>> \in s.MKSKIPPED
  <2>1. e \in DOMAIN s.kdfChains
    BY <1>3 DEF SpqrOK
  <2>2. s.kdfChains[e].root = Roots(e)
    BY <2>1 DEF SpqrOK, ChainOK
  <2> QED BY <1>2, <1>3, <2>2 DEF DeriveReceive
<1>4. CASE <<e, i>> \notin s.MKSKIPPED
  <2>1. e + 1 >= n
    BY <1>1, <1>4 DEF GivenUp
  <2>2. e \in DOMAIN s.kdfChains
    BY <1>1, <2>1 DEF ChainsKept
  <2>3. s.kdfChains[e].root = Roots(e) /\ s.kdfChains[e].receive \in Nat
    BY <2>2 DEF SpqrOK, ChainOK
  <2>4. i <= s.kdfChains[e].receive + MaxJump
    BY <1>1, <1>4, <2>2, <2>3 DEF GivenUp
  <2>5. s.kdfChains[e].receive < i
    BY <1>2, <1>4, <2>2, <2>3 DEF Available, Trimmed
  <2>6. DerivableReceive(s, e, i)
    BY <1>1, <2>1, <2>2, <2>4, <2>5 DEF DerivableReceive
  <2> QED BY <1>2, <1>4, <2>3, <2>6 DEF DeriveReceive
<1> QED BY <1>3, <1>4

\* A message without an index has no key on either side.
LEMMA NoIndexOpens ==
  ASSUME NEW s, NEW e, NEW from
  PROVE  DeriveReceive(s, from, e, 0).ok /\ DeriveReceive(s, from, e, 0).key = NoValue
  BY DEF DeriveReceive, NoKeyYet

(* The last chunk of ct2, which ends the exchange at Alice, is of her      *)
(* epoch.                                                                  *)
LEMMA SecretOfEpoch ==
  ASSUME NEW a, NEW m, BraidReceive(a, m).secret # NoValue
  PROVE  ~(m.epoch < a.epoch) /\ ~(m.epoch > a.epoch)
<1>1. Absorbed(a).secret = NoValue /\ Refused(a).secret = NoValue
  BY DEF Absorbed, Refused
<1>2. \A x : Absorbed(x).secret = NoValue /\ Refused(x).secret = NoValue
  BY DEF Absorbed, Refused
<1>3. CASE a.state \in AliceStates
  BY <1>1, <1>3 DEF BraidReceive, ReceiveAlice
<1>4. CASE a.state \notin AliceStates
  <2>1. BraidReceive(a, m) = ReceiveBob(a, m)
    BY <1>4 DEF BraidReceive
  <2>2. ReceiveHeader(a, m).secret = NoValue
    BY <1>2 DEF ReceiveHeader
  <2>3. ReceiveEk(a, m).secret = NoValue
    BY <1>2 DEF ReceiveEk
  <2> QED BY <1>2, <2>1, <2>2, <2>3 DEF ReceiveBob
<1> QED BY <1>3, <1>4

(* A party has the secrets up to the epoch under which the peer encrypts.  *)
LEMMA EpochIsKnown ==
  ASSUME NEW p, NEW a, NEW b, Pair(p, a, b), NEW k, ChunkOK(Peer(p), b, k)
  PROVE  Known(a) \in Nat /\ InternalEpoch(k.epoch) \in 0 .. Known(a)
<1>1. /\ Known(a) \in Nat /\ Known(a) \in {a.epoch - 1, a.epoch} /\ a.epoch \in Nat \ {0}
      /\ b.epoch \in Nat \ {0}
  BY KnownType DEF Pair
<1>2. k.epoch \in 1 .. b.epoch
  BY DEF ChunkOK
<1>3. CASE b.epoch > a.epoch
  <2>1. b.epoch = a.epoch + 1 /\ a.state = "Ct2Sampled"
    BY <1>3 DEF Pair, PairOK
  <2>2. Known(a) = a.epoch
    BY <2>1 DEF Known, SampledStates
  <2> QED BY <1>1, <1>2, <2>1, <2>2 DEF InternalEpoch
<1>4. CASE ~(b.epoch > a.epoch)
  BY <1>1, <1>2, <1>4 DEF InternalEpoch
<1> QED BY <1>3, <1>4

(* An epoch that is added with a message gives up nothing of the epoch of  *)
(* the message.                                                            *)
LEMMA AddIfAnyGivesUp ==
  ASSUME NEW n \in Nat, NEW s, SpqrOK(s, n), NEW secret, NEW e \in 0 .. n, NEW i \in Nat,
         secret # NoValue => e = n, GivenUp(AddIfAny(s, secret), e, i)
  PROVE  GivenUp(s, e, i)
<1>1. CASE secret = NoValue
  BY <1>1 DEF AddIfAny
<1>2. CASE secret # NoValue
  <2> DEFINE z == AddEpoch(s, secret)
             new == [InitialChains EXCEPT !.root = Append(s.RK, secret)]
  <2>1. /\ z.epoch = n + 1 /\ z.MKSKIPPED = s.MKSKIPPED
        /\ z.kdfChains = [x \in DOMAIN s.kdfChains \cup {n + 1} |->
                            IF x = n + 1 THEN new ELSE s.kdfChains[x]]
    BY DEF AddEpoch, SpqrOK, SpqrFields
  <2>2. GivenUp(z, e, i)
    BY <1>2 DEF AddIfAny
  <2> HIDE DEF z, new
  <2>3. e # n + 1 /\ e = n /\ s.epoch = n
    BY <1>2 DEF SpqrOK
  <2>4. e \in DOMAIN z.kdfChains => e \in DOMAIN s.kdfChains /\ z.kdfChains[e] = s.kdfChains[e]
    BY <2>1, <2>3
  <2>5. ~(e + 1 < z.epoch)
    BY <2>1, <2>3
  <2> QED BY <2>1, <2>2, <2>4, <2>5 DEF GivenUp, Trimmed
<1> QED BY <1>1, <1>2

\* What is known of a message under way: where its key is, and what the key is.
UnderWay(p, s, n, m) ==
  LET e == InternalEpoch(m.chunk.epoch) IN
  /\ n \in Nat /\ SpqrOK(s, n) /\ ChainsKept(s)
  /\ m.from = Peer(p) /\ m.index \in Nat /\ e \in 0 .. n
  /\ m.index = 0 => m.key = NoValue
  /\ m.index # 0 => m.key = MessageKey(Roots(e), Peer(p), m.index) /\ Available(s, e, m.index)

(* The invariant says so of every message under way.                       *)
LEMMA TransitIsUnderWay ==
  ASSUME DInv, NEW p \in Parties, NEW m \in InTransit(p)
  PROVE  UnderWay(p, spqr[p], Known(agent[p]), m)
<1> DEFINE q == sent[Peer(p)]
           e == InternalEpoch(m.chunk.epoch)
<1>1. Peer(p) \in Parties
  BY RolesSwap
<1>2. /\ Pair(p, agent[p], agent[Peer(p)]) /\ SpqrOK(spqr[p], Known(agent[p]))
      /\ SentOK(Peer(p), agent[Peer(p)], spqr[Peer(p)], q)
      /\ LinkOK(spqr[p], spqr[Peer(p)], q, received[p])
  BY <1>1 DEF DInv, Links, IInv, PartyOK
<1>3. PICK j \in DOMAIN q : m = q[j] /\ m \notin received[p]
  BY DEF InTransit
<1>4. ChunkOK(Peer(p), agent[Peer(p)], m.chunk) /\ SendOK(Peer(p), spqr[Peer(p)], m)
  BY <1>2, <1>3 DEF SentOK
<1>5. Known(agent[p]) \in Nat /\ e \in 0 .. Known(agent[p])
  BY <1>2, <1>4, EpochIsKnown
<1>6. m.index # 0 => Available(spqr[p], e, m.index)
  BY <1>2, <1>3 DEF LinkOK, TransitOK
<1>7. ChainsKept(spqr[p])
  BY <1>2 DEF LinkOK
<1> HIDE DEF e
<1>8. /\ m.from = Peer(p) /\ m.index \in Nat
      /\ m.index = 0 => m.key = NoValue
      /\ m.index # 0 => m.key = MessageKey(Roots(e), Peer(p), m.index)
  BY <1>4 DEF SendOK, e
<1> QED BY <1>2, <1>5, <1>6, <1>7, <1>8 DEF UnderWay, e

(* Of such a message deriveSPQRReceiveKey() returns the key, unless a      *)
(* limit gives it up.                                                      *)
LEMMA UnderWayOpens ==
  ASSUME NEW p, NEW s, NEW n, NEW m, UnderWay(p, s, n, m), s.negotiated,
         ~GivenUp(s, InternalEpoch(m.chunk.epoch), m.index)
  PROVE  LET d == DeriveReceive(s, m.from, InternalEpoch(m.chunk.epoch), m.index) IN
         d.ok /\ d.key = m.key
<1> DEFINE e == InternalEpoch(m.chunk.epoch)
<1>1. /\ n \in Nat /\ SpqrOK(s, n) /\ ChainsKept(s)
      /\ m.from = Peer(p) /\ m.index \in Nat /\ e \in 0 .. n
  BY DEF UnderWay
<1>2. m.index = 0 => m.key = NoValue
  BY DEF UnderWay
<1>3. m.index # 0 => m.key = MessageKey(Roots(e), Peer(p), m.index) /\ Available(s, e, m.index)
  BY DEF UnderWay
<1> HIDE DEF e
<1>4. CASE m.index = 0
  BY <1>2, <1>4, NoIndexOpens
<1>5. CASE m.index # 0
  <2>1. ~GivenUp(s, e, m.index)
    BY DEF e
  <2>2. /\ DeriveReceive(s, m.from, e, m.index).ok
        /\ DeriveReceive(s, m.from, e, m.index).key = MessageKey(Roots(e), m.from, m.index)
    BY <1>1, <1>3, <1>5, <2>1, DeriveOpens
  <2> QED BY <1>1, <1>3, <1>5, <2>2 DEF e
<1> QED BY <1>4, <1>5

(* A step that opens nothing leaves the message under way.                 *)
LEMMA UnderWayStays ==
  ASSUME NEW p, NEW s, NEW n, NEW m, UnderWay(p, s, n, m),
         NEW z, NEW k \in Nat, n <= k, SpqrOK(z, k), Retains(s, z, {})
  PROVE  UnderWay(p, z, k, m)
<1> DEFINE e == InternalEpoch(m.chunk.epoch)
<1>1. /\ n \in Nat /\ ChainsKept(s)
      /\ m.from = Peer(p) /\ m.index \in Nat /\ e \in 0 .. n
  BY DEF UnderWay
<1>2. m.index = 0 => m.key = NoValue
  BY DEF UnderWay
<1>3. m.index # 0 => m.key = MessageKey(Roots(e), Peer(p), m.index) /\ Available(s, e, m.index)
  BY DEF UnderWay
<1> HIDE DEF e
<1>4. e \in 0 .. k /\ e \in Nat
  BY <1>1
<1>5. m.index # 0 => Available(z, e, m.index)
  BY <1>1, <1>3, <1>4 DEF Retains
<1>6. ChainsKept(z)
  BY <1>1 DEF Retains
<1> QED BY <1>1, <1>2, <1>3, <1>4, <1>5, <1>6 DEF UnderWay, e

(* spqrRecv(): the chunk is taken, and the epoch that it may complete does *)
(* not give up the message.                                                *)
LEMMA RecvOpens ==
  ASSUME DInv, NEW p \in Parties, NEW m \in InTransit(p),
         ~GivenUp(spqr[p], InternalEpoch(m.chunk.epoch), m.index)
  PROVE  RecvOutcome(p, m).ok /\ RecvOutcome(p, m).key = m.key
<1> DEFINE a == agent[p]
           b == agent[Peer(p)]
           s == spqr[p]
           o == IF m.chunk.type = "None" THEN Absorbed(a) ELSE BraidReceive(a, m.chunk)
           u == [s EXCEPT !.negotiated = TRUE]
           t == AddIfAny(u, o.secret)
           e == InternalEpoch(m.chunk.epoch)
           i == m.index
           d == DeriveReceive(t, m.from, e, i)
           r == RecvOutcome(p, m)
           n == Known(o.agent)
<1>1. IInv /\ Pair(p, a, b) /\ AgentOK(p, a) /\ SpqrOK(s, Known(a))
  BY DEF DInv, IInv, Pair, PartyOK
<1>2. ChunkOK(Peer(p), b, m.chunk) /\ i \in Nat /\ m.chunk.epoch \in Nat \ {0} /\ e \in Nat
  BY <1>1, InTransitOK
<1>3. ReceiveResult(p, a, b, o) /\ (o.secret # NoValue => m.chunk.epoch = a.epoch)
  <2>1. CASE m.chunk.type = "None"
    <3>1. ReceiveResult(p, a, b, Absorbed(a)) /\ Absorbed(a).secret = NoValue
      BY <1>1, IgnoredOK DEF Absorbed
    <3> QED BY <2>1, <3>1
  <2>2. CASE m.chunk.type # "None"
    <3>1. ReceiveResult(p, a, b, BraidReceive(a, m.chunk))
      BY <1>1, <1>2, <2>2, BraidReceiveOK
    <3>2. a.epoch \in Nat
      BY <1>1 DEF AgentOK
    <3>3. BraidReceive(a, m.chunk).secret # NoValue => m.chunk.epoch = a.epoch
      BY <1>2, <3>2, SecretOfEpoch
    <3> QED BY <2>2, <3>1, <3>3
  <2> QED BY <2>1, <2>2
<1>4. r.ok = (o.ok /\ d.ok) /\ r.key = d.key
  BY DEF RecvOutcome
<1>5. UnderWay(p, s, Known(a), m)
  BY TransitIsUnderWay
<1>6. u.MKSKIPPED = s.MKSKIPPED /\ u.kdfChains = s.kdfChains /\ u.epoch = s.epoch
  BY <1>1 DEF SpqrOK, SpqrFields
<1>7. ~GivenUp(s, e, i)
  OBVIOUS
<1> HIDE DEF a, b, s, o, t, e, i, d, r, n
<1>8. AgentOK(p, o.agent) /\ o.ok
  BY <1>3 DEF ReceiveResult, Pair
<1>9. Known(a) \in Nat /\ n \in Nat /\ a.epoch \in Nat \ {0}
  BY <1>1, <1>8, KnownType DEF n
<1>10. (o.secret = NoValue /\ n = Known(a)) \/ (o.secret = EpochSecret(Known(a) + 1) /\ n = Known(a) + 1)
  BY <1>3, <1>9 DEF ReceiveResult, n
<1>11. SpqrOK(u, Known(a)) /\ u.negotiated = TRUE /\ Retains(s, u, {})
  BY <1>1, <1>9, NegotiatedOK
<1>12. ~GivenUp(u, e, i)
  BY <1>6, <1>7 DEF GivenUp, Trimmed
<1> HIDE DEF u
<1>13. SpqrOK(t, n) /\ t.negotiated = TRUE /\ Retains(u, t, {})
  BY <1>9, <1>10, <1>11, AddIfAnyOK DEF t
<1>14. UnderWay(p, t, n, m)
  <2>1. Retains(s, t, {})
    BY <1>11, <1>13, RetainsTransitive
  <2>2. Known(a) <= n
    BY <1>9, <1>10
  <2> QED BY <1>5, <1>9, <1>13, <2>1, <2>2, UnderWayStays
<1>15. ~GivenUp(t, e, i)
  <2>1. e \in 0 .. Known(a)
    BY <1>5 DEF UnderWay, e
  <2>2. o.secret # NoValue => e = Known(a)
    BY <1>3, <1>9 DEF ReceiveResult, InternalEpoch, e
  <2> QED BY <1>2, <1>9, <1>11, <1>12, <2>1, <2>2, AddIfAnyGivesUp DEF t
<1>16. d.ok /\ d.key = m.key
  BY <1>13, <1>14, <1>15, UnderWayOpens DEF d, e, i
<1> QED BY <1>4, <1>8, <1>16 DEF r

(* A message in transit opens, overtaken or not.                           *)
LEMMA EveryMessageOpensNow ==
  ASSUME DInv
  PROVE  EveryMessageOpens
<1> SUFFICES ASSUME NEW p \in Parties, NEW m \in InTransit(p),
                    ~GivenUp(spqr[p], InternalEpoch(m.chunk.epoch), m.index)
             PROVE  DecryptOutcome(p, m).ok /\ DecryptOutcome(p, m).key = m.key
  BY DEF EveryMessageOpens
<1>1. CASE ~Overtaken(p, m)
  BY <1>1, RecvOpens DEF DecryptOutcome
<1>2. CASE Overtaken(p, m)
  <2>1. UnderWay(p, spqr[p], Known(agent[p]), m)
    BY TransitIsUnderWay
  <2>2. spqr[p].negotiated
    BY <1>2 DEF DInv, IInv, PartyOK, ReceivedOK, Overtaken
  <2> DEFINE d == DeriveReceive(spqr[p], m.from, InternalEpoch(m.chunk.epoch), m.index)
  <2>3. d.ok /\ d.key = m.key
    BY <2>1, <2>2, UnderWayOpens
  <2>4. LateOutcome(p, m).ok = d.ok /\ LateOutcome(p, m).key = d.key
    BY DEF LateOutcome
  <2> QED BY <1>2, <2>3, <2>4 DEF DecryptOutcome
<1> QED BY <1>1, <1>2

(* For any chunk counts, limits, losses and orders: spqrRecv() and         *)
(* trySkippedMessageKeys() derive for every message under way the key that *)
(* its sender used, unless its index is below the trim horizon, its epoch  *)
(* is two behind, or the chain would have to jump past maxMessageJump.     *)
THEOREM MessagesOpen == Spec => []EveryMessageOpens
  BY DeliveryInvariance, EveryMessageOpensNow, PTL

-----------------------------------------------------------------------------
(* The stall after the first epoch.                                        *)

\* An agent that has reached the second epoch waits for a header.
Waits(a) == a.epoch = 1 \/ (a.epoch = 2 /\ a.state = "NoHeaderReceived")

AllWait == \A p \in Parties : Waits(agent[p])

\* No second secret is ever mixed into a root.
OneSecret == \A p \in Parties : spqr[p].epoch <= 1

(* A waiting agent sends no chunk, and stays where it is.                  *)
LEMMA SendWaits ==
  ASSUME NEW p, NEW a, AgentOK(p, a), Waits(a)
  PROVE  Waits(BraidSend(p, a).agent)
<1>1. CASE a.epoch = 1
  <2>1. SendResult(p, a, BraidSend(p, a))
    BY BraidSendOK
  <2> QED BY <1>1, <2>1 DEF SendResult, Waits
<1>2. CASE a.epoch = 2 /\ a.state = "NoHeaderReceived"
  <2>1. BraidSend(p, a) = SendNothing(a, "None")
    BY <1>2 DEF BraidSend, SendBob, AliceStates
  <2> QED BY <1>2, <2>1 DEF SendNothing, Waits
<1> QED BY <1>1, <1>2 DEF Waits

(* Every chunk under way is of the first epoch, so that an agent in the    *)
(* second ignores it, and no other than the last of ct2 ends the first.    *)
LEMMA ReceiveWaits ==
  ASSUME NEW p \in Parties, NEW a, NEW b, Pair(p, a, b), Waits(a), Waits(b),
         NEW k, ChunkOK(Peer(p), b, k), k.type # "None"
  PROVE  Waits(BraidReceive(a, k).agent)
<1> DEFINE r == BraidReceive(a, k)
<1>1. k.epoch = 1
  <2>1. k.epoch \in 1 .. b.epoch
    BY DEF ChunkOK
  <2>2. CASE b.epoch = 1
    BY <2>1, <2>2
  <2>3. CASE b.epoch = 2 /\ b.state = "NoHeaderReceived"
    <3>1. k.epoch = 2 => "NoHeaderReceived" \in StatesAfter(k.type)
      BY <2>3 DEF ChunkOK
    <3>2. k.type \in AliceTypes \union BobTypes
      BY DEF ChunkOK
    <3>3. "NoHeaderReceived" \notin StatesAfter(k.type)
      BY <3>2 DEF StatesAfter, AliceTypes, BobTypes, AliceStates, SampledStates
    <3> QED BY <2>1, <2>3, <3>1, <3>3
  <2> QED BY <2>2, <2>3 DEF Waits
<1>2. CASE a.epoch = 2 /\ a.state = "NoHeaderReceived"
  <2>1. r = Absorbed(a)
    BY <1>1, <1>2 DEF BraidReceive, ReceiveBob, AliceStates
  <2> QED BY <1>2, <2>1 DEF Absorbed, Waits
<1>3. CASE a.epoch = 1 /\ a.state \notin AliceStates
  <2>1. ReceiveResult(p, a, b, r)
    BY BraidReceiveOK
  <2>2. r = ReceiveBob(a, k) /\ a.epoch \in Nat
    BY <1>3 DEF BraidReceive, Pair, AgentOK
  <2>3. \A c \in {"Hdr", "Ek"} : AddChunk(a, c, k).epoch = a.epoch
    BY DEF AddChunk, Pair, AgentOK, AgentFields
  <2>4. r.agent.epoch = 1
    BY <1>1, <1>3, <2>2, <2>3 DEF ReceiveBob, ReceiveHeader, ReceiveEk, SampleCt2, Absorbed, Refused, AddChunk, Pair, AgentOK, AgentFields
  <2> QED BY <2>4 DEF Waits
<1>4. CASE a.epoch = 1 /\ a.state \in AliceStates
  <2>1. r = ReceiveAlice(a, k)
    BY <1>4 DEF BraidReceive
  <2>2. DOMAIN a = AgentFields
    BY DEF Pair, AgentOK
  <2>3. Waits(ReceiveCt1(a, k))
    BY <1>4, <2>2 DEF ReceiveCt1, AddChunk, AgentFields, Waits
  <2>4. Waits(ReceiveCt2(a, k).agent)
    BY <1>4, <2>2 DEF ReceiveCt2, AddChunk, AgentFields, Waits, Absorbed, Refused, FreshAgent
  <2> QED BY <1>1, <1>4, <2>1, <2>3, <2>4 DEF ReceiveAlice, Absorbed, Refused, Waits
<1> QED BY <1>2, <1>3, <1>4 DEF Waits

(* The first epoch is the last: after it each side waits for a header that *)
(* the other cannot send.  The exception of EveryMessageOpens for old      *)
(* epochs never applies.                                                   *)
THEOREM BraidStallsForGood == Spec => []OneSecret
<1>1. Init => AllWait
  BY DEF Init, AllWait, Waits, FreshAgent
<1>2. IInv /\ AllWait /\ [Next]_vars => AllWait'
  <2> SUFFICES ASSUME IInv, AllWait, [Next]_vars PROVE AllWait'
    OBVIOUS
  <2>1. ASSUME NEW p \in Parties, Encrypt(p) PROVE AllWait'
    <3>4. SendOutcome(p).agent = BraidSend(p, agent[p]).agent
      BY DEF SendOutcome
    <3>1. agent' = [agent EXCEPT ![p] = BraidSend(p, agent[p]).agent]
      BY <2>1, <3>4 DEF Encrypt
    <3>2. AgentOK(p, agent[p])
      BY DEF IInv, Pair
    <3>3. Waits(BraidSend(p, agent[p]).agent)
      BY <3>2, SendWaits DEF AllWait
    <3> QED BY <3>1, <3>3 DEF AllWait, IInv, ByParty
  <2>2. ASSUME NEW p \in Parties, Decrypt(p) PROVE AllWait'
    <3>1. PICK m \in InTransit(p) : agent' = [agent EXCEPT ![p] = DecryptOutcome(p, m).agent]
      BY <2>2 DEF Decrypt
    <3>2. Pair(p, agent[p], agent[Peer(p)]) /\ ChunkOK(Peer(p), agent[Peer(p)], m.chunk)
      BY InTransitOK DEF IInv
    <3>3. Waits(agent[p]) /\ Waits(agent[Peer(p)])
      BY RolesSwap DEF AllWait
    <3> DEFINE o == IF m.chunk.type = "None" THEN Absorbed(agent[p])
                                             ELSE BraidReceive(agent[p], m.chunk)
    <3>4. DecryptOutcome(p, m).agent \in {agent[p], o.agent}
      BY DEF DecryptOutcome, LateOutcome, RecvOutcome
    <3>5. Waits(o.agent)
      <4>1. CASE m.chunk.type = "None"
        BY <3>3, <4>1 DEF Absorbed
      <4>2. CASE m.chunk.type # "None"
        BY <3>2, <3>3, <4>2, ReceiveWaits
      <4> QED BY <4>1, <4>2
    <3>6. Waits(DecryptOutcome(p, m).agent)
      BY <3>3, <3>4, <3>5
    <3> QED BY <3>1, <3>6 DEF AllWait, IInv, ByParty
  <2>3. CASE UNCHANGED vars
    BY <2>3 DEF vars, AllWait
  <2> QED BY <2>1, <2>2, <2>3 DEF Next
<1>3. IInv /\ AllWait => OneSecret
  <2> SUFFICES ASSUME IInv, AllWait, NEW p \in Parties PROVE spqr[p].epoch <= 1
    BY DEF OneSecret
  <2>1. spqr[p].epoch = Known(agent[p]) /\ AgentOK(p, agent[p])
    BY DEF IInv, PartyOK, SpqrOK, Pair
  <2> QED BY <2>1 DEF AllWait, Waits, Known, SampledStates
<1> QED BY <1>1, <1>2, <1>3, Invariance, PTL DEF Spec

=============================================================================
