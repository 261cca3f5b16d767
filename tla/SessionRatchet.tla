--------------------------- MODULE SessionRatchet ---------------------------
(***************************************************************************)
(* One session between its initiator and its responder, over a transport   *)
(* that loses, repeats and reorders messages: SessionCipher.encrypt() and  *)
(* SessionCipher.decrypt() when the session record holds one session.      *)
(*                                                                         *)
(* Both calls run under the record lock of the peer's address, work on a   *)
(* clone, and write the record once, when they succeed; so each is one     *)
(* step, and a call that fails leaves no trace.  A crash before the write  *)
(* is a call that did not happen, and a crash after encrypt()'s write is a *)
(* message that the transport loses.                                       *)
(***************************************************************************)
EXTENDS DoubleRatchet

CONSTANTS
  Alice, Bob,       \* the initiator and the responder
  MaxRatchets,      \* bound: the DH ratchet steps of both parties together
  MaxTime           \* bound: the ticks of the clock

ASSUME PartiesDiffer == Alice # Bob

ASSUME BoundsAssumption == MaxRatchets \in Nat /\ MaxTime \in Nat

Parties == {Alice, Bob}

\* The value of an unset field is neither a key pair nor a chain key.
ASSUME NoKeyAssumption ==
  /\ NoKey \notin Parties \X Nat
  /\ NoKey \notin Seq({"SK", "CK"} \cup SUBSET (Parties \X Nat))

Peer(p) == IF p = Alice THEN Bob ELSE Alice

VARIABLES
  session,   \* the stored currentSession of each party
  ratchets,  \* the ratchet key pairs that each party has generated
  sent,      \* by party, the messages that it has sent
  accepted,  \* by party, the messages that decrypt() has returned
  now        \* the clock

vars == <<session, ratchets, sent, accepted, now>>

\* The key pair that a party's next DH ratchet step generates.
FreshKey(p) == <<p, ratchets[p] + 1>>

RatchetSteps == ratchets[Alice] + ratchets[Bob]

\* One attempt of party p to decrypt m, as the next step would see it.
Attempt(p, m) == Receive(session[p], m, FreshKey(p), now)

-----------------------------------------------------------------------------

Init ==
  /\ session = [p \in Parties |->
       IF p = Alice THEN InitiatorSession("SK", <<Alice, 0>>, <<Bob, 0>>)
                    ELSE ResponderSession("SK", <<Bob, 0>>)]
  /\ ratchets = [p \in Parties |-> 0]
  /\ sent = [p \in Parties |-> {}]
  /\ accepted = [p \in Parties |-> {}]
  /\ now = 0

\* encrypt(): the message key is derived, and the advanced chain is stored.
Encrypt(p) ==
  LET s == Cleanup(session[p], now) IN
  /\ CanSend(session[p])
  /\ ~SendOverflows(s)
  /\ sent' = [sent EXCEPT ![p] = @ \cup {MessageOf(s)}]
  /\ session' = [session EXCEPT ![p] = AfterSend(s)]
  /\ UNCHANGED <<ratchets, accepted, now>>

\* decrypt() of any message that the peer ever sent, any number of times.
Decrypt(p, m) ==
  LET r == Attempt(p, m) IN
  /\ r.result = "ok"
  /\ r.session.DHs # session[p].DHs => RatchetSteps < MaxRatchets
  /\ session' = [session EXCEPT ![p] = r.session]
  /\ ratchets' = [ratchets EXCEPT ![p] = IF r.session.DHs = session[p].DHs THEN @ ELSE @ + 1]
  /\ accepted' = [accepted EXCEPT ![p] = @ \cup {m}]
  /\ UNCHANGED <<sent, now>>

\* decrypt() throws, and stores nothing.
DecryptFails(p, m) ==
  /\ Attempt(p, m).result # "ok"
  /\ UNCHANGED vars

Tick ==
  /\ now < MaxTime
  /\ now' = now + 1
  /\ UNCHANGED <<session, ratchets, sent, accepted>>

Next ==
  \/ \E p \in Parties :
       \/ Encrypt(p)
       \/ \E m \in sent[Peer(p)] : Decrypt(p, m) \/ DecryptFails(p, m)
  \/ Tick

Spec == Init /\ [][Next]_vars

-----------------------------------------------------------------------------
(* Properties.                                                             *)

\* The keys a party may still hold, as pairs of a chain and an index.
StoredKeys(s) == {<<k.chain, k.index>> : k \in s.keys}

KeyPairs == Parties \X Nat

\* A session state is well formed: its keys are key pairs of the two parties, and
\* no counter, of the chains or of a stored key, passes MAX_MESSAGE_COUNTER.
TypeOK ==
  /\ now \in 0 .. MaxTime
  /\ ratchets \in [Parties -> 0 .. MaxRatchets]
  /\ \A p \in Parties :
       LET s == session[p] IN
       /\ s.DHs \in KeyPairs /\ s.DHr \in KeyPairs \cup {NoKey}
       /\ s.Ns \in 0 .. MaxCounter /\ s.Nr \in 0 .. MaxCounter /\ s.PN \in 0 .. MaxCounter
       /\ \A k \in s.keys : k.rk \in KeyPairs /\ k.index \in 0 .. MaxCounter - 1

\* The array of receiver chains and the stored keys fit each other through
\* evictions and cleanups: every stored key has its chain in the array, and the
\* chains are numbered without gaps, so the first is the oldest.
ChainsMatchKeys ==
  \A p \in Parties :
    LET c == session[p].chains IN
    /\ {c[rk] : rk \in DOMAIN c} = 0 .. Cardinality(DOMAIN c) - 1
    /\ \A k \in session[p].keys : k.rk \in DOMAIN c

\* A message that decrypt() returned once is refused for ever, however often and
\* in whatever order the transport repeats it, across DH ratchets, evictions and
\* the expiry of keys and of processed chains.
ReplayRefused ==
  \A p \in Parties : \A m \in accepted[p] : Attempt(p, m).result # "ok"

\* The key that opened a message is gone: it is not among the stored keys, and
\* the receiving chain has moved past it, so the stored state cannot derive it.
KeyErased ==
  \A p \in Parties : \A m \in accepted[p] :
    /\ <<m.chain, m.counter>> \notin StoredKeys(session[p])
    /\ m.chain = session[p].CKr => m.counter < session[p].Nr

\* encrypt() never uses a message key twice.
SendKeyFresh ==
  \A p \in Parties : \A m \in sent[p] :
    ~(m.chain = session[p].CKs /\ m.counter = session[p].Ns)

\* The two roots stay one DH step apart, and one extends the other: no replayed
\* or late header ever makes a party step off the common ratchet.
RootsInStep ==
  LET a == session[Alice].RK
      b == session[Bob].RK
  IN  \/ Len(b) = Len(a) + 1 /\ SubSeq(b, 1, Len(a)) = a
      \/ Len(a) = Len(b) + 1 /\ SubSeq(a, 1, Len(b)) = b

\* The storage limits hold: MAX_RECEIVER_CHAINS chains of maxMessageKeysStored
\* keys each, however many messages are skipped.
SkippedKeysBounded ==
  \A p \in Parties :
    /\ Cardinality(DOMAIN session[p].chains) <= MaxReceiverChains
    /\ \A k \in session[p].keys :
         Cardinality(Stored(session[p], k.rk)) <= MaxMessageKeys

\* The gap that m opens, in the chain it belongs to or in the one it closes.
WithinSkip(p, m) ==
  LET s == session[p] IN
  IF s.DHr = m.rk \/ s.DHr = NoKey
    THEN m.counter <= MaxSkip + (IF s.DHr = m.rk THEN s.Nr ELSE 0)
    ELSE m.counter <= MaxSkip /\ m.previousCounter <= s.Nr + MaxSkip

\* No stored key can be evicted or expire: within the bounds of a behaviour, the
\* limits of the storage are not reached.
RoomForAll ==
  /\ MaxTime <= MaxKeyAge
  /\ MaxCounter <= MaxMessageKeys
  /\ MaxRatchets < MaxReceiverChains

\* Where no stored key can be evicted or expire, every message that was sent and
\* not yet received opens, whatever arrived before it, as long as it asks for no
\* gap beyond MaxSkip.  A message of an earlier chain is among the stored keys.
EveryMessageOpens ==
  \A p \in Parties : \A m \in sent[Peer(p)] \ accepted[p] :
    WithinSkip(p, m) \/ ProcessedChain(session[p], m.rk) => Attempt(p, m).result = "ok"

\* A message that decrypt() reports as a duplicate was returned before.
DuplicateWasAccepted ==
  \A p \in Parties : \A m \in sent[Peer(p)] :
    Attempt(p, m).result = "duplicate" => m \in accepted[p]

=============================================================================
