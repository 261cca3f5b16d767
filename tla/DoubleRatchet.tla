---------------------------- MODULE DoubleRatchet ----------------------------
(***************************************************************************)
(* The ratchet of one session as operators on a session state:             *)
(* internal/protocol/double-ratchet (chains.ts, ratchet.ts) and the part   *)
(* of SessionCipher.decrypt() that works on one candidate session.         *)
(*                                                                         *)
(* Keys are symbolic.  A ratchet key pair is a value; the Diffie-Hellman   *)
(* output of two of them is the set of the two.  A root key is the         *)
(* sequence of everything mixed into it, the chain key that kdfRootKey     *)
(* derives next to it is named by the same sequence, and the message key   *)
(* number i of a chain c is the pair (c, i).  Two parties hold the same    *)
(* key exactly when they mixed in the same values in the same order.       *)
(***************************************************************************)
EXTENDS Integers, Sequences, FiniteSets

CONSTANTS
  NoKey,              \* DHr, CKs and CKr before they are set
  MaxSkip,            \* config.maxSkip: the largest gap decrypt() bridges
  MaxMessageKeys,     \* maxMessageKeysStored, per receiver chain
  MaxReceiverChains,  \* MAX_RECEIVER_CHAINS
  MaxKeyAge,          \* maxMessageKeyAge, in ticks of the clock
  MaxCounter          \* MAX_MESSAGE_COUNTER

ASSUME RatchetAssumption ==
  /\ MaxSkip \in Nat
  /\ MaxMessageKeys \in Nat \ {0}
  /\ MaxReceiverChains \in Nat \ {0}
  /\ MaxKeyAge \in Nat
  /\ MaxCounter \in Nat

\* computeSharedSecret(): the same value for both parties.
DH(a, b) == {a, b}

\* kdfRootKey(): the next root key, and the chain key that comes with it.
KdfRootKey(root, dh) == Append(root, dh)

-----------------------------------------------------------------------------
(* A session state.  keys are the message keys of all receiver chains;     *)
(* chains gives, for each ratchet key that has a receiver chain, the place *)
(* of the chain in the array receiverChains.                               *)

NoChains == [rk \in {} |-> 0]

\* createInitiatorSession(), with the root step of buildInitiatorSession().
\* CKr is a range of the PQXDH output that the peer never sends on.
InitiatorSession(secret, ephemeral, signedPreKey) ==
  LET root == KdfRootKey(<<secret>>, DH(ephemeral, signedPreKey)) IN
  [DHs |-> ephemeral, DHr |-> signedPreKey, RK |-> root, CKs |-> root, Ns |-> 0,
   CKr |-> <<secret, "CK">>, Nr |-> 0, PN |-> 0,
   chains |-> NoChains, keys |-> {}, processed |-> {}]

\* createResponderSession(): the first message received completes it.
ResponderSession(secret, signedPreKey) ==
  [DHs |-> signedPreKey, DHr |-> NoKey, RK |-> <<secret>>, CKs |-> NoKey, Ns |-> 0,
   CKr |-> NoKey, Nr |-> 0, PN |-> 0,
   chains |-> NoChains, keys |-> {}, processed |-> {}]

\* assertValidatedSession(): encrypt() needs a sending chain.
CanSend(s) == s.DHr # NoKey /\ s.CKs # NoKey

\* Mutant of SendOverflows: the limit is not checked.
SendNeverOverflows(s) == FALSE

\* deriveSendingKey() refuses to run its counter over.
SendOverflows(s) == s.Ns >= MaxCounter

\* The header and the key of the message that encrypt() makes next.
MessageOf(s) ==
  [rk |-> s.DHs, counter |-> s.Ns, previousCounter |-> s.PN, chain |-> s.CKs]

\* Mutant of AfterSend: the advanced chain is not stored before the ciphertext
\* leaves.
AfterSendUnsaved(s) == s

\* deriveSendingKey(): the chain moves on.
AfterSend(s) == [s EXCEPT !.Ns = @ + 1]

-----------------------------------------------------------------------------
(* Skipped message keys: chains.ts.                                        *)

Stored(s, rk) == {k \in s.keys : k.rk = rk}

\* tryGetSkippedKey(): the stored key of a header.
SkippedKeys(s, rk, n) == {k \in Stored(s, rk) : k.index = n}

\* Mutant of ConsumeSkipped: the key is read and stays where it is.
ConsumeSkippedLeavesKey(s, rk, n) == s

\* consumeMessageKeyFromChain(): the key leaves the chain; an emptied chain
\* stays in the array until the next cleanup.
ConsumeSkipped(s, rk, n) == [s EXCEPT !.keys = @ \ SkippedKeys(s, rk, n)]

\* Mutant of KeepHighest: no limit.
KeepAll(ks) == ks

\* evictLowestIndex() before each push: of a chain's keys, those with the
\* highest indices stay.
KeepHighest(ks) ==
  {k \in ks : Cardinality({j \in ks : j.index > k.index}) < MaxMessageKeys}

\* The array with only the chains of the ratchet keys rks, in the same order.
ChainsIn(c, rks) == [rk \in rks |-> Cardinality({q \in rks : c[q] < c[rk]})]

\* The array with a chain for rk at its end.
PushChain(c, rk) ==
  [q \in DOMAIN c \cup {rk} |-> IF q = rk THEN Cardinality(DOMAIN c) ELSE c[q]]

\* Mutant of AddChain: the oldest chain leaves the array, its keys do not.
AddChainKeepsKeys(s, rk) ==
  LET old  == DOMAIN s.chains
      kept == IF Cardinality(old) >= MaxReceiverChains
                THEN {q \in old : s.chains[q] # 0} ELSE old
  IN  [s EXCEPT !.chains = PushChain(ChainsIn(@, kept), rk)]

\* getOrCreateReceiverChain() when rk has no chain yet: the oldest chain is
\* shifted out of a full array, with its keys.
AddChain(s, rk) ==
  LET old  == DOMAIN s.chains
      kept == IF Cardinality(old) >= MaxReceiverChains
                THEN {q \in old : s.chains[q] # 0} ELSE old
  IN  [s EXCEPT !.chains = PushChain(ChainsIn(@, kept), rk),
                !.keys = {k \in @ : k.rk \notin old \ kept}]

ReceiverChain(s, rk) == IF rk \in DOMAIN s.chains THEN s ELSE AddChain(s, rk)

\* Mutant of StoreKeys: the loop runs to until itself.
StoreKeysInclusive(s, until, now) ==
  LET t == ReceiverChain(s, s.DHr) IN
  [t EXCEPT !.keys = @ \cup KeepHighest(
     {[rk |-> s.DHr, index |-> i, chain |-> s.CKr, at |-> now] : i \in s.Nr .. until})]

\* The loop of storeMessageKeyInChain() over the indices from..until-1 of the
\* current receiving chain.  An index that is stored already is not stored again.
StoreKeys(s, until, now) ==
  IF until <= s.Nr
    THEN s
    ELSE LET t     == ReceiverChain(s, s.DHr)
             fresh == {[rk |-> s.DHr, index |-> i, chain |-> s.CKr, at |-> now] :
                         i \in {j \in s.Nr .. until - 1 : SkippedKeys(t, s.DHr, j) = {}}}
         IN  [t EXCEPT !.keys = (@ \ Stored(t, s.DHr))
                                  \cup KeepHighest(Stored(t, s.DHr) \cup fresh)]

\* cleanupExpiredKeys() and cleanupExpiredProcessedChains(): what is older than
\* MaxKeyAge goes, then the chains without keys.  A session that has received
\* nothing yet is left alone.
Cleanup(s, now) ==
  IF s.DHr = NoKey
    THEN s
    ELSE LET live == {k \in s.keys : now - k.at <= MaxKeyAge}
         IN  [s EXCEPT !.keys = live,
                       !.processed = {c \in @ : now - c.at <= MaxKeyAge},
                       !.chains = ChainsIn(@, {rk \in DOMAIN @ : \E k \in live : k.rk = rk})]

-----------------------------------------------------------------------------
(* The DH ratchet and the receiving chain.                                 *)

\* Mutant of DHRatchet: the second root key is not stored.
DHRatchetKeepsRoot(s, rk, fresh) ==
  LET receiving == KdfRootKey(s.RK, DH(s.DHs, rk))
      sending   == KdfRootKey(receiving, DH(fresh, rk))
  IN  [s EXCEPT !.PN = s.Ns, !.Ns = 0, !.Nr = 0, !.DHr = rk, !.DHs = fresh,
                !.CKr = receiving, !.CKs = sending, !.RK = receiving]

\* performDHRatchetStep(): fresh is the key pair it generates.
DHRatchet(s, rk, fresh) ==
  LET receiving == KdfRootKey(s.RK, DH(s.DHs, rk))
      sending   == KdfRootKey(receiving, DH(fresh, rk))
  IN  [s EXCEPT !.PN = s.Ns, !.Ns = 0, !.Nr = 0, !.DHr = rk, !.DHs = fresh,
                !.CKr = receiving, !.CKs = sending, !.RK = sending]

ProcessedChain(s, rk) == \E c \in s.processed : c.rk = rk

\* Mutant of CloseChain: the keys of the old chain are not kept.
CloseChainDropsKeys(s, m, now) ==
  [s EXCEPT !.processed = {c \in @ : c.rk # s.DHr} \cup {[rk |-> s.DHr, at |-> now]}]

\* decrypt() before a DH ratchet: the keys of the old chain up to
\* previousCounter are stored, and the old chain counts as processed.
CloseChain(s, m, now) ==
  IF s.DHr = NoKey \/ m.previousCounter = 0 \/ s.CKr = NoKey
    THEN s
    ELSE [StoreKeys(s, m.previousCounter, now) EXCEPT
            !.processed = {c \in @ : c.rk # s.DHr} \cup {[rk |-> s.DHr, at |-> now]}]

\* The result of an attempt to decrypt with one session.
Refused(s, why) == [result |-> why, session |-> s]
Accepted(s) == [result |-> "ok", session |-> s]

\* storeSkippedKeys(), deriveReceivingKey() and the MAC check of
\* decryptWithKey(): the message opens when both sides hold the same key.
ReceiveInChain(s, m, now) ==
  IF m.counter < s.Nr                    THEN Refused(s, "duplicate")
  ELSE IF s.Nr + MaxSkip < m.counter     THEN Refused(s, "failed")
  ELSE IF m.counter >= MaxCounter        THEN Refused(s, "failed")
  ELSE IF m.chain # s.CKr                THEN Refused(s, "failed")
  ELSE Accepted([StoreKeys(s, m.counter, now) EXCEPT !.Nr = m.counter + 1])

\* The DH ratchet path: a gap in the old chain beyond MaxSkip refuses.
ReceiveWithRatchet(s, m, fresh, now) ==
  IF /\ s.DHr # NoKey /\ s.CKr # NoKey
     /\ m.previousCounter > 0
     /\ s.Nr + MaxSkip < m.previousCounter
    THEN Refused(s, "failed")
    ELSE ReceiveInChain(DHRatchet(CloseChain(s, m, now), m.rk, fresh), m, now)

\* trySkippedMessageKeys(): a stored key is used up, and must fit.
ReceiveSkipped(s, m) ==
  IF \E k \in SkippedKeys(s, m.rk, m.counter) : k.chain = m.chain
    THEN Accepted(ConsumeSkipped(s, m.rk, m.counter))
    ELSE Refused(s, "failed")

\* One attempt of decrypt() with one candidate session.
Receive(s0, m, fresh, now) ==
  LET s == Cleanup(s0, now) IN
  IF SkippedKeys(s, m.rk, m.counter) # {} THEN ReceiveSkipped(s, m)
  ELSE IF s.DHr = NoKey                   THEN ReceiveWithRatchet(s, m, fresh, now)
  ELSE IF s.DHr = m.rk                    THEN ReceiveInChain(s, m, now)
  ELSE IF ProcessedChain(s, m.rk)         THEN Refused(s, "duplicate")
  ELSE                                         ReceiveWithRatchet(s, m, fresh, now)

=============================================================================
