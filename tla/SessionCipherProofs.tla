------------------------- MODULE SessionCipherProofs -------------------------
(***************************************************************************)
(* What holds of the session records of two devices for every value of the *)
(* limits, any number of sessions and messages and any order, repetition   *)
(* or loss of them.                                                        *)
(*                                                                         *)
(* Every chain of a session starts with the secret of its base key, so     *)
(* that a session opens only messages with that base key.  Within a        *)
(* session, keys are measured by the length of the root they come from, as *)
(* in SessionRatchetProofs.  A base key has one session in a record,       *)
(* unless a skipped key reopened it: a device uses up its prekeys for a    *)
(* base key of its peer with the first session from it, and never draws a  *)
(* base key of its own twice.                                              *)
(*                                                                         *)
(* That messages open needs both devices at once.  The session of a base   *)
(* key has one state at each device, in the record or not there yet.  As   *)
(* in SessionRatchetProofs, these two states are linked in both directions *)
(* and say where every message on its way will find its key.  The ratchet  *)
(* keys of a device tell its sessions apart, so that no other session of   *)
(* the record takes the message for a duplicate and ends the search.       *)
(***************************************************************************)
EXTENDS SessionCipher, SequenceTheorems, InductionLemmas

\* What may be mixed into a root key.
Mixed == ({"SK"} \X Bases) \cup {"CK"} \cup SUBSET KeyPairs

\* The chains of the sessions with base key b.
Chain(b) == {c \in Seq(Mixed) : Len(c) > 0 /\ c[1] = Secret(b)}

Fields == {"DHs", "DHr", "RK", "CKs", "Ns", "CKr", "Nr", "PN", "chains", "keys", "processed"}

Bodies == [rk : KeyPairs, counter : Nat, previousCounter : Nat, chain : Seq(Mixed)]

\* The key number n of chain c lies behind the receiving chain of s.
Behind(s, c, n) == Len(c) <= Len(s.RK) /\ (c = s.CKr => n < s.Nr)

\* The part of a session state that the stored keys do not touch.
SameRatchet(t, s) ==
  /\ DOMAIN t = Fields
  /\ t.DHs = s.DHs /\ t.DHr = s.DHr /\ t.RK = s.RK /\ t.CKs = s.CKs
  /\ t.Ns = s.Ns /\ t.CKr = s.CKr /\ t.Nr = s.Nr /\ t.PN = s.PN

\* The ratchet state of a session with base key b.
WellFormed(s, b) ==
  /\ DOMAIN s = Fields
  /\ s.DHs \in KeyPairs
  /\ s.RK \in Chain(b)
  /\ s.Ns \in Nat /\ s.Nr \in Nat /\ s.PN \in Nat
  /\ s.DHr # NoKey => s.CKs = s.RK /\ s.CKr \in Chain(b) /\ Len(s.CKr) <= Len(s.RK)
  /\ \A k \in s.keys : k.chain \in Chain(b) /\ k.index \in Nat /\ Behind(s, k.chain, k.index)
  /\ \A k \in s.keys : k.chain = s.CKr => k.rk = s.DHr
  /\ \A k, j \in s.keys : k.chain = j.chain => k.rk = j.rk

\* The messages of acc can be opened no more.
Erased(s, acc) ==
  \A m \in acc :
    /\ Behind(s, m.chain, m.counter)
    /\ \A k \in s.keys : ~(k.chain = m.chain /\ k.index = m.counter)

\* The messages of out use keys that the sending chain has left behind.
SentBehind(s, out) ==
  /\ out = {} \/ s.CKs = s.RK
  /\ \A m \in out : IF m.chain = s.RK THEN m.counter < s.Ns ELSE Len(m.chain) <= Len(s.RK)

\* The sending chain is the one of the root; a session that nothing was received
\* with yet gets it with the first message.
Sends(s) == s.CKs = s.RK
Ready(s) == Sends(s) \/ (s.keys = {} /\ s.DHr = NoKey)

-----------------------------------------------------------------------------
(* Chains.                                                                 *)

\* kdfRootKey() keeps the secret at the start of the chain.
LEMMA ChainGrows ==
  ASSUME NEW b \in Bases, NEW c \in Chain(b), NEW x \in Mixed
  PROVE  /\ KdfRootKey(c, x) \in Chain(b)
         /\ Len(KdfRootKey(c, x)) = Len(c) + 1
<1>1. c \in Seq(Mixed) /\ Len(c) \in Nat /\ Len(c) > 0 /\ c[1] = Secret(b)
  BY DEF Chain
<1>2. Append(c, x) \in Seq(Mixed) /\ Len(Append(c, x)) = Len(c) + 1 /\ Append(c, x)[1] = c[1]
  BY <1>1
<1> DEFINE d == Append(c, x)
<1>3. d \in Seq(Mixed) /\ Len(d) > 0 /\ d[1] = Secret(b)
  BY <1>1, <1>2
<1> HIDE DEF d
<1>4. d \in Chain(b)
  BY <1>3 DEF Chain
<1> QED BY <1>2, <1>4 DEF KdfRootKey, d

\* No chain belongs to two base keys.
LEMMA ChainNamesBase ==
  ASSUME NEW b, NEW a, NEW c \in Chain(b), c \in Chain(a)
  PROVE  a = b
  BY DEF Chain, Secret

-----------------------------------------------------------------------------
(* The operators on stored keys.                                           *)

\* cleanupExpiredKeys() only removes.
LEMMA CleanupRemoves ==
  ASSUME NEW b \in Bases, NEW s, NEW t, WellFormed(s, b)
  PROVE  /\ SameRatchet(Cleanup(s, t), s)
         /\ Cleanup(s, t).keys \subseteq s.keys
  BY DEF Cleanup, WellFormed, SameRatchet, Fields

\* getOrCreateReceiverChain() only removes.
LEMMA ReceiverChainRemoves ==
  ASSUME NEW b \in Bases, NEW s, NEW rk, WellFormed(s, b)
  PROVE  /\ SameRatchet(ReceiverChain(s, rk), s)
         /\ ReceiverChain(s, rk).keys \subseteq s.keys
  BY DEF ReceiverChain, AddChain, WellFormed, SameRatchet, Fields

\* The loop over storeMessageKeyInChain() adds numbers of the receiving chain
\* from Nr up to, and without, the given one.
LEMMA StoreKeysAdds ==
  ASSUME NEW b \in Bases, NEW s, NEW until \in Nat, NEW t, WellFormed(s, b)
  PROVE  /\ SameRatchet(StoreKeys(s, until, t), s)
         /\ \A k \in StoreKeys(s, until, t).keys :
              \/ k \in s.keys
              \/ k.rk = s.DHr /\ k.chain = s.CKr /\ k.index \in s.Nr .. until - 1
<1>1. CASE until <= s.Nr
  BY <1>1 DEF StoreKeys, WellFormed, SameRatchet, Fields
<1>2. CASE ~(until <= s.Nr)
  <2> DEFINE c == ReceiverChain(s, s.DHr)
             new == {[rk |-> s.DHr, index |-> i, chain |-> s.CKr, at |-> t] :
                       i \in {j \in s.Nr .. until - 1 : SkippedKeys(c, s.DHr, j) = {}}}
             kept == KeepHighest(Stored(c, s.DHr) \cup new)
             r == [c EXCEPT !.keys = (@ \ Stored(c, s.DHr)) \cup kept]
  <2>1. SameRatchet(c, s) /\ c.keys \subseteq s.keys
    BY ReceiverChainRemoves
  <2>2. StoreKeys(s, until, t) = r
    BY <1>2 DEF StoreKeys
  <2>3. kept \subseteq Stored(c, s.DHr) \cup new
    BY DEF KeepHighest
  <2>4. SameRatchet(r, s) /\ r.keys = (c.keys \ Stored(c, s.DHr)) \cup kept
    BY <2>1 DEF SameRatchet, Fields
  <2>5. \A k \in new : k.rk = s.DHr /\ k.chain = s.CKr /\ k.index \in s.Nr .. until - 1
    OBVIOUS
  <2>6. Stored(c, s.DHr) \subseteq c.keys
    BY DEF Stored
  <2> HIDE DEF c, new, kept, r
  <2> QED BY <2>1, <2>2, <2>3, <2>4, <2>5, <2>6
<1> QED BY <1>1, <1>2

-----------------------------------------------------------------------------
(* What each path of Receive() does to a well-formed session.  In all of   *)
(* them acc is the set of the messages opened before.                      *)

\* A state that only lost stored keys keeps everything.
LEMMA LosingKeys ==
  ASSUME NEW b \in Bases, NEW s, NEW t, NEW acc, WellFormed(s, b), Erased(s, acc),
         SameRatchet(t, s), t.keys \subseteq s.keys
  PROVE  WellFormed(t, b) /\ Erased(t, acc)
  BY DEF WellFormed, Erased, SameRatchet, Behind

\* The attempt to open m succeeded with the state r.
OpenedOnce(b, r, acc, m) ==
  /\ m \notin acc /\ m.chain \in Chain(b)
  /\ WellFormed(r, b) /\ Erased(r, acc \cup {m})

\* trySkippedMessageKeys(): the key is among the stored ones, and leaves them.
LEMMA SkippedOpensOnce ==
  ASSUME NEW b \in Bases, NEW s, NEW acc \in SUBSET Bodies, NEW m \in Bodies,
         WellFormed(s, b), Erased(s, acc), ReceiveSkipped(s, m).result = "ok"
  PROVE  /\ OpenedOnce(b, ReceiveSkipped(s, m).session, acc, m)
         /\ SameRatchet(ReceiveSkipped(s, m).session, s)
<1> DEFINE t == ConsumeSkipped(s, m.rk, m.counter)
<1>1. PICK k \in SkippedKeys(s, m.rk, m.counter) : k.chain = m.chain
  BY DEF ReceiveSkipped, Refused
<1>2. ReceiveSkipped(s, m).session = t
  BY <1>1 DEF ReceiveSkipped, Accepted
<1>3. k \in s.keys /\ k.rk = m.rk /\ k.index = m.counter
  BY <1>1 DEF SkippedKeys, Stored
<1>4. SameRatchet(t, s) /\ t.keys = s.keys \ SkippedKeys(s, m.rk, m.counter)
  BY DEF ConsumeSkipped, WellFormed, SameRatchet, Fields
<1>5. m \notin acc
  BY <1>1, <1>3 DEF Erased
<1>6. WellFormed(t, b) /\ Erased(t, acc)
  BY <1>4, LosingKeys
<1>7. \A j \in t.keys : ~(j.chain = m.chain /\ j.index = m.counter)
  BY <1>1, <1>3, <1>4 DEF WellFormed, SkippedKeys, Stored
<1>8. Behind(t, m.chain, m.counter)
  BY <1>1, <1>3, <1>4 DEF WellFormed, Behind, SameRatchet
<1>9. m.chain \in Chain(b)
  BY <1>1, <1>3 DEF WellFormed
<1> HIDE DEF t
<1> QED BY <1>2, <1>4, <1>5, <1>6, <1>7, <1>8, <1>9 DEF Erased, OpenedOnce

\* The sending side of r is that of s.
SameSending(r, s) == r.RK = s.RK /\ r.CKs = s.CKs /\ r.Ns = s.Ns

\* storeSkippedKeys() and deriveReceivingKey(): the chain moves past the message.
LEMMA ChainOpensOnce ==
  ASSUME NEW b \in Bases, NEW s, NEW acc \in SUBSET Bodies, NEW m \in Bodies, NEW t,
         WellFormed(s, b), Erased(s, acc), s.CKr \in Chain(b), Len(s.CKr) <= Len(s.RK),
         ReceiveInChain(s, m, t).result = "ok"
  PROVE  /\ OpenedOnce(b, ReceiveInChain(s, m, t).session, acc, m)
         /\ SameSending(ReceiveInChain(s, m, t).session, s)
<1> USE RatchetAssumption
<1> DEFINE u == StoreKeys(s, m.counter, t)
           r == [u EXCEPT !.Nr = m.counter + 1]
<1>0. m.counter \in Nat /\ s.Nr \in Nat
  BY DEF Bodies, WellFormed
<1>1. /\ ReceiveInChain(s, m, t).session = r
      /\ s.Nr <= m.counter
      /\ m.chain = s.CKr
  BY <1>0 DEF ReceiveInChain, Refused, Accepted
<1>2. m \notin acc
  BY <1>0, <1>1 DEF Erased, Behind
<1>3. /\ SameRatchet(u, s)
      /\ \A k \in u.keys :
           \/ k \in s.keys
           \/ k.rk = s.DHr /\ k.chain = s.CKr /\ k.index \in s.Nr .. m.counter - 1
  BY <1>0, StoreKeysAdds
<1>4. /\ DOMAIN r = Fields /\ r.keys = u.keys /\ r.Nr = m.counter + 1
      /\ r.DHs = s.DHs /\ r.DHr = s.DHr /\ r.RK = s.RK /\ r.CKs = s.CKs
      /\ r.Ns = s.Ns /\ r.CKr = s.CKr /\ r.PN = s.PN
  BY <1>3 DEF SameRatchet, Fields
<1> HIDE DEF u, r
<1>5. \A k \in r.keys : k.chain \in Chain(b) /\ k.index \in Nat /\ Behind(r, k.chain, k.index)
  BY <1>0, <1>1, <1>3, <1>4 DEF WellFormed, Behind
<1>6. \A k \in r.keys : k.chain = r.CKr => k.rk = r.DHr
  BY <1>3, <1>4 DEF WellFormed
<1>7. \A k, j \in r.keys : k.chain = j.chain => k.rk = j.rk
  BY <1>3, <1>4 DEF WellFormed
<1>8. WellFormed(r, b)
  BY <1>0, <1>4, <1>5, <1>6, <1>7 DEF WellFormed
<1>9. Erased(r, acc \cup {m})
  <2> SUFFICES ASSUME NEW a \in acc \cup {m}
               PROVE  /\ Behind(r, a.chain, a.counter)
                      /\ \A k \in r.keys : ~(k.chain = a.chain /\ k.index = a.counter)
    BY DEF Erased
  <2>1. a.counter \in Nat
    BY DEF Bodies
  <2>2. CASE a = m
    BY <2>2, <1>0, <1>1, <1>3, <1>4 DEF Behind, WellFormed
  <2>3. CASE a \in acc
    BY <2>1, <2>3, <1>0, <1>1, <1>3, <1>4 DEF Behind, Erased
  <2> QED BY <2>2, <2>3
<1> QED BY <1>1, <1>2, <1>4, <1>8, <1>9 DEF OpenedOnce, SameSending

\* Storing the keys of the chain that ends keeps everything but the numbers
\* between Nr and previousCounter, which the present chain will never reach.
LEMMA CloseChainAdds ==
  ASSUME NEW b \in Bases, NEW s, NEW m \in Bodies, NEW t, WellFormed(s, b)
  PROVE  LET c == CloseChain(s, m, t) IN
         /\ SameRatchet(c, s)
         /\ \A k \in c.keys :
              \/ k \in s.keys
              \/ /\ s.DHr # NoKey
                 /\ k.rk = s.DHr /\ k.chain = s.CKr /\ k.index \in Nat /\ k.index >= s.Nr
<1>0. m.previousCounter \in Nat /\ s.Nr \in Nat
  BY DEF Bodies, WellFormed
<1>1. CASE s.DHr = NoKey \/ m.previousCounter = 0 \/ s.CKr = NoKey
  BY <1>1 DEF CloseChain, SameRatchet, WellFormed
<1>2. CASE ~(s.DHr = NoKey \/ m.previousCounter = 0 \/ s.CKr = NoKey)
  <2> DEFINE u == StoreKeys(s, m.previousCounter, t)
             c == [u EXCEPT !.processed =
                     {q \in @ : q.rk # s.DHr} \cup {[rk |-> s.DHr, at |-> t]}]
  <2>1. CloseChain(s, m, t) = c
    BY <1>2 DEF CloseChain
  <2>2. /\ SameRatchet(u, s)
        /\ \A k \in u.keys :
             \/ k \in s.keys
             \/ k.rk = s.DHr /\ k.chain = s.CKr /\ k.index \in s.Nr .. m.previousCounter - 1
    BY <1>0, StoreKeysAdds
  <2>3. SameRatchet(c, s) /\ c.keys = u.keys
    BY <2>2 DEF SameRatchet, Fields
  <2> HIDE DEF u, c
  <2> QED BY <1>0, <1>2, <2>1, <2>2, <2>3
<1> QED BY <1>1, <1>2

\* performDHRatchetStep(): the new receiving chain is longer than every chain
\* that the party has seen.
LEMMA RatchetIsFresh ==
  ASSUME NEW b \in Bases, NEW s, NEW acc \in SUBSET Bodies, NEW m \in Bodies, NEW t,
         NEW fresh \in KeyPairs, WellFormed(s, b), Erased(s, acc)
  PROVE  LET d == DHRatchet(CloseChain(s, m, t), m.rk, fresh) IN
         /\ WellFormed(d, b) /\ Erased(d, acc)
         /\ d.CKr \in Chain(b) /\ Len(d.CKr) = Len(s.RK) + 1
         /\ d.RK \in Chain(b) /\ Len(d.RK) = Len(s.RK) + 2 /\ d.CKs = d.RK
<1> DEFINE c == CloseChain(s, m, t)
           receiving == KdfRootKey(c.RK, DH(c.DHs, m.rk))
           sending == KdfRootKey(receiving, DH(fresh, m.rk))
           d == [c EXCEPT !.PN = c.Ns, !.Ns = 0, !.Nr = 0, !.DHr = m.rk, !.DHs = fresh,
                          !.CKr = receiving, !.CKs = sending, !.RK = sending]
<1>1. /\ SameRatchet(c, s)
      /\ \A k \in c.keys :
           \/ k \in s.keys
           \/ /\ s.DHr # NoKey
              /\ k.rk = s.DHr /\ k.chain = s.CKr /\ k.index \in Nat /\ k.index >= s.Nr
  BY CloseChainAdds
<1>2. DHRatchet(c, m.rk, fresh) = d
  BY DEF DHRatchet
<1>3. c.DHs \in KeyPairs /\ m.rk \in KeyPairs /\ c.RK \in Chain(b) /\ c.RK = s.RK
  BY <1>1 DEF SameRatchet, WellFormed, Bodies
<1>4. DH(c.DHs, m.rk) \in Mixed /\ DH(fresh, m.rk) \in Mixed
  BY <1>3 DEF DH, Mixed
<1>5. receiving \in Chain(b) /\ Len(receiving) = Len(s.RK) + 1
  BY <1>3, <1>4, ChainGrows
<1>6. sending \in Chain(b) /\ Len(sending) = Len(s.RK) + 2
  <2>1. sending \in Chain(b) /\ Len(sending) = Len(receiving) + 1
    <3> HIDE DEF receiving
    <3> QED BY <1>4, <1>5, ChainGrows
  <2>2. Len(s.RK) \in Nat
    BY <1>3 DEF Chain
  <2> QED BY <1>5, <2>1, <2>2
<1>7. /\ DOMAIN d = Fields /\ d.keys = c.keys /\ d.PN = s.Ns /\ d.Ns = 0 /\ d.Nr = 0
      /\ d.DHr = m.rk /\ d.DHs = fresh /\ d.CKr = receiving /\ d.CKs = sending
      /\ d.RK = sending
  BY <1>1 DEF SameRatchet, Fields
<1> HIDE DEF c, receiving, sending, d
<1>8. \A k \in d.keys : /\ k.chain \in Chain(b) /\ k.index \in Nat
                        /\ Len(k.chain) <= Len(s.RK)
  BY <1>1, <1>7 DEF WellFormed, Behind
<1>9. \A k \in d.keys : k.chain # d.CKr /\ Behind(d, k.chain, k.index)
  BY <1>3, <1>5, <1>6, <1>7, <1>8 DEF Behind
<1>10. \A k, j \in d.keys : k.chain = j.chain => k.rk = j.rk
  BY <1>1, <1>7 DEF WellFormed
<1>11. s.Ns \in Nat
  BY DEF WellFormed
<1>12. WellFormed(d, b)
  BY <1>3, <1>5, <1>6, <1>7, <1>8, <1>9, <1>10, <1>11 DEF WellFormed
<1>13. \A a \in acc : Len(a.chain) <= Len(s.RK)
  BY DEF Erased, Behind
<1>14. Erased(d, acc)
  <2> SUFFICES ASSUME NEW a \in acc
               PROVE  /\ Behind(d, a.chain, a.counter)
                      /\ \A k \in d.keys : ~(k.chain = a.chain /\ k.index = a.counter)
    BY DEF Erased
  <2>1. a.counter \in Nat /\ a.chain \in Seq(Mixed) /\ s.Nr \in Nat
    BY DEF Bodies, WellFormed
  <2>2. Behind(d, a.chain, a.counter)
    BY <1>3, <1>5, <1>6, <1>7, <1>13, <2>1 DEF Behind
  <2>3. \A k \in d.keys : ~(k.chain = a.chain /\ k.index = a.counter)
    BY <1>1, <1>7, <2>1 DEF Erased, Behind
  <2> QED BY <2>2, <2>3
<1> QED BY <1>2, <1>5, <1>6, <1>7, <1>12, <1>14 DEF c

\* How an attempt changes the sending side: not at all, or by a DH ratchet that
\* makes the root longer.
SendingSide(b, t, s) ==
  \/ SameSending(t, s)
  \/ /\ t.RK \in Chain(b) /\ Len(t.RK) = Len(s.RK) + 2
     /\ t.CKs = t.RK /\ t.Ns \in Nat

\* decrypt() on the DH ratchet path.
LEMMA RatchetOpensOnce ==
  ASSUME NEW b \in Bases, NEW s, NEW acc \in SUBSET Bodies, NEW m \in Bodies, NEW t,
         NEW fresh \in KeyPairs, WellFormed(s, b), Erased(s, acc),
         ReceiveWithRatchet(s, m, fresh, t).result = "ok"
  PROVE  /\ OpenedOnce(b, ReceiveWithRatchet(s, m, fresh, t).session, acc, m)
         /\ SendingSide(b, ReceiveWithRatchet(s, m, fresh, t).session, s)
         /\ Sends(ReceiveWithRatchet(s, m, fresh, t).session)
<1> DEFINE d == DHRatchet(CloseChain(s, m, t), m.rk, fresh)
<1>1. ReceiveWithRatchet(s, m, fresh, t) = ReceiveInChain(d, m, t)
  BY DEF ReceiveWithRatchet, Refused
<1>2. /\ WellFormed(d, b) /\ Erased(d, acc)
      /\ d.CKr \in Chain(b) /\ Len(d.CKr) = Len(s.RK) + 1
      /\ d.RK \in Chain(b) /\ Len(d.RK) = Len(s.RK) + 2 /\ d.CKs = d.RK
  BY RatchetIsFresh
<1> HIDE DEF d
<1>3. Len(s.RK) \in Nat /\ d.Ns \in Nat
  BY <1>2 DEF WellFormed, Chain
<1>4. Len(d.CKr) <= Len(d.RK)
  BY <1>2, <1>3
<1>5. ReceiveInChain(d, m, t).result = "ok"
  BY <1>1
<1>6. /\ OpenedOnce(b, ReceiveInChain(d, m, t).session, acc, m)
      /\ SameSending(ReceiveInChain(d, m, t).session, d)
  BY <1>2, <1>4, <1>5, ChainOpensOnce
<1> QED BY <1>1, <1>2, <1>3, <1>6 DEF SendingSide, SameSending, Sends

\* One attempt of decrypt(): it opens only messages of the base key of the
\* session and nothing that was opened before, and what it opens it cannot open
\* again.
LEMMA ReceiveOpensOnce ==
  ASSUME NEW b \in Bases, NEW s, NEW acc \in SUBSET Bodies, NEW m \in Bodies, NEW t,
         NEW fresh \in KeyPairs, WellFormed(s, b), Erased(s, acc),
         Receive(s, m, fresh, t).result = "ok"
  PROVE  /\ OpenedOnce(b, Receive(s, m, fresh, t).session, acc, m)
         /\ SendingSide(b, Receive(s, m, fresh, t).session, s)
         /\ Ready(s) => Sends(Receive(s, m, fresh, t).session)
<1> DEFINE c == Cleanup(s, t)
<1>1. SameRatchet(c, s) /\ c.keys \subseteq s.keys
  BY CleanupRemoves
<1>2. WellFormed(c, b) /\ Erased(c, acc)
  BY <1>1, LosingKeys
<1>3. \A r : SendingSide(b, r, c) => SendingSide(b, r, s)
  BY <1>1 DEF SendingSide, SameSending, SameRatchet
<1>0. Ready(s) => Ready(c)
  BY <1>1 DEF Ready, Sends, SameRatchet
<1> HIDE DEF c
<1>4. CASE SkippedKeys(c, m.rk, m.counter) # {}
  <2>1. Receive(s, m, fresh, t) = ReceiveSkipped(c, m)
    BY <1>4 DEF Receive, c
  <2>2. /\ OpenedOnce(b, ReceiveSkipped(c, m).session, acc, m)
        /\ SameRatchet(ReceiveSkipped(c, m).session, c)
    BY <1>2, <2>1, SkippedOpensOnce
  <2>3. SendingSide(b, ReceiveSkipped(c, m).session, c)
    BY <2>2 DEF SendingSide, SameSending, SameRatchet
  <2>4. Ready(s) => Sends(ReceiveSkipped(c, m).session)
    BY <1>0, <1>4, <2>2 DEF Ready, Sends, SameRatchet, SkippedKeys, Stored
  <2> QED BY <1>3, <2>1, <2>2, <2>3, <2>4
<1>5. CASE SkippedKeys(c, m.rk, m.counter) = {} /\ c.DHr # NoKey /\ c.DHr = m.rk
  <2>1. Receive(s, m, fresh, t) = ReceiveInChain(c, m, t)
    BY <1>5 DEF Receive, c
  <2>2. c.CKr \in Chain(b) /\ Len(c.CKr) <= Len(c.RK)
    BY <1>2, <1>5 DEF WellFormed
  <2>3. ReceiveInChain(c, m, t).result = "ok"
    BY <2>1
  <2>4. /\ OpenedOnce(b, ReceiveInChain(c, m, t).session, acc, m)
        /\ SameSending(ReceiveInChain(c, m, t).session, c)
    BY <1>2, <2>2, <2>3, ChainOpensOnce
  <2>5. Sends(ReceiveInChain(c, m, t).session)
    BY <1>2, <1>5, <2>4 DEF WellFormed, Sends, SameSending
  <2> QED BY <1>3, <2>1, <2>4, <2>5 DEF SendingSide
<1>6. CASE /\ SkippedKeys(c, m.rk, m.counter) = {}
           /\ c.DHr = NoKey \/ (c.DHr # m.rk /\ ~ProcessedChain(c, m.rk))
  <2>1. Receive(s, m, fresh, t) = ReceiveWithRatchet(c, m, fresh, t)
    BY <1>6 DEF Receive, c
  <2> QED BY <1>2, <1>3, <2>1, RatchetOpensOnce
<1>7. CASE /\ SkippedKeys(c, m.rk, m.counter) = {}
           /\ c.DHr # NoKey /\ c.DHr # m.rk /\ ProcessedChain(c, m.rk)
  BY <1>7 DEF Receive, c, Refused
<1> QED BY <1>4, <1>5, <1>6, <1>7

-----------------------------------------------------------------------------
(* The archive of a record.                                                *)

IsSeq(q) == \E S : q \in Seq(S)

\* Sequences of whatever elements: one more, one less, and the last ones.
LEMMA AppendSeq ==
  ASSUME NEW q, IsSeq(q), NEW x
  PROVE  /\ IsSeq(Append(q, x)) /\ Len(Append(q, x)) = Len(q) + 1
         /\ DOMAIN Append(q, x) = 1 .. (Len(q) + 1)
         /\ DOMAIN q = 1 .. Len(q) /\ Len(q) \in Nat
         /\ \A i \in 1 .. Len(q) : Append(q, x)[i] = q[i]
         /\ Append(q, x)[Len(q) + 1] = x
<1>1. PICK S : q \in Seq(S)
  BY DEF IsSeq
<1> DEFINE T == S \cup {x}
<1>2. q \in Seq(T)
  BY <1>1
<1>3. x \in T
  OBVIOUS
<1> HIDE DEF T
<1>4. /\ Append(q, x) \in Seq(T) /\ Len(Append(q, x)) = Len(q) + 1
      /\ DOMAIN Append(q, x) = 1 .. (Len(q) + 1)
      /\ DOMAIN q = 1 .. Len(q) /\ Len(q) \in Nat
      /\ \A i \in 1 .. Len(q) : Append(q, x)[i] = q[i]
      /\ Append(q, x)[Len(q) + 1] = x
  BY <1>2, <1>3
<1> QED BY <1>4 DEF IsSeq

\* A sequence without one element keeps the order of the others.
LEMMA RemoveSeq ==
  ASSUME NEW q, IsSeq(q), NEW i \in DOMAIN q
  PROVE  /\ IsSeq(RemoveAt(q, i)) /\ Len(RemoveAt(q, i)) = Len(q) - 1
         /\ Len(q) \in Nat /\ DOMAIN q = 1 .. Len(q)
         /\ DOMAIN RemoveAt(q, i) = 1 .. (Len(q) - 1)
         /\ \A k \in 1 .. (Len(q) - 1) : RemoveAt(q, i)[k] = IF k < i THEN q[k] ELSE q[k + 1]
<1>1. PICK S : q \in Seq(S)
  BY DEF IsSeq
<1> DEFINE n == Len(q)
           u == SubSeq(q, 1, i - 1)
           v == SubSeq(q, i + 1, n)
<1>2. n \in Nat /\ DOMAIN q = 1 .. n /\ i \in 1 .. n
  BY <1>1
<1>3. u \in Seq(S) /\ Len(u) = i - 1 /\ \A k \in 1 .. (i - 1) : u[k] = q[k]
  BY <1>1, <1>2
<1>4. v \in Seq(S) /\ Len(v) = n - i /\ \A k \in 1 .. (n - i) : v[k] = q[i + k]
  BY <1>1, <1>2
<1> HIDE DEF u, v
<1>5. /\ u \o v \in Seq(S) /\ Len(u \o v) = n - 1
      /\ \A k \in 1 .. (n - 1) : (u \o v)[k] = IF k < i THEN u[k] ELSE v[k - (i - 1)]
  <2> DEFINE w == u \o v
  <2>1. /\ w \in Seq(S) /\ Len(w) = Len(u) + Len(v)
        /\ \A k \in 1 .. Len(u) + Len(v) : w[k] = IF k <= Len(u) THEN u[k] ELSE v[k - Len(u)]
    BY <1>3, <1>4, ConcatProperties
  <2> HIDE DEF w
  <2>2. Len(u) + Len(v) = n - 1 /\ \A k \in 1 .. (n - 1) : k <= Len(u) <=> k < i
    BY <1>2, <1>3, <1>4
  <2> QED BY <1>3, <2>1, <2>2 DEF w
<1>6. \A k \in 1 .. (n - 1) : ~(k < i) => v[k - (i - 1)] = q[k + 1]
  <2> SUFFICES ASSUME NEW k \in 1 .. (n - 1), ~(k < i) PROVE v[k - (i - 1)] = q[k + 1]
    OBVIOUS
  <2>1. k - (i - 1) \in 1 .. (n - i) /\ i + (k - (i - 1)) = k + 1
    BY <1>2
  <2> QED BY <1>4, <2>1
<1>7. \A k \in 1 .. (n - 1) : k < i => k \in 1 .. (i - 1)
  BY <1>2
<1>8. RemoveAt(q, i) = u \o v
  BY DEF RemoveAt, u, v
<1>9. DOMAIN (u \o v) = 1 .. (n - 1)
  BY <1>2, <1>5, LenProperties
<1> QED BY <1>2, <1>3, <1>5, <1>6, <1>7, <1>8, <1>9 DEF IsSeq

\* The last elements of a sequence, after the first k.
LEMMA SuffixSeq ==
  ASSUME NEW q, IsSeq(q), NEW k \in 0 .. Len(q)
  PROVE  /\ IsSeq(SubSeq(q, k + 1, Len(q))) /\ Len(SubSeq(q, k + 1, Len(q))) = Len(q) - k
         /\ Len(q) \in Nat /\ DOMAIN q = 1 .. Len(q)
         /\ DOMAIN SubSeq(q, k + 1, Len(q)) = 1 .. (Len(q) - k)
         /\ \A i \in 1 .. (Len(q) - k) : SubSeq(q, k + 1, Len(q))[i] = q[k + i]
<1>1. PICK S : q \in Seq(S)
  BY DEF IsSeq
<1>2. Len(q) \in Nat /\ DOMAIN q = 1 .. Len(q)
  BY <1>1
<1> DEFINE n == Len(q)
           w == SubSeq(q, k + 1, n)
<1>3. \A i \in k + 1 .. n : q[i] \in S
  BY <1>1, <1>2
<1>4. /\ w \in Seq(S) /\ Len(w) = IF k + 1 <= n THEN n - (k + 1) + 1 ELSE 0
      /\ \A i \in 1 .. n - (k + 1) + 1 : w[i] = q[k + 1 + i - 1]
  BY <1>2, <1>3, SubSeqProperties
<1> HIDE DEF w
<1>5. Len(w) = n - k /\ \A i \in 1 .. (n - k) : w[i] = q[k + i]
  <2>1. n - (k + 1) + 1 = n - k
    BY <1>2
  <2>2. \A i \in 1 .. (n - k) : k + 1 + i - 1 = k + i
    BY <1>2
  <2> QED BY <1>2, <1>4, <2>1, <2>2
<1>6. DOMAIN w = 1 .. (n - k)
  BY <1>4, <1>5, LenProperties
<1> QED BY <1>2, <1>4, <1>5, <1>6 DEF IsSeq, w

Distinct(q) == \A i, j \in DOMAIN q : q[i].base = q[j].base => i = j

ArchiveOK(q) == IsSeq(q) /\ Distinct(q) /\ \A a \in Range(q) : ~a.unacked

\* The sessions with other base keys.
Others(q, b) == {a \in Range(q) : a.base # b}

\* What delete archivedSessions[b] leaves.
LEMMA WithoutOK ==
  ASSUME NEW q, ArchiveOK(q), NEW b
  PROVE  /\ ArchiveOK(Without(q, b)) /\ Range(Without(q, b)) \subseteq Others(q, b)
         /\ Len(q) \in Nat /\ Len(Without(q, b)) \in Nat
         /\ Len(Without(q, b)) <= Len(q)
         /\ (\E a \in Range(q) : a.base = b) => Len(Without(q, b)) = Len(q) - 1
<1> DEFINE at == {i \in DOMAIN q : q[i].base = b}
<1>0. Len(q) \in Nat
  BY AppendSeq DEF ArchiveOK
<1>1. CASE at = {}
  <2>1. Without(q, b) = q
    BY <1>1 DEF Without
  <2>2. \A a \in Range(q) : a.base # b
    BY <1>1 DEF Range
  <2> QED BY <1>0, <2>1, <2>2 DEF Others
<1>2. CASE at # {}
  <2> DEFINE i == CHOOSE k \in at : TRUE
             w == RemoveAt(q, i)
             n == Len(q)
  <2>1. i \in DOMAIN q /\ q[i].base = b
    BY <1>2
  <2>2. Without(q, b) = w
    BY <1>2 DEF Without
  <2> HIDE DEF i
  <2>3. /\ IsSeq(w) /\ Len(w) = n - 1 /\ n \in Nat /\ DOMAIN q = 1 .. n
        /\ DOMAIN w = 1 .. (n - 1)
        /\ \A k \in 1 .. (n - 1) : w[k] = IF k < i THEN q[k] ELSE q[k + 1]
    BY <2>1, RemoveSeq DEF ArchiveOK
  <2> HIDE DEF w
  <2> DEFINE to(k) == IF k < i THEN k ELSE k + 1
  <2>4. \A k \in 1 .. (n - 1) : to(k) \in 1 .. n /\ to(k) # i /\ w[k] = q[to(k)]
    BY <2>1, <2>3
  <2>5. \A k, l \in 1 .. (n - 1) : to(k) = to(l) => k = l
    BY <2>1, <2>3
  <2>6. n >= 1
    BY <2>1, <2>3
  <2> HIDE DEF to, n
  <2>7. Distinct(w)
    BY <2>3, <2>4, <2>5 DEF ArchiveOK, Distinct
  <2>8. \A k \in 1 .. (n - 1) : w[k] \in Range(q) /\ w[k].base # b
    BY <2>1, <2>3, <2>4 DEF ArchiveOK, Distinct, Range
  <2>9. Range(w) \subseteq Others(q, b)
    BY <2>3, <2>8 DEF Range, Others
  <2>10. ArchiveOK(w)
    BY <2>3, <2>7, <2>9 DEF ArchiveOK, Others
  <2>11. n - 1 \in Nat /\ n - 1 <= n
    BY <2>3, <2>6
  <2> QED BY <2>2, <2>3, <2>9, <2>10, <2>11 DEF n
<1> QED BY <1>1, <1>2

\* insertArchived() puts a session in place of the one with its base key.
LEMMA InsertOK ==
  ASSUME NEW q, ArchiveOK(q), NEW c, ~c.unacked
  PROVE  /\ ArchiveOK(InsertArchived(q, c))
         /\ Range(InsertArchived(q, c)) \subseteq Others(q, c.base) \cup {c}
         /\ Len(q) \in Nat /\ Len(InsertArchived(q, c)) \in Nat
         /\ Len(InsertArchived(q, c)) <= Len(q) + 1
         /\ (\E a \in Range(q) : a.base = c.base) => Len(InsertArchived(q, c)) = Len(q)
<1> DEFINE w == Without(q, c.base)
           n == Len(w)
           v == Append(w, c)
<1>1. /\ ArchiveOK(w) /\ Range(w) \subseteq Others(q, c.base)
      /\ Len(q) \in Nat /\ n \in Nat /\ n <= Len(q)
      /\ (\E a \in Range(q) : a.base = c.base) => n = Len(q) - 1
  BY WithoutOK
<1>2. InsertArchived(q, c) = v
  BY DEF InsertArchived
<1> HIDE DEF w
<1>3. /\ IsSeq(v) /\ Len(v) = n + 1 /\ DOMAIN v = 1 .. (n + 1) /\ DOMAIN w = 1 .. n
      /\ \A i \in 1 .. n : v[i] = w[i]
      /\ v[n + 1] = c
  BY <1>1, AppendSeq DEF ArchiveOK
<1> HIDE DEF v, n
<1>4. \A i \in 1 .. (n + 1) : i \in 1 .. n \/ i = n + 1
  BY <1>1
<1>5. \A i \in 1 .. n : v[i] \in Range(w)
  BY <1>3 DEF Range
<1>6. \A i \in 1 .. n : v[i].base # c.base
  BY <1>1, <1>5 DEF Others
<1>7. \A i, j \in 1 .. n : v[i].base = v[j].base => i = j
  BY <1>1, <1>3 DEF ArchiveOK, Distinct
<1>8. Distinct(v)
  BY <1>3, <1>4, <1>6, <1>7 DEF Distinct
<1>9. Range(v) \subseteq Range(w) \cup {c}
  BY <1>3, <1>4, <1>5 DEF Range
<1>10. ArchiveOK(v)
  BY <1>1, <1>3, <1>8, <1>9 DEF ArchiveOK
<1>11. /\ n + 1 \in Nat /\ n + 1 <= Len(q) + 1
       /\ (\E a \in Range(q) : a.base = c.base) => n + 1 = Len(q)
  BY <1>1
<1> QED BY <1>1, <1>2, <1>3, <1>9, <1>10, <1>11

\* The sessions that the archive of rec holds once the current one is archived.
Archivable(rec) ==
  IF rec.current = NoSession
    THEN Range(rec.archived)
    ELSE Others(rec.archived, rec.current.base) \cup {WithoutPendingPreKey(rec.current)}

IsSession(c) == DOMAIN c = {"base", "unacked", "ratchet"}

\* withoutPendingPreKey() changes one field.
LEMMA WithoutPending ==
  ASSUME NEW c, IsSession(c)
  PROVE  /\ IsSession(WithoutPendingPreKey(c))
         /\ WithoutPendingPreKey(c).base = c.base
         /\ WithoutPendingPreKey(c).ratchet = c.ratchet
         /\ ~WithoutPendingPreKey(c).unacked
  BY DEF IsSession, WithoutPendingPreKey

\* The archive with the current session in it: no base key twice, and longer by at
\* most one.
LEMMA WithCurrentOK ==
  ASSUME NEW rec, ArchiveOK(rec.archived), rec.current = NoSession \/ IsSession(rec.current)
  PROVE  /\ ArchiveOK(WithCurrentArchived(rec))
         /\ Range(WithCurrentArchived(rec)) \subseteq Archivable(rec)
         /\ Len(rec.archived) \in Nat /\ Len(WithCurrentArchived(rec)) \in Nat
         /\ Len(WithCurrentArchived(rec)) <= Len(rec.archived) + 1
         /\ (\/ rec.current = NoSession
             \/ \E a \in Range(rec.archived) : a.base = rec.current.base)
              => Len(WithCurrentArchived(rec)) <= Len(rec.archived)
<1>1. CASE rec.current = NoSession
  <2>1. WithCurrentArchived(rec) = rec.archived /\ Archivable(rec) = Range(rec.archived)
    BY <1>1 DEF WithCurrentArchived, Archivable
  <2>2. Len(rec.archived) \in Nat
    BY WithoutOK
  <2> QED BY <2>1, <2>2
<1>2. CASE rec.current # NoSession
  <2> DEFINE c == WithoutPendingPreKey(rec.current)
  <2>1. ~c.unacked /\ c.base = rec.current.base
    BY <1>2, WithoutPending
  <2>2. /\ WithCurrentArchived(rec) = InsertArchived(rec.archived, c)
        /\ Archivable(rec) = Others(rec.archived, c.base) \cup {c}
    BY <1>2, <2>1 DEF WithCurrentArchived, Archivable
  <2> HIDE DEF c
  <2>3. /\ ArchiveOK(InsertArchived(rec.archived, c))
        /\ Range(InsertArchived(rec.archived, c)) \subseteq Others(rec.archived, c.base) \cup {c}
        /\ Len(rec.archived) \in Nat /\ Len(InsertArchived(rec.archived, c)) \in Nat
        /\ Len(InsertArchived(rec.archived, c)) <= Len(rec.archived) + 1
        /\ (\E a \in Range(rec.archived) : a.base = c.base)
             => Len(InsertArchived(rec.archived, c)) = Len(rec.archived)
    BY <2>1, InsertOK
  <2> QED BY <1>2, <2>1, <2>2, <2>3
<1> QED BY <1>1, <1>2

\* archiveCurrent() keeps the limit.
LEMMA ArchiveCurrentOK ==
  ASSUME NEW rec, ArchiveOK(rec.archived),
         rec.current = NoSession \/ IsSession(rec.current), NEW new
  PROVE  /\ ArchiveCurrent(rec, new).current = new
         /\ DOMAIN ArchiveCurrent(rec, new) = {"current", "archived"}
         /\ ArchiveOK(ArchiveCurrent(rec, new).archived)
         /\ Range(ArchiveCurrent(rec, new).archived) \subseteq Archivable(rec)
         /\ Len(ArchiveCurrent(rec, new).archived) <= MaxArchived
<1> DEFINE all == WithCurrentArchived(rec)
           n == Len(all)
           k == IF n > MaxArchived THEN n - MaxArchived ELSE 0
           w == SubSeq(all, k + 1, n)
<1>1. ArchiveOK(all) /\ Range(all) \subseteq Archivable(rec) /\ n \in Nat
  BY WithCurrentOK
<1>2. ArchiveCurrent(rec, new) = [current |-> new, archived |-> w]
  BY DEF ArchiveCurrent
<1> HIDE DEF all
<1>3. k \in 0 .. n /\ n - k <= MaxArchived
  BY <1>1, CipherAssumption
<1> HIDE DEF k
<1>4. /\ IsSeq(w) /\ Len(w) = n - k /\ DOMAIN all = 1 .. n /\ DOMAIN w = 1 .. (n - k)
      /\ \A i \in 1 .. (n - k) : w[i] = all[k + i]
  BY <1>1, <1>3, SuffixSeq DEF ArchiveOK
<1> HIDE DEF w, n
<1>5. \A i \in 1 .. (n - k) : k + i \in 1 .. n
  BY <1>1, <1>3
<1>6. Range(w) \subseteq Range(all)
  BY <1>4, <1>5 DEF Range
<1>7. \A i, j \in 1 .. (n - k) : k + i = k + j => i = j
  BY <1>1, <1>3
<1>8. Distinct(w)
  BY <1>1, <1>4, <1>5, <1>7 DEF Distinct, ArchiveOK
<1>9. ArchiveOK(w)
  BY <1>1, <1>4, <1>6, <1>8 DEF ArchiveOK
<1> QED BY <1>1, <1>2, <1>3, <1>4, <1>6, <1>9

\* promoteSession() of an archived session keeps the limit.
LEMMA PromoteOK ==
  ASSUME NEW rec, ArchiveOK(rec.archived),
         rec.current = NoSession \/ IsSession(rec.current),
         NEW c, \E a \in Range(rec.archived) : a.base = c.base,
         Len(rec.archived) <= MaxArchived
  PROVE  /\ PromoteSession(rec, c).current = c
         /\ DOMAIN PromoteSession(rec, c) = {"current", "archived"}
         /\ ArchiveOK(PromoteSession(rec, c).archived)
         /\ \A a \in Range(PromoteSession(rec, c).archived) :
              a \in Archivable(rec) /\ a.base # c.base
         /\ Len(PromoteSession(rec, c).archived) <= MaxArchived
<1> DEFINE all == WithCurrentArchived(rec)
           w == Without(all, c.base)
<1>1. /\ ArchiveOK(all) /\ Range(all) \subseteq Archivable(rec)
      /\ Len(rec.archived) \in Nat /\ Len(all) \in Nat
      /\ Len(all) <= Len(rec.archived) + 1
      /\ (\/ rec.current = NoSession
          \/ \E a \in Range(rec.archived) : a.base = rec.current.base)
           => Len(all) <= Len(rec.archived)
  BY WithCurrentOK
<1>2. PromoteSession(rec, c) = [current |-> c, archived |-> w]
  BY DEF PromoteSession
<1>3. /\ ArchiveOK(w) /\ Range(w) \subseteq Others(all, c.base)
      /\ Len(w) \in Nat /\ Len(w) <= Len(all)
      /\ (\E a \in Range(all) : a.base = c.base) => Len(w) = Len(all) - 1
  <2> HIDE DEF all
  <2> QED BY <1>1, WithoutOK
<1>4. Len(w) <= Len(rec.archived)
  <2>1. CASE \/ rec.current = NoSession
             \/ \E a \in Range(rec.archived) : a.base = rec.current.base
    <3> HIDE DEF w, all
    <3> QED BY <1>1, <1>3, <2>1
  <2>2. CASE /\ rec.current # NoSession
             /\ \A a \in Range(rec.archived) : a.base # rec.current.base
    <3> DEFINE u == WithoutPendingPreKey(rec.current)
               at == {i \in DOMAIN rec.archived : rec.archived[i].base = u.base}
    <3>1. u.base = rec.current.base
      BY <2>2, WithoutPending
    <3>2. at = {}
      BY <2>2, <3>1 DEF Range
    <3>3. all = Append(rec.archived, u)
      BY <2>2, <3>2 DEF WithCurrentArchived, InsertArchived, Without
    <3>4. /\ DOMAIN rec.archived = 1 .. Len(rec.archived)
          /\ DOMAIN all = 1 .. (Len(rec.archived) + 1)
          /\ \A i \in 1 .. Len(rec.archived) : all[i] = rec.archived[i]
      <4> HIDE DEF u
      <4> QED BY <3>3, AppendSeq DEF ArchiveOK
    <3> HIDE DEF all
    <3>5. \A i \in 1 .. Len(rec.archived) : i \in 1 .. (Len(rec.archived) + 1)
      BY <1>1
    <3>6. Range(rec.archived) \subseteq Range(all)
      BY <3>4, <3>5 DEF Range
    <3>7. Len(w) = Len(all) - 1
      BY <1>3, <3>6
    <3> HIDE DEF w
    <3> QED BY <1>1, <1>3, <3>7
  <2> QED BY <2>1, <2>2
<1> HIDE DEF w, all
<1>5. Len(w) <= MaxArchived
  BY <1>1, <1>3, <1>4, CipherAssumption
<1> QED BY <1>1, <1>2, <1>3, <1>5 DEF Others

-----------------------------------------------------------------------------
(* The invariant.                                                          *)

Owner(b) == b[1]

\* The base keys that were drawn so far; st is started.
Known(st) == {b \in Bases : b[3] < st[b[1]]}

BodiesOf(ms, b) == {m.body : m \in {x \in ms : x.base = b}}

\* A session that p established.  con are the base keys for which p used up its
\* prekeys: every session from a base key of the peer is among them.
Established(p, c, con, st) ==
  /\ IsSession(c)
  /\ c.base \in Known(st)
  /\ WellFormed(c.ratchet, c.base)
  /\ c.unacked => Owner(c.base) = p
  /\ Owner(c.base) # p => c.base \in con

\* A session in the record of p: messages can be sent with it.
SessionOK(p, c, con, st) == Established(p, c, con, st) /\ Sends(c.ratchet)

\* The session c knows of all messages with its base key that were accepted and sent.
UpToDate(c, acc, out) ==
  /\ Erased(c.ratchet, BodiesOf(acc, c.base))
  /\ SentBehind(c.ratchet, BodiesOf(out, c.base))

SessionsIn(r) == Range(r.archived) \cup {c \in {r.current} : c # NoSession}

RecordOK(p, r, acc, out, con, reo, st) ==
  /\ DOMAIN r = {"current", "archived"}
  /\ ArchiveOK(r.archived) /\ Len(r.archived) <= MaxArchived
  /\ \A c \in SessionsIn(r) :
       SessionOK(p, c, con, st) /\ (c.base \notin reo => UpToDate(c, acc, out))
  /\ \A a \in Range(r.archived) :
       r.current # NoSession /\ a.base = r.current.base => a.base \in reo

\* A message that p sent.
MessageOK(p, m, con, st) ==
  /\ m.body \in Bodies /\ m.base \in Known(st) /\ m.body.chain \in Chain(m.base)
  /\ m.prekey => Owner(m.base) = p
  /\ Owner(m.base) # p => m.base \in con

ByParty(f) == f = [p \in Parties |-> f[p]]

\* A device p: its record r, the messages that it accepted and sent, and the
\* messages inn that its peer sent.
PartyOK(p, r, acc, out, inn, con, reo, st) ==
  /\ RecordOK(p, r, acc, out, con, reo, st)
  /\ \A m \in out : MessageOK(p, m, con, st)
  /\ acc \subseteq inn
  /\ \A m \in acc : Owner(m.base) # p => m.base \in con

\* The inductive invariant.
IInv ==
  /\ ByParty(record) /\ ByParty(consumed) /\ ByParty(sent) /\ ByParty(accepted)
  /\ ByParty(reopened)
  /\ ratchets \in [Parties -> Nat] /\ started \in [Parties -> Nat]
  /\ \A p \in Parties :
       PartyOK(p, record[p], accepted[p], sent[p], sent[Peer(p)], consumed[p], reopened[p],
               started)

-----------------------------------------------------------------------------
(* One attempt.                                                            *)

\* What a successful attempt with session c gives.
AttemptResult(p, a, c, m, acc, out, con, st) ==
  /\ SessionOK(p, a, con, st) /\ ~a.unacked
  /\ a.base = m.base /\ c.base = m.base
  /\ UpToDate(c, acc, out) => m \notin acc /\ UpToDate(a, acc \cup {m}, out)

\* The bodies with base key b, when a message with that base key is added.
LEMMA BodiesAdded ==
  ASSUME NEW ms, NEW m, NEW b, m.base = b
  PROVE  BodiesOf(ms \cup {m}, b) = BodiesOf(ms, b) \cup {m.body}
<1>1. {x \in ms \cup {m} : x.base = b} = {x \in ms : x.base = b} \cup {m}
  OBVIOUS
<1> QED BY <1>1 DEF BodiesOf

\* The same, for a message with another base key.
LEMMA BodiesKept ==
  ASSUME NEW ms, NEW m, NEW b, m.base # b
  PROVE  BodiesOf(ms \cup {m}, b) = BodiesOf(ms, b)
<1>1. {x \in ms \cup {m} : x.base = b} = {x \in ms : x.base = b}
  OBVIOUS
<1> QED BY <1>1 DEF BodiesOf

\* A DH ratchet or none: what was sent stays behind.
LEMMA SentStaysBehind ==
  ASSUME NEW b \in Bases, NEW s, NEW r, NEW out \in SUBSET Bodies,
         WellFormed(s, b), SentBehind(s, out), SendingSide(b, r, s)
  PROVE  SentBehind(r, out)
<1>1. CASE SameSending(r, s)
  BY <1>1 DEF SentBehind, SameSending
<1>2. CASE /\ r.RK \in Chain(b) /\ Len(r.RK) = Len(s.RK) + 2
           /\ r.CKs = r.RK /\ r.Ns \in Nat
  <2>1. Len(s.RK) \in Nat /\ \A m \in out : Len(m.chain) \in Nat
    BY DEF WellFormed, Chain, Bodies
  <2>2. \A m \in out : Len(m.chain) <= Len(s.RK)
    BY <2>1 DEF SentBehind
  <2>3. \A m \in out : m.chain # r.RK /\ Len(m.chain) <= Len(r.RK)
    BY <1>2, <2>1, <2>2
  <2> QED BY <1>2, <2>3 DEF SentBehind
<1> QED BY <1>1, <1>2 DEF SendingSide

\* One attempt of decrypt() with session c: it opens only messages with the base key
\* of c, and when c was up to date the message was not accepted before and the
\* session that results is up to date.
LEMMA AttemptOK ==
  ASSUME NEW p \in Parties, ratchets[p] \in Nat, NEW con, NEW st, NEW c,
         Established(p, c, con, st), Ready(c.ratchet),
         NEW m, m.body \in Bodies, m.body.chain \in Chain(m.base),
         NEW acc, BodiesOf(acc, c.base) \subseteq Bodies,
         NEW out, BodiesOf(out, c.base) \subseteq Bodies,
         TrySession(p, c, m).result = "ok"
  PROVE  AttemptResult(p, TrySession(p, c, m).session, c, m, acc, out, con, st)
<1> DEFINE b == c.base
           s == c.ratchet
           f == FreshKey(p)
           r == Receive(s, m.body, f, 0)
           a == [base |-> b, unacked |-> FALSE, ratchet |-> r.session]
<1>1. TrySession(p, c, m).session = a /\ r.result = "ok"
  BY DEF TrySession, Attempted
<1>2. b \in Bases /\ WellFormed(s, b) /\ IsSession(c)
  BY DEF Established, Known
<1>3. f \in KeyPairs
  BY DEF FreshKey, KeyPairs
<1>4. a.base = b /\ a.unacked = FALSE /\ a.ratchet = r.session /\ IsSession(a)
  BY DEF IsSession
<1>5. Erased(s, {})
  BY DEF Erased
<1> HIDE DEF f, a
<1>6. /\ OpenedOnce(b, r.session, {}, m.body) /\ SendingSide(b, r.session, s)
      /\ Sends(r.session)
  <2>1. Receive(s, m.body, f, 0).result = "ok"
    BY <1>1
  <2> HIDE DEF r, s, b
  <2>2. {} \in SUBSET Bodies
    OBVIOUS
  <2>3. Ready(s)
    BY DEF s
  <2> QED BY <1>2, <1>3, <1>5, <2>1, <2>2, <2>3, ReceiveOpensOnce DEF r
<1>7. WellFormed(r.session, b) /\ m.body.chain \in Chain(b)
  BY <1>6 DEF OpenedOnce
<1>8. b = m.base
  BY <1>7, ChainNamesBase
<1>9. SessionOK(p, a, con, st)
  <2> HIDE DEF r
  <2> QED BY <1>4, <1>6, <1>7 DEF SessionOK, Established
<1>10. ASSUME UpToDate(c, acc, out)
       PROVE  m \notin acc /\ UpToDate(a, acc \cup {m}, out)
  <2> DEFINE A == BodiesOf(acc, b)
             O == BodiesOf(out, b)
  <2>1. Erased(s, A) /\ SentBehind(s, O) /\ A \in SUBSET Bodies /\ O \in SUBSET Bodies
    BY <1>10 DEF UpToDate
  <2>2. m \in acc => m.body \in A
    BY <1>8 DEF BodiesOf
  <2>3. BodiesOf(acc \cup {m}, b) = A \cup {m.body}
    <3>1. m.base = b
      BY <1>8
    <3> HIDE DEF b
    <3> QED BY <3>1, BodiesAdded, Zenon
  <2> HIDE DEF A, O
  <2>4. OpenedOnce(b, r.session, A, m.body)
    <3>1. Receive(s, m.body, f, 0).result = "ok"
      BY <1>1
    <3> HIDE DEF r, s, b
    <3> QED BY <1>2, <1>3, <2>1, <3>1, ReceiveOpensOnce DEF r
  <2>5. SentBehind(r.session, O)
    <3> HIDE DEF r, s, b
    <3> QED BY <1>2, <1>6, <2>1, SentStaysBehind
  <2> QED BY <1>4, <2>2, <2>3, <2>4, <2>5 DEF OpenedOnce, UpToDate, O
<1> HIDE DEF r
<1> QED BY <1>1, <1>4, <1>8, <1>9, <1>10 DEF AttemptResult

-----------------------------------------------------------------------------
(* What decrypt() makes of a record.                                       *)

\* A least element of a set of naturals is in the set.
LEMMA MinIn ==
  ASSUME NEW T, T \subseteq Nat, T # {}
  PROVE  Min(T) \in T
<1>1. \E x \in T : \A y \in T : x <= y
  BY LeastElement
<1> QED BY <1>1 DEF Min

\* findDecryptingSessions(): the candidates are the sessions of the record, and the
\* first of them is the current one, when there is one.
LEMMA CandidatesAre ==
  ASSUME NEW rec, IsSeq(rec.archived)
  PROVE  /\ DOMAIN Candidates(rec) \subseteq Nat \ {0}
         /\ \A i \in DOMAIN Candidates(rec) :
              IF rec.current = NoSession \/ i > 1
                THEN Candidates(rec)[i] \in Range(rec.archived)
                ELSE Candidates(rec)[i] = rec.current
         /\ \A c \in SessionsIn(rec) : \E i \in DOMAIN Candidates(rec) : Candidates(rec)[i] = c
         /\ rec.current # NoSession => 1 \in DOMAIN Candidates(rec)
<1> DEFINE q == rec.archived
           n == Len(q)
           h == IF rec.current = NoSession THEN <<>> ELSE <<rec.current>>
           w == h \o q
<1>1. PICK S : q \in Seq(S)
  BY DEF IsSeq
<1>2. n \in Nat /\ DOMAIN q = 1 .. n
  BY <1>1
<1>3. Candidates(rec) = w
  BY DEF Candidates
<1>4. CASE rec.current = NoSession
  <2>1. w = q
    BY <1>1, <1>4
  <2>2. SessionsIn(rec) = Range(q)
    BY <1>4 DEF SessionsIn
  <2> HIDE DEF w
  <2> QED BY <1>2, <1>3, <1>4, <2>1, <2>2 DEF Range
<1>5. CASE rec.current # NoSession
  <2> DEFINE T == S \cup {rec.current}
             g == <<rec.current>>
  <2>1. q \in Seq(T) /\ g \in Seq(T) /\ Len(g) = 1 /\ g[1] = rec.current
    BY <1>1
  <2>2. h = g
    BY <1>5
  <2> HIDE DEF T, g, h
  <2>3. /\ w \in Seq(T) /\ Len(w) = Len(g) + Len(q)
        /\ \A k \in 1 .. Len(g) + Len(q) : w[k] = IF k <= Len(g) THEN g[k] ELSE q[k - Len(g)]
    BY <2>1, <2>2, ConcatProperties
  <2> HIDE DEF w
  <2>4. /\ DOMAIN w = 1 .. (n + 1) /\ w[1] = rec.current
        /\ \A k \in 1 .. (n + 1) : k > 1 => w[k] = q[k - 1]
    BY <1>2, <2>1, <2>3
  <2> HIDE DEF n
  <2>5. \A k \in 1 .. (n + 1) : (k > 1 => k - 1 \in 1 .. n) /\ (k > 1 \/ k = 1)
    BY <1>2
  <2>6. \A k \in 1 .. n : k + 1 \in 1 .. (n + 1) /\ k + 1 > 1 /\ (k + 1) - 1 = k
    BY <1>2
  <2>7. \A k \in 1 .. (n + 1) : k > 1 => w[k] \in Range(q)
    BY <1>2, <2>4, <2>5 DEF Range
  <2>8. \A k \in 1 .. n : \E i \in 1 .. (n + 1) : w[i] = q[k]
    BY <2>4, <2>6
  <2>9. \A c \in Range(q) : \E i \in 1 .. (n + 1) : w[i] = c
    BY <1>2, <2>8 DEF Range
  <2>10. 1 \in 1 .. (n + 1) /\ 1 .. (n + 1) \subseteq Nat \ {0}
    BY <1>2
  <2>11. \A c \in SessionsIn(rec) : \E i \in 1 .. (n + 1) : w[i] = c
    BY <2>4, <2>9, <2>10 DEF SessionsIn
  <2> QED BY <1>3, <1>5, <2>4, <2>5, <2>7, <2>10, <2>11
<1> QED BY <1>4, <1>5

Opens(p, c, m) == TrySession(p, c, m).result = "ok"

\* The three ways in which decrypt() returns m and commits the record r: with the
\* current session, with an archived one, or with a new one.
WithCurrent(p, rec, m, r) ==
  /\ rec.current # NoSession
  /\ Opens(p, rec.current, m)
  /\ r = [rec EXCEPT !.current = TrySession(p, rec.current, m).session]

WithArchived(p, rec, c, m, r) ==
  /\ c \in Range(rec.archived)
  /\ Opens(p, c, m)
  /\ r = Commit(rec, TrySession(p, c, m), TRUE)

WithNew(p, rec, m, r, con) ==
  /\ m.prekey /\ m.base \notin con
  /\ \A c \in SessionsIn(rec) : c.base # m.base
  /\ Opens(p, NewSession(p, m), m)
  /\ r = [ArchiveCurrent(rec, NoSession) EXCEPT !.current =
            TrySession(p, NewSession(p, m), m).session]

\* One candidate.
LEMMA CandidateOutcome ==
  ASSUME NEW p, NEW rec, IsSeq(rec.archived), NEW m, NEW i \in DOMAIN Candidates(rec),
         TryCandidate(p, rec, i, m).result = "ok"
  PROVE  \/ WithCurrent(p, rec, m, TryCandidate(p, rec, i, m).record)
         \/ \E c : WithArchived(p, rec, c, m, TryCandidate(p, rec, i, m).record)
<1> DEFINE c == Candidates(rec)[i]
           a == TrySession(p, c, m)
           fa == rec.current = NoSession \/ i > 1
<1>1. TryCandidate(p, rec, i, m) = Committed(rec, a, fa)
  BY DEF TryCandidate
<1> HIDE DEF a, fa
<1>2. a.result = "ok" /\ TryCandidate(p, rec, i, m).record = Commit(rec, a, fa)
  BY <1>1 DEF Committed, Outcome
<1>3. CASE fa
  <2>1. c \in Range(rec.archived)
    BY <1>3, CandidatesAre DEF fa
  <2>2. Commit(rec, a, fa) = Commit(rec, a, TRUE)
    BY <1>3 DEF Commit
  <2> QED BY <1>2, <2>1, <2>2 DEF WithArchived, Opens, a
<1>4. CASE ~fa
  <2>1. c = rec.current /\ rec.current # NoSession
    BY <1>4, CandidatesAre DEF fa
  <2>2. Commit(rec, a, fa) = [rec EXCEPT !.current = a.session]
    BY <1>4 DEF Commit
  <2> QED BY <1>2, <2>1, <2>2 DEF WithCurrent, Opens, a
<1> QED BY <1>3, <1>4

\* decrypt() as a whole.
LEMMA OutcomeCases ==
  ASSUME NEW p, IsSeq(record[p].archived), NEW m, DecryptOutcome(p, m).result = "ok"
  PROVE  \/ WithCurrent(p, record[p], m, DecryptOutcome(p, m).record)
         \/ \E c : WithArchived(p, record[p], c, m, DecryptOutcome(p, m).record)
         \/ WithNew(p, record[p], m, DecryptOutcome(p, m).record, consumed[p])
<1> DEFINE rec == record[p]
           o == DecryptOutcome(p, m)
           D == DOMAIN Candidates(rec)
<1>1. D \subseteq Nat
  BY CandidatesAre
<1>2. CASE ~m.prekey
  <2> DEFINE tries == [i \in D |-> TryCandidate(p, rec, i, m)]
             ends == {i \in DOMAIN tries : tries[i].result # "failed"}
  <2>1. o = FirstDecided(rec, tries)
    BY <1>2 DEF DecryptOutcome, DecryptRatchet
  <2>2. ends # {}
    BY <2>1 DEF FirstDecided, Outcome
  <2>3. ends \subseteq Nat /\ ends \subseteq D
    BY <1>1
  <2>4. o = tries[Min(ends)]
    BY <2>1, <2>2 DEF FirstDecided
  <2> HIDE DEF ends
  <2>5. Min(ends) \in D
    BY <2>2, <2>3, MinIn
  <2>6. o = TryCandidate(p, rec, Min(ends), m)
    BY <2>4, <2>5
  <2> HIDE DEF tries
  <2> QED BY <2>5, <2>6, CandidateOutcome
<1>3. CASE m.prekey
  <2> DEFINE matching == MatchingSessions(rec, m.base)
             k == IF matching = {} THEN 1 ELSE Min(matching)
             first == IF matching = {} /\ rec.current = NoSession
                        THEN Outcome("failed", rec)
                        ELSE TryCandidate(p, rec, k, m)
             new == Establish(p, rec, m)
  <2>1. o = OrElse(first, matching # {}, new)
    BY <1>3 DEF DecryptOutcome, DecryptPreKey
  <2>2. matching \subseteq D
    BY DEF MatchingSessions
  <2>3. matching # {} => Min(matching) \in D
    <3> HIDE DEF matching
    <3> QED BY <1>1, <2>2, MinIn
  <2>4. rec.current # NoSession => 1 \in D
    BY CandidatesAre
  <2>5. CASE matching # {} \/ first.result # "failed"
    <3>1. o = first
      BY <2>1, <2>5 DEF OrElse
    <3>2. o = TryCandidate(p, rec, k, m) /\ k \in D
      BY <2>3, <2>4, <3>1 DEF Outcome
    <3> HIDE DEF k
    <3> QED BY <3>2, CandidateOutcome
  <2>6. CASE matching = {} /\ first.result = "failed"
    <3> DEFINE a == TrySession(p, NewSession(p, m), m)
               e == ArchiveCurrent(rec, NoSession)
    <3>1. o = new
      BY <2>1, <2>6 DEF OrElse
    <3>2. m.base \notin consumed[p]
      <4> SUFFICES ASSUME m.base \in consumed[p] PROVE FALSE
        OBVIOUS
      <4>1. o = Outcome("notFound", rec)
        BY <3>1 DEF Establish
      <4>2. o.result = "ok"
        OBVIOUS
      <4> HIDE DEF o, rec
      <4> QED BY <4>1, <4>2 DEF Outcome
    <3>3. o = Committed(e, a, FALSE)
      BY <3>1, <3>2 DEF Establish
    <3> HIDE DEF a, e
    <3>4. a.result = "ok" /\ o.record = [e EXCEPT !.current = a.session]
      BY <3>3 DEF Committed, Commit, Outcome
    <3>5. \A c \in SessionsIn(rec) : \E i \in D : Candidates(rec)[i] = c
      BY CandidatesAre
    <3>6. \A c \in SessionsIn(rec) : c.base # m.base
      BY <2>6, <3>5 DEF MatchingSessions
    <3> HIDE DEF o
    <3> QED BY <1>3, <3>2, <3>4, <3>6 DEF WithNew, Opens, a, e, o
  <2> QED BY <2>5, <2>6
<1> QED BY <1>2, <1>3

-----------------------------------------------------------------------------
(* The sessions that the operations make.                                  *)

\* createInitiatorSession()
LEMMA InitiatorOK ==
  ASSUME NEW b \in Bases, NEW p \in Parties
  PROVE  /\ WellFormed(InitiatorSession(Secret(b), b, SignedPreKey(p)), b)
         /\ Erased(InitiatorSession(Secret(b), b, SignedPreKey(p)), {})
         /\ SentBehind(InitiatorSession(Secret(b), b, SignedPreKey(p)), {})
         /\ Sends(InitiatorSession(Secret(b), b, SignedPreKey(p)))
<1> DEFINE x == Secret(b)
           d == DH(b, SignedPreKey(p))
           root == KdfRootKey(<<x>>, d)
           s == InitiatorSession(x, b, SignedPreKey(p))
<1>1. b \in KeyPairs /\ SignedPreKey(p) \in KeyPairs
  BY DEF Bases, KeyPairs, SignedPreKey
<1>2. d \in Mixed /\ x \in Mixed /\ "CK" \in Mixed
  BY <1>1 DEF DH, Mixed, Secret
<1>3. /\ DOMAIN s = Fields /\ s.DHs = b /\ s.RK = root /\ s.CKs = root /\ s.Ns = 0
      /\ s.CKr = <<x, "CK">> /\ s.Nr = 0 /\ s.PN = 0 /\ s.keys = {}
  BY DEF InitiatorSession, Fields
<1> HIDE DEF d, s
<1>4. <<x>> \in Chain(b) /\ Len(<<x>>) = 1
  <2> HIDE DEF x
  <2>1. <<x>> \in Seq(Mixed) /\ Len(<<x>>) = 1 /\ <<x>>[1] = x
    BY <1>2
  <2> QED BY <2>1 DEF Chain, x
<1>5. root \in Chain(b) /\ Len(root) = 2
  <2> DEFINE y == <<x>>
  <2>1. y \in Chain(b) /\ Len(y) = 1
    BY <1>4
  <2> HIDE DEF y
  <2>2. KdfRootKey(y, d) \in Chain(b) /\ Len(KdfRootKey(y, d)) = Len(y) + 1
    BY <1>2, <2>1, ChainGrows
  <2> QED BY <2>1, <2>2 DEF y
<1>6. <<x, "CK">> \in Chain(b) /\ Len(<<x, "CK">>) = 2
  <2> HIDE DEF x
  <2>1. <<x, "CK">> \in Seq(Mixed) /\ Len(<<x, "CK">>) = 2 /\ <<x, "CK">>[1] = x
    BY <1>2
  <2> QED BY <2>1 DEF Chain, x
<1> HIDE DEF root, x
<1>7. WellFormed(s, b)
  BY <1>1, <1>3, <1>5, <1>6 DEF WellFormed
<1>8. Erased(s, {}) /\ SentBehind(s, {}) /\ Sends(s)
  BY <1>3 DEF Erased, SentBehind, Sends
<1> QED BY <1>7, <1>8 DEF s, x

\* createResponderSession()
LEMMA ResponderOK ==
  ASSUME NEW b \in Bases, NEW p \in Parties
  PROVE  /\ WellFormed(ResponderSession(Secret(b), SignedPreKey(p)), b)
         /\ Erased(ResponderSession(Secret(b), SignedPreKey(p)), {})
         /\ SentBehind(ResponderSession(Secret(b), SignedPreKey(p)), {})
         /\ Ready(ResponderSession(Secret(b), SignedPreKey(p)))
<1> DEFINE x == Secret(b)
           s == ResponderSession(x, SignedPreKey(p))
<1>1. SignedPreKey(p) \in KeyPairs
  BY DEF KeyPairs, SignedPreKey
<1>2. x \in Mixed
  BY DEF Mixed, Secret
<1>3. /\ DOMAIN s = Fields /\ s.DHs = SignedPreKey(p) /\ s.DHr = NoKey /\ s.RK = <<x>>
      /\ s.Ns = 0 /\ s.Nr = 0 /\ s.PN = 0 /\ s.keys = {}
  BY DEF ResponderSession, Fields
<1> HIDE DEF s
<1>4. <<x>> \in Chain(b)
  <2> HIDE DEF x
  <2>1. <<x>> \in Seq(Mixed) /\ Len(<<x>>) = 1 /\ <<x>>[1] = x
    BY <1>2
  <2> QED BY <2>1 DEF Chain, x
<1> HIDE DEF x
<1>5. WellFormed(s, b)
  BY <1>1, <1>3, <1>4 DEF WellFormed
<1>6. Erased(s, {}) /\ SentBehind(s, {}) /\ Ready(s)
  BY <1>3 DEF Erased, SentBehind, Ready
<1> QED BY <1>5, <1>6 DEF s, x

\* encrypt(): the session after a message, and the message.
LEMMA SendOK ==
  ASSUME NEW b \in Bases, NEW s, WellFormed(s, b), CanSend(s)
  PROVE  /\ WellFormed(AfterSend(Cleanup(s, 0)), b) /\ Sends(AfterSend(Cleanup(s, 0)))
         /\ MessageOf(s) \in Bodies /\ MessageOf(s).chain \in Chain(b)
         /\ \A acc : Erased(s, acc) => Erased(AfterSend(Cleanup(s, 0)), acc)
         /\ \A out : out \subseteq Bodies /\ SentBehind(s, out) =>
                       SentBehind(AfterSend(Cleanup(s, 0)), out \cup {MessageOf(s)})
<1> DEFINE c == Cleanup(s, 0)
           t == AfterSend(c)
           m == MessageOf(s)
<1>1. SameRatchet(c, s) /\ c.keys \subseteq s.keys
  BY CleanupRemoves
<1>2. s.CKs = s.RK /\ s.RK \in Chain(b) /\ s.Ns \in Nat /\ s.PN \in Nat /\ s.DHs \in KeyPairs
  BY DEF WellFormed, CanSend
<1>3. /\ m.rk = s.DHs /\ m.counter = s.Ns /\ m.previousCounter = s.PN /\ m.chain = s.RK
      /\ m = [rk |-> s.DHs, counter |-> s.Ns, previousCounter |-> s.PN, chain |-> s.RK]
  BY <1>2 DEF MessageOf
<1> HIDE DEF c, m
<1>4. /\ DOMAIN t = Fields /\ t.keys = c.keys /\ t.Ns = s.Ns + 1
      /\ t.DHs = s.DHs /\ t.DHr = s.DHr /\ t.RK = s.RK /\ t.CKs = s.CKs
      /\ t.CKr = s.CKr /\ t.Nr = s.Nr /\ t.PN = s.PN
  BY <1>1 DEF AfterSend, SameRatchet, Fields
<1> HIDE DEF t
<1>5. WellFormed(t, b) /\ Sends(t)
  BY <1>1, <1>2, <1>4 DEF WellFormed, Behind, Sends
<1>6. s.RK \in Seq(Mixed)
  BY <1>2 DEF Chain
<1>7. m \in Bodies
  BY <1>2, <1>3, <1>6 DEF Bodies
<1>8. ASSUME NEW acc, Erased(s, acc) PROVE Erased(t, acc)
  BY <1>1, <1>4, <1>8 DEF Erased, Behind
<1>9. ASSUME NEW out, out \subseteq Bodies,
             SentBehind(s, out) PROVE SentBehind(t, out \cup {m})
  <2>1. t.CKs = t.RK
    BY <1>2, <1>4
  <2>2. ASSUME NEW x \in out \cup {m}
        PROVE  IF x.chain = t.RK THEN x.counter < t.Ns ELSE Len(x.chain) <= Len(t.RK)
    <3>1. CASE x = m
      BY <1>2, <1>3, <1>4, <3>1
    <3>2. CASE x \in out
      <4>1. IF x.chain = s.RK THEN x.counter < s.Ns ELSE Len(x.chain) <= Len(s.RK)
        BY <1>9, <3>2 DEF SentBehind
      <4>2. x.counter \in Nat
        BY <1>9, <3>2 DEF Bodies
      <4> QED BY <1>2, <1>4, <4>1, <4>2
    <3> QED BY <3>1, <3>2
  <2> QED BY <2>1, <2>2 DEF SentBehind
<1> QED BY <1>2, <1>3, <1>5, <1>7, <1>8, <1>9 DEF t, c, m

-----------------------------------------------------------------------------
(* Records.                                                                *)

\* The sessions that an operation may leave in the archive.
Held(rec) == Range(rec.archived) \cup Archivable(rec)

SessionsAre(p, S, acc, out, con, reo, st) ==
  \A c \in S : SessionOK(p, c, con, st) /\ (c.base \notin reo => UpToDate(c, acc, out))

\* withoutPendingPreKey() changes nothing that matters here.
LEMMA HeldOK ==
  ASSUME NEW p, NEW rec, NEW acc, NEW out, NEW con, NEW reo, NEW st,
         RecordOK(p, rec, acc, out, con, reo, st)
  PROVE  /\ SessionsAre(p, Held(rec), acc, out, con, reo, st)
         /\ \A x \in Held(rec) : \E c \in SessionsIn(rec) : x.base = c.base
<1>1. SessionsAre(p, SessionsIn(rec), acc, out, con, reo, st)
  BY DEF RecordOK, SessionsAre
<1>2. Range(rec.archived) \subseteq SessionsIn(rec)
  BY DEF SessionsIn
<1>3. ASSUME rec.current # NoSession
      PROVE  LET x == WithoutPendingPreKey(rec.current) IN
             /\ SessionOK(p, x, con, st)
             /\ x.base \notin reo => UpToDate(x, acc, out)
             /\ x.base = rec.current.base
             /\ rec.current \in SessionsIn(rec)
  <2> DEFINE c == rec.current
             x == WithoutPendingPreKey(c)
  <2>1. c \in SessionsIn(rec)
    BY <1>3 DEF SessionsIn
  <2>2. SessionOK(p, c, con, st) /\ (c.base \notin reo => UpToDate(c, acc, out))
    BY <1>1, <2>1 DEF SessionsAre
  <2> HIDE DEF c
  <2>3. IsSession(x) /\ x.base = c.base /\ x.ratchet = c.ratchet /\ ~x.unacked
    BY <2>2, WithoutPending DEF SessionOK, Established
  <2> HIDE DEF x
  <2>4. SessionOK(p, x, con, st) /\ (x.base \notin reo => UpToDate(x, acc, out))
    BY <2>2, <2>3 DEF SessionOK, Established, UpToDate
  <2> QED BY <2>1, <2>3, <2>4 DEF x, c
<1>4. \A x \in Held(rec) : \/ x \in SessionsIn(rec)
                           \/ rec.current # NoSession /\ x = WithoutPendingPreKey(rec.current)
  BY <1>2 DEF Held, Archivable, Others
<1> QED BY <1>1, <1>3, <1>4 DEF SessionsAre

\* What is known of a session stays true while base keys are drawn and used up.
LEMMA SessionStays ==
  ASSUME NEW p, NEW c, NEW con, NEW con2, con \subseteq con2, NEW st, NEW st2,
         Known(st) \subseteq Known(st2), SessionOK(p, c, con, st)
  PROVE  SessionOK(p, c, con2, st2)
  BY DEF SessionOK, Established

\* The record r that an operation makes of rec.
Follows(p, r, rec, acc, acc2, out, out2, reo2) ==
  /\ DOMAIN r = {"current", "archived"}
  /\ ArchiveOK(r.archived) /\ Len(r.archived) <= MaxArchived
  /\ Range(r.archived) \subseteq Held(rec)
  /\ \A x \in Range(r.archived) :
       \/ x.base \in reo2
       \/ /\ BodiesOf(acc2, x.base) = BodiesOf(acc, x.base)
          /\ BodiesOf(out2, x.base) = BodiesOf(out, x.base)
          /\ r.current # NoSession => x.base # r.current.base

\* A record stays in order when its new current session is.
LEMMA RecordStays ==
  ASSUME NEW p, NEW r, NEW rec, NEW acc, NEW out, NEW con, NEW reo, NEW st,
         NEW acc2, NEW out2, NEW con2, NEW reo2, NEW st2,
         RecordOK(p, rec, acc, out, con, reo, st),
         con \subseteq con2, reo \subseteq reo2, Known(st) \subseteq Known(st2),
         Follows(p, r, rec, acc, acc2, out, out2, reo2),
         r.current # NoSession => SessionsAre(p, {r.current}, acc2, out2, con2, reo2, st2)
  PROVE  RecordOK(p, r, acc2, out2, con2, reo2, st2)
<1>1. SessionsAre(p, Held(rec), acc, out, con, reo, st)
  BY HeldOK
<1>2. ASSUME NEW x \in Range(r.archived)
      PROVE  SessionOK(p, x, con2, st2) /\ (x.base \notin reo2 => UpToDate(x, acc2, out2))
  <2>1. SessionOK(p, x, con, st) /\ (x.base \notin reo => UpToDate(x, acc, out))
    BY <1>1 DEF SessionsAre, Follows
  <2>2. SessionOK(p, x, con2, st2)
    BY <2>1, SessionStays
  <2>3. ASSUME x.base \notin reo2 PROVE UpToDate(x, acc2, out2)
    <3>1. /\ BodiesOf(acc2, x.base) = BodiesOf(acc, x.base)
          /\ BodiesOf(out2, x.base) = BodiesOf(out, x.base)
      BY <2>3 DEF Follows
    <3>2. UpToDate(x, acc, out)
      BY <2>1, <2>3
    <3> QED BY <3>1, <3>2 DEF UpToDate
  <2> QED BY <2>2, <2>3
<1>3. \A c \in SessionsIn(r) :
        SessionOK(p, c, con2, st2) /\ (c.base \notin reo2 => UpToDate(c, acc2, out2))
  BY <1>2 DEF SessionsIn, SessionsAre
<1>4. \A a \in Range(r.archived) :
        r.current # NoSession /\ a.base = r.current.base => a.base \in reo2
  BY DEF Follows
<1> QED BY <1>3, <1>4 DEF RecordOK, Follows

\* A record that an operation leaves alone.
LEMMA RecordGrows ==
  ASSUME NEW p, NEW rec, NEW acc, NEW out, NEW con, NEW reo, NEW st, NEW con2, NEW st2,
         RecordOK(p, rec, acc, out, con, reo, st),
         con \subseteq con2, Known(st) \subseteq Known(st2)
  PROVE  RecordOK(p, rec, acc, out, con2, reo, st2)
<1>1. \A c \in SessionsIn(rec) : SessionOK(p, c, con2, st2)
  BY SessionStays DEF RecordOK
<1> QED BY <1>1 DEF RecordOK

\* The same, for all that is known of a device, when its peer may have sent more.
LEMMA PartyGrows ==
  ASSUME NEW p, NEW rec, NEW acc, NEW out, NEW inn, NEW con, NEW reo, NEW st,
         NEW inn2, NEW st2,
         PartyOK(p, rec, acc, out, inn, con, reo, st),
         inn \subseteq inn2, Known(st) \subseteq Known(st2)
  PROVE  PartyOK(p, rec, acc, out, inn2, con, reo, st2)
<1>1. RecordOK(p, rec, acc, out, con, reo, st2)
  BY RecordGrows DEF PartyOK
<1>2. \A m \in out : MessageOK(p, m, con, st2)
  BY DEF PartyOK, MessageOK
<1> QED BY <1>1, <1>2 DEF PartyOK

\* The current session of a record.
LEMMA CurrentIs ==
  ASSUME NEW p, NEW rec, NEW acc, NEW out, NEW con, NEW reo, NEW st,
         RecordOK(p, rec, acc, out, con, reo, st)
  PROVE  rec.current = NoSession \/ (rec.current \in SessionsIn(rec) /\ IsSession(rec.current))
<1>1. rec.current # NoSession => rec.current \in SessionsIn(rec)
  BY DEF SessionsIn
<1> QED BY <1>1 DEF RecordOK, SessionOK, Established

\* archiveCurrent() with a session of a base key that the record does not hold.
LEMMA ArchiveFollows ==
  ASSUME NEW p, NEW rec, NEW acc, NEW out, NEW con, NEW reo, NEW st, NEW new, NEW r,
         NEW acc2, NEW out2, NEW reo2,
         RecordOK(p, rec, acc, out, con, reo, st),
         DOMAIN r = {"current", "archived"},
         r.archived = ArchiveCurrent(rec, new).archived,
         \A c \in SessionsIn(rec) :
           /\ r.current # NoSession => c.base # r.current.base
           /\ BodiesOf(acc2, c.base) = BodiesOf(acc, c.base)
           /\ BodiesOf(out2, c.base) = BodiesOf(out, c.base)
  PROVE  Follows(p, r, rec, acc, acc2, out, out2, reo2)
<1> DEFINE q == ArchiveCurrent(rec, new).archived
<1>1. ArchiveOK(rec.archived) /\ (rec.current = NoSession \/ IsSession(rec.current))
  BY CurrentIs DEF RecordOK
<1>2. ArchiveOK(q) /\ Range(q) \subseteq Archivable(rec) /\ Len(q) <= MaxArchived
  BY <1>1, ArchiveCurrentOK
<1> HIDE DEF q
<1>3. r.archived = q
  BY DEF q
<1>4. Range(q) \subseteq Held(rec)
  BY <1>2 DEF Held
<1>5. \A x \in Held(rec) : \E c \in SessionsIn(rec) : x.base = c.base
  BY HeldOK
<1> QED BY <1>2, <1>3, <1>4, <1>5 DEF Follows

\* The messages that a device got and sent have base keys that were drawn.
AllKnown(ms, st) == \A m \in ms : m.base \in Known(st)

\* No message with base key b, no body.
LEMMA NoBodies ==
  ASSUME NEW ms, NEW b, \A m \in ms : m.base # b
  PROVE  BodiesOf(ms, b) = {}
  BY DEF BodiesOf

\* Drawing a base key.
LEMMA KnownGrows ==
  ASSUME NEW p \in Parties, NEW st \in [Parties -> Nat]
  PROVE  /\ Known(st) \subseteq Known([st EXCEPT ![p] = @ + 1])
         /\ <<p, "ephemeral", st[p]>> \in Bases
         /\ <<p, "ephemeral", st[p]>> \in Known([st EXCEPT ![p] = @ + 1])
         /\ <<p, "ephemeral", st[p]>> \notin Known(st)
         /\ [st EXCEPT ![p] = @ + 1] \in [Parties -> Nat]
<1> DEFINE st2 == [st EXCEPT ![p] = @ + 1]
           b == <<p, "ephemeral", st[p]>>
<1>1. st[p] \in Nat /\ st2 \in [Parties -> Nat] /\ st2[p] = st[p] + 1
  OBVIOUS
<1>2. \A q \in Parties : st[q] \in Nat /\ st[q] <= st2[q]
  BY <1>1
<1>3. b \in Bases /\ b[1] = p /\ b[3] = st[p]
  BY <1>1 DEF Bases
<1> HIDE DEF b, st2
<1>4. \A x \in Bases : x[1] \in Parties /\ x[3] \in Nat
  BY DEF Bases
<1>5. ASSUME NEW x \in Known(st) PROVE x \in Known(st2)
  <2>1. x \in Bases /\ x[3] < st[x[1]]
    BY DEF Known
  <2>2. x[1] \in Parties /\ x[3] \in Nat
    BY <1>4, <2>1
  <2> DEFINE q == x[1]
             n == x[3]
  <2>3. st[q] \in Nat /\ st2[q] \in Nat /\ st[q] <= st2[q] /\ n \in Nat /\ n < st[q]
    BY <1>1, <1>2, <2>1, <2>2
  <2>4. n < st2[q]
    <3> HIDE DEF q, n
    <3> QED BY <2>3
  <2> QED BY <2>1, <2>4 DEF Known
<1>6. b \in Known(st2) /\ b \notin Known(st)
  BY <1>1, <1>3 DEF Known
<1> QED BY <1>1, <1>3, <1>5, <1>6 DEF b, st2

\* startSession()
LEMMA StartOK ==
  ASSUME NEW p \in Parties, NEW peer \in Parties, NEW rec, NEW acc, NEW out, NEW inn,
         NEW con, NEW reo, NEW st, NEW st2, NEW b \in Bases, NEW new,
         PartyOK(p, rec, acc, out, inn, con, reo, st), AllKnown(inn, st),
         Known(st) \subseteq Known(st2), b \in Known(st2), b \notin Known(st), Owner(b) = p,
         IsSession(new), new.base = b,
         new.ratchet = InitiatorSession(Secret(b), b, SignedPreKey(peer))
  PROVE  PartyOK(p, ArchiveCurrent(rec, new), acc, out, inn, con, reo, st2)
<1> DEFINE r == ArchiveCurrent(rec, new)
<1>1. Known(st) \subseteq Known(st2) /\ b \in Bases /\ b \in Known(st2) /\ b \notin Known(st)
  OBVIOUS
<1>2. RecordOK(p, rec, acc, out, con, reo, st)
  BY DEF PartyOK
<1>3. AllKnown(acc, st) /\ AllKnown(out, st)
  BY DEF AllKnown, PartyOK, MessageOK
<1>4. BodiesOf(acc, b) = {} /\ BodiesOf(out, b) = {}
  BY <1>1, <1>3, NoBodies DEF AllKnown
<1>7. /\ WellFormed(new.ratchet, b) /\ Erased(new.ratchet, {}) /\ SentBehind(new.ratchet, {})
      /\ Sends(new.ratchet)
  BY InitiatorOK
<1>8. SessionsAre(p, {new}, acc, out, con, reo, st2)
  BY <1>4, <1>7 DEF SessionsAre, SessionOK, Established, UpToDate
<1>9. \A c \in SessionsIn(rec) : c.base # new.base
  BY <1>1, <1>2 DEF RecordOK, SessionOK, Established
<1>10. r.current = new /\ DOMAIN r = {"current", "archived"}
  BY <1>2, CurrentIs, ArchiveCurrentOK DEF RecordOK
<1>11. Follows(p, r, rec, acc, acc, out, out, reo)
  BY <1>2, <1>9, <1>10, ArchiveFollows
<1> HIDE DEF r
<1>12. RecordOK(p, r, acc, out, con, reo, st2)
  <2>1. SessionsAre(p, {r.current}, acc, out, con, reo, st2)
    BY <1>8, <1>10
  <2>2. con \subseteq con /\ reo \subseteq reo
    OBVIOUS
  <2> QED BY <1>1, <1>2, <1>11, <2>1, <2>2, RecordStays
<1>13. \A m \in out : MessageOK(p, m, con, st2)
  BY <1>1 DEF PartyOK, MessageOK
<1> QED BY <1>12, <1>13 DEF PartyOK, r

\* archiveSession()
LEMMA ArchiveOnlyOK ==
  ASSUME NEW p, NEW rec, NEW acc, NEW out, NEW inn, NEW con, NEW reo, NEW st,
         PartyOK(p, rec, acc, out, inn, con, reo, st)
  PROVE  PartyOK(p, ArchiveCurrent(rec, NoSession), acc, out, inn, con, reo, st)
<1> DEFINE r == ArchiveCurrent(rec, NoSession)
<1>1. RecordOK(p, rec, acc, out, con, reo, st)
  BY DEF PartyOK
<1>2. r.current = NoSession /\ DOMAIN r = {"current", "archived"}
  BY <1>1, CurrentIs, ArchiveCurrentOK DEF RecordOK
<1>3. Follows(p, r, rec, acc, acc, out, out, reo)
  BY <1>1, <1>2, ArchiveFollows
<1> HIDE DEF r
<1>4. RecordOK(p, r, acc, out, con, reo, st)
  BY <1>1, <1>2, <1>3, RecordStays
<1> QED BY <1>4 DEF PartyOK, r

\* The bodies of messages are bodies.
LEMMA BodiesIn ==
  ASSUME NEW ms, NEW b, \A m \in ms : m.body \in Bodies
  PROVE  BodiesOf(ms, b) \subseteq Bodies
  BY DEF BodiesOf

\* An operation that only writes a session over the current one.
LEMMA OverwriteFollows ==
  ASSUME NEW p, NEW rec, NEW acc, NEW out, NEW con, NEW reo, NEW st, NEW r, NEW m,
         NEW acc2, NEW out2, NEW reo2,
         RecordOK(p, rec, acc, out, con, reo, st),
         DOMAIN r = {"current", "archived"}, r.archived = rec.archived,
         r.current.base = m.base,
         acc2 \in {acc, acc \cup {m}}, out2 \in {out, out \cup {m}},
         \A x \in Range(rec.archived) : x.base = m.base => x.base \in reo2
  PROVE  Follows(p, r, rec, acc, acc2, out, out2, reo2)
<1>1. Range(r.archived) \subseteq Held(rec)
  BY DEF Held
<1>2. ASSUME NEW x \in Range(r.archived), x.base # m.base
      PROVE  /\ BodiesOf(acc2, x.base) = BodiesOf(acc, x.base)
             /\ BodiesOf(out2, x.base) = BodiesOf(out, x.base)
  <2> DEFINE b == x.base
  <2>1. m.base # b
    BY <1>2
  <2> HIDE DEF b
  <2>2. /\ BodiesOf(acc \cup {m}, b) = BodiesOf(acc, b)
        /\ BodiesOf(out \cup {m}, b) = BodiesOf(out, b)
    BY <2>1, BodiesKept, Zenon
  <2> QED BY <2>2 DEF b
<1> QED BY <1>1, <1>2 DEF Follows, RecordOK

\* encrypt()
LEMMA EncryptOK ==
  ASSUME NEW p, NEW rec, NEW acc, NEW out, NEW inn, NEW con, NEW reo, NEW st, NEW r, NEW m,
         PartyOK(p, rec, acc, out, inn, con, reo, st),
         rec.current # NoSession, CanSend(rec.current.ratchet),
         DOMAIN r = {"current", "archived"}, r.archived = rec.archived,
         IsSession(r.current), r.current.base = rec.current.base,
         r.current.unacked = rec.current.unacked,
         r.current.ratchet = AfterSend(Cleanup(rec.current.ratchet, 0)),
         m.prekey = rec.current.unacked, m.base = rec.current.base,
         m.body = MessageOf(rec.current.ratchet)
  PROVE  PartyOK(p, r, acc, out \cup {m}, inn, con, reo, st)
<1> DEFINE c == rec.current
           b == c.base
           t == AfterSend(Cleanup(c.ratchet, 0))
<1>1. RecordOK(p, rec, acc, out, con, reo, st)
  BY DEF PartyOK
<1>2. c \in SessionsIn(rec)
  BY DEF SessionsIn
<1>3. SessionOK(p, c, con, st) /\ (b \notin reo => UpToDate(c, acc, out))
  BY <1>1, <1>2 DEF RecordOK
<1>4. b \in Bases /\ WellFormed(c.ratchet, b)
  BY <1>3 DEF SessionOK, Established, Known
<1>5. /\ WellFormed(t, b) /\ Sends(t)
      /\ m.body \in Bodies /\ m.body.chain \in Chain(b)
      /\ \A A : Erased(c.ratchet, A) => Erased(t, A)
      /\ \A O : O \subseteq Bodies /\ SentBehind(c.ratchet, O) => SentBehind(t, O \cup {m.body})
  <2> DEFINE s == c.ratchet
  <2>1. WellFormed(s, b) /\ CanSend(s) /\ m.body = MessageOf(s)
    BY <1>4
  <2> HIDE DEF s, b
  <2> QED BY <1>4, <2>1, SendOK DEF s
<1>6. BodiesOf(out, b) \subseteq Bodies
  BY BodiesIn DEF PartyOK, MessageOK
<1>7. BodiesOf(out \cup {m}, b) = BodiesOf(out, b) \cup {m.body}
  <2>1. \A ms, x, d : x.base = d => BodiesOf(ms \cup {x}, d) = BodiesOf(ms, d) \cup {x.body}
    BY BodiesAdded, Zenon
  <2>2. m.base = b
    OBVIOUS
  <2>3. BodiesOf(out \cup {m}, m.base) = BodiesOf(out, m.base) \cup {m.body}
    BY ONLY <2>1, ZenonT(30)
  <2> HIDE DEF b
  <2> QED BY ONLY <2>2, <2>3, ZenonT(30)
<1>8. SessionOK(p, r.current, con, st)
  BY <1>3, <1>5 DEF SessionOK, Established
<1>9. ASSUME b \notin reo PROVE UpToDate(r.current, acc, out \cup {m})
  <2>1. Erased(c.ratchet, BodiesOf(acc, b)) /\ SentBehind(c.ratchet, BodiesOf(out, b))
    BY <1>3, <1>9 DEF UpToDate
  <2>2. Erased(t, BodiesOf(acc, b)) /\ SentBehind(t, BodiesOf(out, b) \cup {m.body})
    BY <1>5, <1>6, <2>1
  <2> HIDE DEF t
  <2> QED BY <1>7, <2>2 DEF UpToDate, t
<1>10. SessionsAre(p, {r.current}, acc, out \cup {m}, con, reo, st)
  BY <1>8, <1>9 DEF SessionsAre
<1>11. Follows(p, r, rec, acc, acc, out, out \cup {m}, reo)
  <2>1. \A x \in Range(rec.archived) : x.base = m.base => x.base \in reo
    BY <1>1 DEF RecordOK
  <2>2. acc \in {acc, acc \cup {m}} /\ out \cup {m} \in {out, out \cup {m}}
    OBVIOUS
  <2>3. r.current.base = m.base
    OBVIOUS
  <2> QED BY <1>1, <2>1, <2>2, <2>3, OverwriteFollows
<1>12. RecordOK(p, r, acc, out \cup {m}, con, reo, st)
  <2> DEFINE out2 == out \cup {m}
  <2>1. con \subseteq con /\ reo \subseteq reo /\ Known(st) \subseteq Known(st)
    OBVIOUS
  <2> HIDE DEF out2
  <2> QED BY <1>1, <1>10, <1>11, <2>1, RecordStays DEF out2
<1>13. MessageOK(p, m, con, st)
  BY <1>3, <1>5 DEF MessageOK, SessionOK, Established
<1> QED BY <1>12, <1>13 DEF PartyOK

-----------------------------------------------------------------------------
(* decrypt().                                                              *)

\* The messages that reach p.
Arriving(p, inn, st) ==
  \A m \in inn : /\ m.body \in Bodies /\ m.base \in Known(st) /\ m.body.chain \in Chain(m.base)
                 /\ m.prekey => Owner(m.base) # p

\* decrypt() returned m, and the record is in order.
LEMMA PartyAccepts ==
  ASSUME NEW p, NEW rec, NEW acc, NEW out, NEW inn, NEW con, NEW reo, NEW st,
         NEW r, NEW m \in inn, NEW con2, NEW reo2,
         PartyOK(p, rec, acc, out, inn, con, reo, st),
         RecordOK(p, r, acc \cup {m}, out, con2, reo2, st),
         con \subseteq con2, Owner(m.base) # p => m.base \in con2
  PROVE  PartyOK(p, r, acc \cup {m}, out, inn, con2, reo2, st)
<1>1. \A x \in out : MessageOK(p, x, con2, st)
  BY DEF PartyOK, MessageOK
<1> QED BY <1>1 DEF PartyOK

\* An attempt with a session of the record.
LEMMA HeldAttempt ==
  ASSUME NEW p \in Parties, ratchets[p] \in Nat,
         NEW rec, NEW acc, NEW out, NEW inn, NEW con, NEW reo, NEW st, NEW m \in inn,
         PartyOK(p, rec, acc, out, inn, con, reo, st), Arriving(p, inn, st),
         NEW c \in SessionsIn(rec), Opens(p, c, m)
  PROVE  /\ AttemptResult(p, TrySession(p, c, m).session, c, m, acc, out, con, st)
         /\ m.base \notin reo => UpToDate(c, acc, out)
         /\ Owner(m.base) # p => m.base \in con
<1>1. SessionOK(p, c, con, st) /\ (c.base \notin reo => UpToDate(c, acc, out))
  BY DEF PartyOK, RecordOK
<1>2. BodiesOf(acc, c.base) \subseteq Bodies /\ BodiesOf(out, c.base) \subseteq Bodies
  <2>1. \A x \in acc : x.body \in Bodies
    BY DEF PartyOK, Arriving
  <2>2. \A x \in out : x.body \in Bodies
    BY DEF PartyOK, MessageOK
  <2> QED BY <2>1, <2>2, BodiesIn
<1>3. m.body \in Bodies /\ m.body.chain \in Chain(m.base)
  BY DEF Arriving
<1>4. TrySession(p, c, m).result = "ok" /\ Established(p, c, con, st) /\ Ready(c.ratchet)
  BY <1>1 DEF Opens, SessionOK, Ready
<1>5. AttemptResult(p, TrySession(p, c, m).session, c, m, acc, out, con, st)
  BY <1>1, <1>2, <1>3, <1>4, AttemptOK
<1>6. c.base = m.base
  BY <1>5 DEF AttemptResult
<1> QED BY <1>1, <1>5, <1>6 DEF SessionOK, Established

\* What an attempt leaves of a session that is up to date is up to date.
LEMMA AttemptCounts ==
  ASSUME NEW p, NEW a, NEW c, NEW m, NEW acc, NEW out, NEW con, NEW con2, NEW st,
         NEW reo2, AttemptResult(p, a, c, m, acc, out, con, st),
         m.base \notin reo2 => UpToDate(c, acc, out), con \subseteq con2
  PROVE  /\ SessionsAre(p, {a}, acc \cup {m}, out, con2, reo2, st)
         /\ a.base = m.base /\ c.base = m.base
<1>1. SessionOK(p, a, con, st) /\ a.base = m.base /\ c.base = m.base
  BY DEF AttemptResult
<1>2. SessionOK(p, a, con2, st)
  BY <1>1, SessionStays
<1>3. a.base \notin reo2 => UpToDate(a, acc \cup {m}, out)
  BY <1>1 DEF AttemptResult
<1> QED BY <1>1, <1>2, <1>3 DEF SessionsAre

\* The current session opens the message.
LEMMA CurrentOpens ==
  ASSUME NEW p \in Parties, ratchets[p] \in Nat,
         NEW rec, NEW acc, NEW out, NEW inn, NEW con, NEW reo, NEW st, NEW m \in inn,
         PartyOK(p, rec, acc, out, inn, con, reo, st), Arriving(p, inn, st),
         NEW con2, NEW reo2, con \subseteq con2, reo \subseteq reo2,
         NEW r, WithCurrent(p, rec, m, r)
  PROVE  PartyOK(p, r, acc \cup {m}, out, inn, con2, reo2, st)
<1> DEFINE c == rec.current
           a == TrySession(p, c, m).session
<1>1. RecordOK(p, rec, acc, out, con, reo, st)
  BY DEF PartyOK
<1>2. c \in SessionsIn(rec) /\ Opens(p, c, m)
  BY DEF SessionsIn, WithCurrent
<1>3. r.current = a /\ r.archived = rec.archived /\ DOMAIN r = {"current", "archived"}
  BY <1>1 DEF WithCurrent, RecordOK
<1> HIDE DEF c
<1>4. /\ AttemptResult(p, a, c, m, acc, out, con, st)
      /\ m.base \notin reo => UpToDate(c, acc, out)
      /\ Owner(m.base) # p => m.base \in con
  BY <1>2, HeldAttempt
<1> HIDE DEF a
<1>5. SessionsAre(p, {a}, acc \cup {m}, out, con2, reo2, st) /\ a.base = m.base /\ c.base = m.base
  <2>1. m.base \notin reo2 => UpToDate(c, acc, out)
    BY <1>4
  <2> QED BY <1>4, <2>1, AttemptCounts
<1>6. Follows(p, r, rec, acc, acc \cup {m}, out, out, reo2)
  <2>1. \A x \in Range(rec.archived) : x.base = m.base => x.base \in reo2
    BY <1>1, <1>5 DEF RecordOK, WithCurrent, c
  <2>2. acc \cup {m} \in {acc, acc \cup {m}} /\ out \in {out, out \cup {m}}
    OBVIOUS
  <2>3. r.current.base = m.base
    BY <1>3, <1>5
  <2> QED BY <1>1, <1>3, <2>1, <2>2, <2>3, OverwriteFollows
<1>7. RecordOK(p, r, acc \cup {m}, out, con2, reo2, st)
  <2> DEFINE acc2 == acc \cup {m}
  <2>1. SessionsAre(p, {r.current}, acc2, out, con2, reo2, st)
    BY <1>3, <1>5
  <2>2. Follows(p, r, rec, acc, acc2, out, out, reo2)
    BY <1>6
  <2> HIDE DEF acc2
  <2>3. Known(st) \subseteq Known(st)
    OBVIOUS
  <2> QED BY <1>1, <2>1, <2>2, <2>3, RecordStays DEF acc2
<1> QED BY <1>4, <1>7, PartyAccepts

\* An archived session opens the message: with a skipped key it is written over
\* the current one, and leaves a copy; otherwise it is promoted.
LEMMA ArchivedOpens ==
  ASSUME NEW p \in Parties, ratchets[p] \in Nat,
         NEW rec, NEW acc, NEW out, NEW inn, NEW con, NEW reo, NEW st, NEW m \in inn,
         PartyOK(p, rec, acc, out, inn, con, reo, st), Arriving(p, inn, st),
         NEW con2, NEW reo2, con \subseteq con2, reo \subseteq reo2,
         NEW r, NEW c, WithArchived(p, rec, c, m, r), CopiesLeft(r) \subseteq reo2
  PROVE  PartyOK(p, r, acc \cup {m}, out, inn, con2, reo2, st)
<1> DEFINE try == TrySession(p, c, m)
           a == try.session
           acc2 == acc \cup {m}
<1>1. RecordOK(p, rec, acc, out, con, reo, st)
  BY DEF PartyOK
<1>2. c \in SessionsIn(rec) /\ c \in Range(rec.archived) /\ Opens(p, c, m)
  BY DEF SessionsIn, WithArchived
<1>3. /\ AttemptResult(p, a, c, m, acc, out, con, st)
      /\ m.base \notin reo => UpToDate(c, acc, out)
      /\ Owner(m.base) # p => m.base \in con
  BY <1>2, HeldAttempt
<1>4. r = IF ~try.skipped THEN PromoteSession(rec, a) ELSE [rec EXCEPT !.current = a]
  BY DEF WithArchived, Commit
<1> HIDE DEF try, a
<1>5. SessionsAre(p, {a}, acc2, out, con2, reo2, st) /\ a.base = m.base /\ c.base = m.base
  <2>1. m.base \notin reo2 => UpToDate(c, acc, out)
    BY <1>3
  <2> QED BY <1>3, <2>1, AttemptCounts
<1>6. r.current = a /\ Follows(p, r, rec, acc, acc2, out, out, reo2)
  <2>1. CASE try.skipped
    <3>1. r.current = a /\ r.archived = rec.archived /\ DOMAIN r = {"current", "archived"}
      BY <1>1, <1>4, <2>1 DEF RecordOK
    <3>2. m.base \in reo2
      BY <1>2, <1>5, <3>1 DEF CopiesLeft
    <3>3. \A x \in Range(rec.archived) : x.base = m.base => x.base \in reo2
      BY <3>2
    <3>4. acc2 \in {acc, acc \cup {m}} /\ out \in {out, out \cup {m}}
      OBVIOUS
    <3>5. r.current.base = m.base
      BY <1>5, <3>1
    <3> HIDE DEF acc2
    <3> QED BY <1>1, <3>1, <3>3, <3>4, <3>5, OverwriteFollows
  <2>2. CASE ~try.skipped
    <3>1. r = PromoteSession(rec, a)
      BY <1>4, <2>2
    <3>2. /\ ArchiveOK(rec.archived) /\ Len(rec.archived) <= MaxArchived
          /\ rec.current = NoSession \/ IsSession(rec.current)
      BY <1>1, CurrentIs DEF RecordOK
    <3>3. \E x \in Range(rec.archived) : x.base = a.base
      BY <1>2, <1>5
    <3>4. /\ r.current = a
          /\ DOMAIN r = {"current", "archived"}
          /\ ArchiveOK(r.archived)
          /\ \A x \in Range(r.archived) : x \in Archivable(rec) /\ x.base # a.base
          /\ Len(r.archived) <= MaxArchived
      BY <3>1, <3>2, <3>3, PromoteOK
    <3>5. Range(r.archived) \subseteq Held(rec)
      BY <3>4 DEF Held
    <3>6. ASSUME NEW x \in Range(r.archived)
          PROVE  x.base # r.current.base /\ BodiesOf(acc2, x.base) = BodiesOf(acc, x.base)
      <4> DEFINE b == x.base
      <4>1. m.base # b
        BY <1>5, <3>4
      <4> HIDE DEF b
      <4>2. BodiesOf(acc \cup {m}, b) = BodiesOf(acc, b)
        BY <4>1, BodiesKept, Zenon
      <4> QED BY <1>5, <3>4, <4>2 DEF b
    <3> HIDE DEF acc2
    <3> QED BY <3>4, <3>5, <3>6 DEF Follows
  <2> QED BY <2>1, <2>2
<1>7. RecordOK(p, r, acc2, out, con2, reo2, st)
  <2>1. SessionsAre(p, {r.current}, acc2, out, con2, reo2, st)
    BY <1>5, <1>6
  <2> HIDE DEF acc2
  <2>2. Known(st) \subseteq Known(st)
    OBVIOUS
  <2> QED BY <1>1, <1>6, <2>1, <2>2, RecordStays
<1> QED BY <1>3, <1>7, PartyAccepts

\* The message establishes a session and opens it.
LEMMA NewOpens ==
  ASSUME NEW p \in Parties, ratchets[p] \in Nat,
         NEW rec, NEW acc, NEW out, NEW inn, NEW con, NEW reo, NEW st, NEW m \in inn,
         PartyOK(p, rec, acc, out, inn, con, reo, st), Arriving(p, inn, st),
         NEW con2, NEW reo2, con \subseteq con2, reo \subseteq reo2, m.base \in con2,
         NEW r, WithNew(p, rec, m, r, con)
  PROVE  PartyOK(p, r, acc \cup {m}, out, inn, con2, reo2, st)
<1> DEFINE c == NewSession(p, m)
           a == TrySession(p, c, m).session
           acc2 == acc \cup {m}
           e == ArchiveCurrent(rec, NoSession)
           b == m.base
<1>1. RecordOK(p, rec, acc, out, con, reo, st)
  BY DEF PartyOK
<1>2. /\ m.body \in Bodies /\ b \in Known(st) /\ b \in Bases /\ m.body.chain \in Chain(b)
      /\ Owner(b) # p /\ b \notin con
  BY DEF Arriving, WithNew, Known
<1>3. BodiesOf(acc, b) = {} /\ BodiesOf(out, b) = {}
  <2>1. \A x \in acc : x.base # b
    BY <1>2 DEF PartyOK
  <2>2. \A x \in out : x.base # b
    BY <1>2 DEF PartyOK, MessageOK
  <2> HIDE DEF b
  <2> QED BY <2>1, <2>2, NoBodies
<1>4. /\ IsSession(c) /\ c.base = b /\ c.unacked = FALSE
      /\ c.ratchet = ResponderSession(Secret(b), SignedPreKey(p))
  BY DEF NewSession, IsSession
<1>5. /\ WellFormed(c.ratchet, b) /\ Erased(c.ratchet, {}) /\ SentBehind(c.ratchet, {})
      /\ Ready(c.ratchet)
  <2> HIDE DEF b, c
  <2> QED BY <1>2, <1>4, ResponderOK
<1>6. Established(p, c, con2, st) /\ UpToDate(c, acc, out)
  <2> HIDE DEF c
  <2> QED BY <1>2, <1>3, <1>4, <1>5 DEF SessionOK, Established, UpToDate
<1>7. TrySession(p, c, m).result = "ok" /\ r = [e EXCEPT !.current = a]
  BY DEF WithNew, Opens
<1>8. AttemptResult(p, a, c, m, acc, out, con2, st)
  <2>1. BodiesOf(acc, c.base) \subseteq Bodies /\ BodiesOf(out, c.base) \subseteq Bodies
    BY <1>3, <1>4
  <2> HIDE DEF c
  <2> QED BY <1>2, <1>5, <1>6, <1>7, <2>1, AttemptOK
<1> HIDE DEF a, c
<1>9. SessionsAre(p, {a}, acc2, out, con2, reo2, st) /\ a.base = b
  <2>1. m.base \notin reo2 => UpToDate(c, acc, out)
    BY <1>6
  <2>2. con2 \subseteq con2
    OBVIOUS
  <2> QED BY <1>8, <2>1, <2>2, AttemptCounts
<1>10. DOMAIN e = {"current", "archived"}
  BY <1>1, CurrentIs, ArchiveCurrentOK DEF RecordOK
<1>11. r.current = a /\ DOMAIN r = {"current", "archived"} /\ r.archived = e.archived
  <2> HIDE DEF e
  <2> QED BY <1>7, <1>10
<1>12. ASSUME NEW x \in SessionsIn(rec)
       PROVE  /\ x.base # r.current.base
              /\ BodiesOf(acc2, x.base) = BodiesOf(acc, x.base)
              /\ BodiesOf(out, x.base) = BodiesOf(out, x.base)
  <2> DEFINE y == x.base
  <2>1. m.base # y
    BY DEF WithNew
  <2> HIDE DEF y
  <2>2. BodiesOf(acc \cup {m}, y) = BodiesOf(acc, y)
    BY <2>1, BodiesKept, Zenon
  <2> QED BY <1>9, <1>11, <2>1, <2>2 DEF y
<1> HIDE DEF acc2, e, b
<1>13. Follows(p, r, rec, acc, acc2, out, out, reo2)
  BY <1>1, <1>11, <1>12, ArchiveFollows DEF e
<1>14. RecordOK(p, r, acc2, out, con2, reo2, st)
  <2>1. SessionsAre(p, {r.current}, acc2, out, con2, reo2, st)
    BY <1>9, <1>11
  <2>2. Known(st) \subseteq Known(st)
    OBVIOUS
  <2> QED BY <1>1, <1>13, <2>1, <2>2, RecordStays
<1> QED BY <1>14, PartyAccepts DEF acc2

-----------------------------------------------------------------------------
(* The invariant holds initially and is kept by every operation.           *)

\* There are two devices, each the peer of the other.
LEMMA Peers ==
  ASSUME NEW p \in Parties
  PROVE  /\ Peer(p) \in Parties /\ Peer(p) # p /\ Peer(Peer(p)) = p
         /\ \A q \in Parties : q = p \/ q = Peer(p)
  BY CipherAssumption DEF Parties, Peer

\* What the invariant says of one device.
LEMMA OfParty ==
  ASSUME IInv, NEW p \in Parties
  PROVE  /\ PartyOK(p, record[p], accepted[p], sent[p], sent[Peer(p)], consumed[p],
                    reopened[p], started)
         /\ Arriving(p, sent[Peer(p)], started)
         /\ ratchets[p] \in Nat
<1>1. \A q \in Parties :
        PartyOK(q, record[q], accepted[q], sent[q], sent[Peer(q)], consumed[q], reopened[q],
                started)
  BY DEF IInv
<1>2. \A m \in sent[Peer(p)] : MessageOK(Peer(p), m, consumed[Peer(p)], started)
  BY <1>1, Peers DEF PartyOK
<1>3. Arriving(p, sent[Peer(p)], started)
  BY <1>2, Peers DEF Arriving, MessageOK
<1>4. ratchets[p] \in Nat
  BY DEF IInv
<1> QED BY <1>1, <1>3, <1>4

\* Empty records satisfy the invariant.
LEMMA InitOK == Init => IInv
<1> SUFFICES ASSUME Init PROVE IInv
  OBVIOUS
<1>1. /\ ByParty(record) /\ ByParty(consumed) /\ ByParty(sent) /\ ByParty(accepted)
      /\ ByParty(reopened)
  BY DEF Init, ByParty
<1>2. ratchets \in [Parties -> Nat] /\ started \in [Parties -> Nat]
  BY DEF Init
<1>3. ASSUME NEW p \in Parties
      PROVE  PartyOK(p, record[p], accepted[p], sent[p], sent[Peer(p)], consumed[p],
                     reopened[p], started)
  <2> DEFINE r == record[p]
  <2>1. r = EmptyRecord /\ accepted[p] = {} /\ sent[p] = {}
    BY DEF Init
  <2>2. DOMAIN r = {"current", "archived"} /\ r.current = NoSession /\ r.archived = << >>
    BY <2>1 DEF EmptyRecord
  <2> DEFINE q == << >>
  <2>3. q \in Seq({}) /\ Len(q) = 0 /\ DOMAIN q = {}
    OBVIOUS
  <2>4. Range(q) = {} /\ ArchiveOK(q) /\ Len(q) <= MaxArchived
    <3> HIDE DEF q
    <3>1. Range(q) = {}
      BY <2>3 DEF Range
    <3> QED BY <2>3, <3>1, CipherAssumption DEF ArchiveOK, IsSeq, Distinct
  <2> HIDE DEF r
  <2>5. SessionsIn(r) = {}
    BY <2>2, <2>4 DEF SessionsIn
  <2>6. RecordOK(p, r, accepted[p], sent[p], consumed[p], reopened[p], started)
    BY <2>2, <2>4, <2>5 DEF RecordOK
  <2> QED BY <2>1, <2>6 DEF PartyOK, r
<1> QED BY <1>1, <1>2, <1>3 DEF IInv

\* What is left to show of a step of device p.
LEMMA StepOfParty ==
  ASSUME IInv, NEW p \in Parties,
         ByParty(record'), ByParty(consumed'), ByParty(sent'), ByParty(accepted'),
         ByParty(reopened'), ratchets' \in [Parties -> Nat], started' \in [Parties -> Nat],
         record'[Peer(p)] = record[Peer(p)], consumed'[Peer(p)] = consumed[Peer(p)],
         sent'[Peer(p)] = sent[Peer(p)], accepted'[Peer(p)] = accepted[Peer(p)],
         reopened'[Peer(p)] = reopened[Peer(p)],
         sent[p] \subseteq sent'[p], Known(started) \subseteq Known(started'),
         PartyOK(p, record'[p], accepted'[p], sent'[p], sent[Peer(p)], consumed'[p],
                 reopened'[p], started')
  PROVE  IInv'
<1> DEFINE o == Peer(p)
<1>1. o \in Parties /\ Peer(o) = p /\ \A q \in Parties : q = p \/ q = o
  BY Peers
<1>2. PartyOK(o, record[o], accepted[o], sent[o], sent[p], consumed[o], reopened[o], started)
  BY <1>1, OfParty
<1>3. PartyOK(o, record[o], accepted[o], sent[o], sent'[p], consumed[o], reopened[o], started')
  <2> HIDE DEF o
  <2> QED BY <1>2, PartyGrows
<1>4. PartyOK(o, record'[o], accepted'[o], sent'[o], sent'[Peer(o)], consumed'[o],
              reopened'[o], started')
  BY <1>1, <1>3
<1>5. PartyOK(p, record'[p], accepted'[p], sent'[p], sent'[Peer(p)], consumed'[p],
              reopened'[p], started')
  OBVIOUS
<1>6. \A q \in Parties :
        PartyOK(q, record'[q], accepted'[q], sent'[q], sent'[Peer(q)], consumed'[q],
                reopened'[q], started')
  BY <1>1, <1>4, <1>5
<1> QED BY <1>6 DEF IInv

ChangedAt(g, f, p, v) == g = [f EXCEPT ![p] = v]

\* A variable that changes for one device only.
LEMMA OnePartyChanges ==
  ASSUME NEW f, ByParty(f), NEW p \in Parties, NEW v, NEW g, ChangedAt(g, f, p, v)
  PROVE  ByParty(g) /\ g[p] = v /\ g[Peer(p)] = f[Peer(p)]
<1>1. DOMAIN f = Parties
  BY DEF ByParty
<1>2. Peer(p) \in Parties /\ Peer(p) # p
  BY Peers
<1>3. g = [q \in Parties |-> IF q = p THEN v ELSE f[q]]
  BY <1>1 DEF ChangedAt
<1> QED BY <1>2, <1>3 DEF ByParty

\* startSession() keeps the invariant.
LEMMA StartStep ==
  ASSUME IInv, NEW p \in Parties, StartSession(p)
  PROVE  IInv'
<1> DEFINE b == <<p, "ephemeral", started[p]>>
           new == [base |-> b, unacked |-> TRUE,
                   ratchet |-> InitiatorSession(Secret(b), b, SignedPreKey(Peer(p)))]
           r == ArchiveCurrent(record[p], new)
           st2 == [started EXCEPT ![p] = @ + 1]
<1>1. /\ started' = st2 /\ record' = [record EXCEPT ![p] = r]
      /\ UNCHANGED <<consumed, ratchets, archives, sent, accepted, reopened>>
  BY DEF StartSession
<1>2. /\ ByParty(record) /\ ByParty(consumed) /\ ByParty(sent) /\ ByParty(accepted)
      /\ ByParty(reopened) /\ ratchets \in [Parties -> Nat] /\ started \in [Parties -> Nat]
  BY DEF IInv
<1>3. /\ Known(started) \subseteq Known(st2) /\ b \in Bases /\ b \in Known(st2)
      /\ b \notin Known(started) /\ st2 \in [Parties -> Nat]
  BY <1>2, KnownGrows
<1>4. Owner(b) = p
  BY DEF Owner
<1>5. /\ IsSession(new) /\ new.base = b
      /\ new.ratchet = InitiatorSession(Secret(b), b, SignedPreKey(Peer(p)))
  BY DEF IsSession
<1>6. /\ PartyOK(p, record[p], accepted[p], sent[p], sent[Peer(p)], consumed[p], reopened[p],
                 started)
      /\ AllKnown(sent[Peer(p)], started)
  BY OfParty DEF Arriving, AllKnown
<1> HIDE DEF b, new, st2
<1>7. PartyOK(p, r, accepted[p], sent[p], sent[Peer(p)], consumed[p], reopened[p], st2)
  BY <1>3, <1>4, <1>5, <1>6, Peers, StartOK
<1> HIDE DEF r
<1>8. ByParty(record') /\ record'[p] = r /\ record'[Peer(p)] = record[Peer(p)]
  <2>1. ByParty(record) /\ ChangedAt(record', record, p, r)
    BY <1>1, <1>2 DEF ChangedAt
  <2> QED BY <2>1, OnePartyChanges
<1> QED BY <1>1, <1>2, <1>3, <1>7, <1>8, StepOfParty

\* archiveSession() keeps the invariant.
LEMMA ArchiveStep ==
  ASSUME IInv, NEW p \in Parties, ArchiveSession(p)
  PROVE  IInv'
<1> DEFINE r == ArchiveCurrent(record[p], NoSession)
<1>1. /\ record' = [record EXCEPT ![p] = r]
      /\ UNCHANGED <<consumed, started, ratchets, sent, accepted, reopened>>
  BY DEF ArchiveSession
<1>2. /\ ByParty(record) /\ ByParty(consumed) /\ ByParty(sent) /\ ByParty(accepted)
      /\ ByParty(reopened) /\ ratchets \in [Parties -> Nat] /\ started \in [Parties -> Nat]
  BY DEF IInv
<1>3. PartyOK(p, record[p], accepted[p], sent[p], sent[Peer(p)], consumed[p], reopened[p],
              started)
  BY OfParty
<1>4. PartyOK(p, r, accepted[p], sent[p], sent[Peer(p)], consumed[p], reopened[p], started)
  BY <1>3, ArchiveOnlyOK
<1> HIDE DEF r
<1>5. ByParty(record') /\ record'[p] = r /\ record'[Peer(p)] = record[Peer(p)]
  <2>1. ByParty(record) /\ ChangedAt(record', record, p, r)
    BY <1>1, <1>2 DEF ChangedAt
  <2> QED BY <2>1, OnePartyChanges
<1> QED BY <1>1, <1>2, <1>4, <1>5, StepOfParty

\* encrypt() keeps the invariant.
LEMMA EncryptStep ==
  ASSUME IInv, NEW p \in Parties, Encrypt(p)
  PROVE  IInv'
<1> DEFINE rec == record[p]
           c == rec.current
           m == [prekey |-> c.unacked, base |-> c.base, body |-> MessageOf(c.ratchet)]
           t == AfterSend(Cleanup(c.ratchet, 0))
           c2 == [c EXCEPT !.ratchet = t]
           r == [rec EXCEPT !.current = c2]
           out2 == sent[p] \cup {m}
<1>1. /\ c # NoSession /\ CanSend(c.ratchet)
      /\ sent' = [sent EXCEPT ![p] = out2]
      /\ UNCHANGED <<consumed, started, ratchets, archives, accepted, reopened>>
  BY DEF Encrypt
<1>2. /\ ByParty(record) /\ ByParty(consumed) /\ ByParty(sent) /\ ByParty(accepted)
      /\ ByParty(reopened) /\ ratchets \in [Parties -> Nat] /\ started \in [Parties -> Nat]
  BY DEF IInv
<1>3. record' = [record EXCEPT ![p] = r]
  <2>1. record' = [record EXCEPT ![p].current.ratchet = AfterSend(Cleanup(@, 0))]
    BY DEF Encrypt
  <2> QED BY <2>1
<1>4. PartyOK(p, rec, accepted[p], sent[p], sent[Peer(p)], consumed[p], reopened[p], started)
  BY OfParty
<1>5. DOMAIN rec = {"current", "archived"} /\ IsSession(c)
  BY <1>1, <1>4, CurrentIs DEF PartyOK, RecordOK
<1> HIDE DEF rec
<1>6. r.current = c2 /\ r.archived = rec.archived /\ DOMAIN r = {"current", "archived"}
  BY <1>5
<1> HIDE DEF t
<1>7. IsSession(c2) /\ c2.base = c.base /\ c2.unacked = c.unacked /\ c2.ratchet = t
  <2> HIDE DEF c
  <2> QED BY <1>5 DEF IsSession
<1>8. m.prekey = c.unacked /\ m.base = c.base /\ m.body = MessageOf(c.ratchet)
  OBVIOUS
<1> HIDE DEF c2, r, m
<1>9. PartyOK(p, r, accepted[p], out2, sent[Peer(p)], consumed[p], reopened[p], started)
  BY <1>1, <1>4, <1>6, <1>7, <1>8, EncryptOK DEF t
<1> HIDE DEF out2
<1>10. ByParty(record') /\ record'[p] = r /\ record'[Peer(p)] = record[Peer(p)]
  <2>1. ByParty(record) /\ ChangedAt(record', record, p, r)
    BY <1>3, <1>2 DEF ChangedAt
  <2> QED BY <2>1, OnePartyChanges
<1>11. ByParty(sent') /\ sent'[p] = out2 /\ sent'[Peer(p)] = sent[Peer(p)]
  <2>1. ByParty(sent) /\ ChangedAt(sent', sent, p, out2)
    BY <1>1, <1>2 DEF ChangedAt
  <2> QED BY <2>1, OnePartyChanges
<1>12. sent[p] \subseteq out2
  BY DEF out2
<1> QED BY <1>1, <1>2, <1>9, <1>10, <1>11, <1>12, StepOfParty

\* decrypt() keeps the invariant, whichever session opens the message.
LEMMA DecryptStep ==
  ASSUME IInv, NEW p \in Parties, NEW m \in sent[Peer(p)], Decrypt(p, m)
  PROVE  IInv'
<1> DEFINE rec == record[p]
           o == DecryptOutcome(p, m)
           r == o.record
           inn == sent[Peer(p)]
           acc2 == accepted[p] \cup {m}
           con2 == IF m.prekey /\ MatchingSessions(rec, m.base) = {}
                     THEN consumed[p] \cup {m.base} ELSE consumed[p]
           reo2 == reopened[p] \cup CopiesLeft(r)
<1>1. /\ o.result = "ok"
      /\ record' = [record EXCEPT ![p] = r]
      /\ consumed' = [consumed EXCEPT ![p] = con2]
      /\ accepted' = [accepted EXCEPT ![p] = acc2]
      /\ reopened' = [reopened EXCEPT ![p] = reo2]
      /\ UNCHANGED <<started, archives, sent>>
  BY DEF Decrypt
<1>2. /\ ByParty(record) /\ ByParty(consumed) /\ ByParty(sent) /\ ByParty(accepted)
      /\ ByParty(reopened) /\ ratchets \in [Parties -> Nat] /\ started \in [Parties -> Nat]
  BY DEF IInv
<1>3. ratchets' \in [Parties -> Nat]
  BY <1>2 DEF Decrypt
<1>4. /\ PartyOK(p, rec, accepted[p], sent[p], inn, consumed[p], reopened[p], started)
      /\ Arriving(p, inn, started)
      /\ ratchets[p] \in Nat
  BY OfParty
<1>5. IsSeq(rec.archived)
  BY <1>4 DEF PartyOK, RecordOK, ArchiveOK
<1>6. \/ WithCurrent(p, rec, m, r)
      \/ \E c : WithArchived(p, rec, c, m, r)
      \/ WithNew(p, rec, m, r, consumed[p])
  BY <1>1, <1>5, OutcomeCases
<1>7. consumed[p] \subseteq con2 /\ reopened[p] \subseteq reo2 /\ CopiesLeft(r) \subseteq reo2
  OBVIOUS
<1>8. WithNew(p, rec, m, r, consumed[p]) => m.base \in con2
  <2>1. ASSUME WithNew(p, rec, m, r, consumed[p]) PROVE MatchingSessions(rec, m.base) = {} /\ m.prekey
    <3>1. \A i \in DOMAIN Candidates(rec) :
            IF rec.current = NoSession \/ i > 1
              THEN Candidates(rec)[i] \in Range(rec.archived)
              ELSE Candidates(rec)[i] = rec.current
      BY <1>5, CandidatesAre
    <3>2. \A i \in DOMAIN Candidates(rec) : Candidates(rec)[i] \in SessionsIn(rec)
      BY <3>1 DEF SessionsIn
    <3> QED BY <2>1, <3>2 DEF WithNew, MatchingSessions
  <2> QED BY <2>1
<1> HIDE DEF con2, reo2, r, o, inn, rec
<1>9. PartyOK(p, r, acc2, sent[p], inn, con2, reo2, started)
  <2>1. m \in inn
    BY DEF inn
  <2>2. CASE WithCurrent(p, rec, m, r)
    BY <1>4, <1>7, <2>1, <2>2, CurrentOpens
  <2>3. ASSUME NEW c, WithArchived(p, rec, c, m, r)
        PROVE  PartyOK(p, r, acc2, sent[p], inn, con2, reo2, started)
    BY <1>4, <1>7, <2>1, <2>3, ArchivedOpens
  <2>4. CASE WithNew(p, rec, m, r, consumed[p])
    BY <1>4, <1>7, <1>8, <2>1, <2>4, NewOpens
  <2> QED BY <1>6, <2>2, <2>3, <2>4
<1> HIDE DEF acc2
<1>10. ByParty(record') /\ record'[p] = r /\ record'[Peer(p)] = record[Peer(p)]
  <2>1. ByParty(record) /\ ChangedAt(record', record, p, r)
    BY <1>1, <1>2 DEF ChangedAt
  <2> QED BY <2>1, OnePartyChanges
<1>11. ByParty(consumed') /\ consumed'[p] = con2 /\ consumed'[Peer(p)] = consumed[Peer(p)]
  <2>1. ByParty(consumed) /\ ChangedAt(consumed', consumed, p, con2)
    BY <1>1, <1>2 DEF ChangedAt
  <2> QED BY <2>1, OnePartyChanges
<1>12. ByParty(accepted') /\ accepted'[p] = acc2 /\ accepted'[Peer(p)] = accepted[Peer(p)]
  <2>1. ByParty(accepted) /\ ChangedAt(accepted', accepted, p, acc2)
    BY <1>1, <1>2 DEF ChangedAt
  <2> QED BY <2>1, OnePartyChanges
<1>13. ByParty(reopened') /\ reopened'[p] = reo2 /\ reopened'[Peer(p)] = reopened[Peer(p)]
  <2>1. ByParty(reopened) /\ ChangedAt(reopened', reopened, p, reo2)
    BY <1>1, <1>2 DEF ChangedAt
  <2> QED BY <2>1, OnePartyChanges
<1> QED BY <1>1, <1>2, <1>3, <1>9, <1>10, <1>11, <1>12, <1>13, StepOfParty DEF inn

\* Every step keeps the invariant.
LEMMA NextOK == IInv /\ [Next]_vars => IInv'
<1> SUFFICES ASSUME IInv, [Next]_vars PROVE IInv'
  OBVIOUS
<1>1. ASSUME NEW p \in Parties, StartSession(p) PROVE IInv'
  BY <1>1, StartStep
<1>2. ASSUME NEW p \in Parties, Encrypt(p) PROVE IInv'
  BY <1>2, EncryptStep
<1>3. ASSUME NEW p \in Parties, NEW m \in sent[Peer(p)], Decrypt(p, m) PROVE IInv'
  BY <1>3, DecryptStep
<1>4. ASSUME NEW p \in Parties, ArchiveSession(p) PROVE IInv'
  BY <1>4, ArchiveStep
<1>5. CASE UNCHANGED vars
  BY <1>5 DEF vars, IInv
<1>6. ASSUME NEW p \in Parties, NEW m \in sent[Peer(p)], DecryptFails(p, m) PROVE IInv'
  BY <1>5, <1>6 DEF DecryptFails
<1> QED BY <1>1, <1>2, <1>3, <1>4, <1>5, <1>6 DEF Next

-----------------------------------------------------------------------------
(* The theorems.                                                           *)

\* Every session of a record is built on the secret of its base key, is up to date
\* unless a skipped key reopened it, and is the only one of its base key with the
\* same exception; the prekeys behind every session from the peer are used up.
THEOREM Invariance == Spec => []IInv
<1>1. Init => IInv
  BY InitOK
<1>2. IInv /\ [Next]_vars => IInv'
  BY NextOK
<1> QED BY <1>1, <1>2, PTL DEF Spec

\* archiveCurrent() and promoteSession() keep the archive within its limit, with
\* one session for each base key and no pending prekey.
THEOREM TypeCorrect == Spec => []TypeOK
<1>1. ASSUME IInv PROVE TypeOK
  <2> SUFFICES ASSUME NEW p \in Parties
               PROVE  /\ Len(record[p].archived) <= MaxArchived
                      /\ \A i, j \in DOMAIN record[p].archived :
                           record[p].archived[i].base = record[p].archived[j].base => i = j
                      /\ \A i \in DOMAIN record[p].archived : ~record[p].archived[i].unacked
    BY DEF TypeOK
  <2>1. ArchiveOK(record[p].archived) /\ Len(record[p].archived) <= MaxArchived
    BY <1>1, OfParty DEF PartyOK, RecordOK
  <2>2. \A i \in DOMAIN record[p].archived : record[p].archived[i] \in Range(record[p].archived)
    BY DEF Range
  <2> QED BY <2>1, <2>2 DEF ArchiveOK, Distinct
<1> QED BY <1>1, Invariance, PTL

\* decrypt() returns no message twice, through any number of sessions that were
\* started, archived, promoted or dropped in between, unless a skipped key took the
\* session of the message out of the archive.
THEOREM OpensAtMostOnce == Spec => []OpensOnce
<1>1. ASSUME IInv PROVE OpensOnce
  <2> SUFFICES ASSUME NEW p \in Parties, NEW m \in accepted[p], m.base \notin reopened[p],
                      DecryptOutcome(p, m).result = "ok"
               PROVE  FALSE
    BY DEF OpensOnce
  <2> DEFINE rec == record[p]
             r == DecryptOutcome(p, m).record
             inn == sent[Peer(p)]
  <2>1. /\ PartyOK(p, rec, accepted[p], sent[p], inn, consumed[p], reopened[p], started)
        /\ Arriving(p, inn, started)
        /\ ratchets[p] \in Nat
    BY <1>1, OfParty
  <2>2. IsSeq(rec.archived) /\ m \in inn
    BY <2>1 DEF PartyOK, RecordOK, ArchiveOK
  <2>3. \/ WithCurrent(p, rec, m, r)
        \/ \E c : WithArchived(p, rec, c, m, r)
        \/ WithNew(p, rec, m, r, consumed[p])
    BY <2>2, OutcomeCases
  <2> HIDE DEF rec, r, inn
  <2>4. ASSUME NEW c \in SessionsIn(rec), Opens(p, c, m) PROVE FALSE
    <3>1. /\ AttemptResult(p, TrySession(p, c, m).session, c, m, accepted[p], sent[p],
                           consumed[p], started)
          /\ m.base \notin reopened[p] => UpToDate(c, accepted[p], sent[p])
      BY <2>1, <2>2, <2>4, HeldAttempt
    <3> QED BY <3>1 DEF AttemptResult
  <2>5. ~WithCurrent(p, rec, m, r)
    BY <2>4 DEF WithCurrent, SessionsIn
  <2>6. ~ \E c : WithArchived(p, rec, c, m, r)
    BY <2>4 DEF WithArchived, SessionsIn
  <2>7. ~WithNew(p, rec, m, r, consumed[p])
    BY <2>1, <2>2 DEF WithNew, Arriving, PartyOK
  <2> QED BY <2>3, <2>5, <2>6, <2>7
<1> QED BY <1>1, Invariance, PTL

\* encrypt() uses no message key twice, whichever session is current, with the same
\* exception.
THEOREM SendKeysAreFresh == Spec => []SendKeyFresh
<1>1. ASSUME IInv PROVE SendKeyFresh
  <2> SUFFICES ASSUME NEW p \in Parties, NEW m \in sent[p],
                      record[p].current # NoSession,
                      record[p].current.base \notin reopened[p],
                      m.body.chain = record[p].current.ratchet.CKs,
                      m.body.counter = record[p].current.ratchet.Ns
               PROVE  FALSE
    BY DEF SendKeyFresh
  <2> DEFINE c == record[p].current
             b == c.base
  <2>1. PartyOK(p, record[p], accepted[p], sent[p], sent[Peer(p)], consumed[p], reopened[p],
                started)
    BY <1>1, OfParty
  <2>2. c \in SessionsIn(record[p])
    BY DEF SessionsIn
  <2>3. SessionOK(p, c, consumed[p], started) /\ UpToDate(c, accepted[p], sent[p])
    BY <2>1, <2>2 DEF PartyOK, RecordOK
  <2>4. c.ratchet.CKs = c.ratchet.RK /\ c.ratchet.RK \in Chain(b) /\ c.ratchet.Ns \in Nat
    BY <2>3 DEF SessionOK, Established, Sends, WellFormed
  <2>5. m.body.chain \in Chain(m.base)
    BY <2>1 DEF PartyOK, MessageOK
  <2>6. m.base = b
    BY <2>4, <2>5, ChainNamesBase
  <2>7. m.body \in BodiesOf(sent[p], b)
    BY <2>6 DEF BodiesOf
  <2>8. m.body.counter < c.ratchet.Ns
    BY <2>3, <2>4, <2>7 DEF UpToDate, SentBehind
  <2> QED BY <2>4, <2>8
<1> QED BY <1>1, Invariance, PTL

(* The type invariant: the counters of a session and of everything stored  *)
(* in it respect MAX_MESSAGE_COUNTER.                                      *)

Bounded(s) ==
  /\ s.DHr \in KeyPairs \cup {NoKey}
  /\ s.Ns <= MaxCounter /\ s.Nr <= MaxCounter /\ s.PN <= MaxCounter
  /\ \A k \in s.keys : k.rk \in KeyPairs /\ k.index < MaxCounter

BoundedMessage(m) == m.counter < MaxCounter /\ m.previousCounter <= MaxCounter


\* storeSkippedKeys() and deriveReceivingKey() pass no counter limit.
LEMMA ChainBounded ==
  ASSUME NEW b \in Bases, NEW s, NEW m \in Bodies, NEW t, WellFormed(s, b), Bounded(s),
         s.DHr \in KeyPairs,
         ReceiveInChain(s, m, t).result = "ok"
  PROVE  Bounded(ReceiveInChain(s, m, t).session)
<1> USE RatchetAssumption
<1> DEFINE u == StoreKeys(s, m.counter, t)
           r == [u EXCEPT !.Nr = m.counter + 1]
<1>0. m.counter \in Nat /\ s.Nr \in Nat
  BY DEF Bodies, WellFormed
<1>1. ReceiveInChain(s, m, t).session = r /\ m.counter < MaxCounter
  BY <1>0 DEF ReceiveInChain, Refused, Accepted
<1>2. /\ SameRatchet(u, s)
      /\ \A k \in u.keys :
           \/ k \in s.keys
           \/ k.rk = s.DHr /\ k.chain = s.CKr /\ k.index \in s.Nr .. m.counter - 1
  BY <1>0, StoreKeysAdds
<1>3. /\ r.keys = u.keys /\ r.Nr = m.counter + 1
      /\ r.DHr = s.DHr /\ r.Ns = s.Ns /\ r.PN = s.PN
  BY <1>2 DEF SameRatchet, Fields
<1> HIDE DEF u, r
<1>4. \A k \in r.keys : k.rk \in KeyPairs /\ k.index < MaxCounter
  BY <1>0, <1>1, <1>2, <1>3 DEF Bounded
<1>5. Bounded(r)
  BY <1>0, <1>1, <1>3, <1>4 DEF Bounded
<1> QED BY <1>1, <1>5

\* performDHRatchetStep() passes no counter limit: PN takes over Ns.
LEMMA RatchetBounded ==
  ASSUME NEW b \in Bases, NEW s, NEW m \in Bodies, NEW t, NEW fresh \in KeyPairs,
         WellFormed(s, b), Bounded(s), BoundedMessage(m)
  PROVE  LET d == DHRatchet(CloseChain(s, m, t), m.rk, fresh) IN
         Bounded(d) /\ d.DHr \in KeyPairs
<1> USE RatchetAssumption
<1> DEFINE c == CloseChain(s, m, t)
           d == DHRatchet(c, m.rk, fresh)
<1>0. m.previousCounter \in Nat /\ s.Nr \in Nat /\ m.rk \in KeyPairs
  BY DEF Bodies, WellFormed
<1>1. SameRatchet(c, s)
  BY CloseChainAdds
<1>2. \A k \in c.keys : k.rk \in KeyPairs /\ k.index < MaxCounter
  <2>1. CASE s.DHr = NoKey \/ m.previousCounter = 0 \/ s.CKr = NoKey
    BY <2>1 DEF CloseChain, Bounded
  <2>2. CASE ~(s.DHr = NoKey \/ m.previousCounter = 0 \/ s.CKr = NoKey)
    <3> DEFINE u == StoreKeys(s, m.previousCounter, t)
    <3>1. /\ SameRatchet(u, s)
          /\ \A k \in u.keys :
               \/ k \in s.keys
               \/ k.rk = s.DHr /\ k.chain = s.CKr /\ k.index \in s.Nr .. m.previousCounter - 1
      BY <1>0, StoreKeysAdds
    <3>2. c.keys = u.keys
      BY <2>2, <3>1 DEF CloseChain, SameRatchet, Fields
    <3> HIDE DEF u, c
    <3> QED BY <1>0, <2>2, <3>1, <3>2 DEF Bounded, BoundedMessage
  <2> QED BY <2>1, <2>2
<1> HIDE DEF c
<1>3. /\ d.keys = c.keys /\ d.PN = s.Ns /\ d.Ns = 0 /\ d.Nr = 0 /\ d.DHr = m.rk
  BY <1>1 DEF DHRatchet, SameRatchet, Fields
<1> HIDE DEF d
<1>4. Bounded(d) /\ d.DHr \in KeyPairs
  BY <1>0, <1>2, <1>3 DEF Bounded
<1> QED BY <1>4 DEF d, c

\* An attempt of decrypt() passes no counter limit.
LEMMA ReceiveBounded ==
  ASSUME NEW b \in Bases, NEW s, NEW m \in Bodies, NEW t, NEW fresh \in KeyPairs,
         WellFormed(s, b), Bounded(s), BoundedMessage(m),
         Receive(s, m, fresh, t).result = "ok"
  PROVE  Bounded(Receive(s, m, fresh, t).session)
<1> DEFINE c == Cleanup(s, t)
<1>1. SameRatchet(c, s) /\ c.keys \subseteq s.keys
  BY CleanupRemoves
<1>2. WellFormed(c, b)
  <2>1. Erased(s, {})
    BY DEF Erased
  <2> QED BY <1>1, <2>1, LosingKeys
<1>3. Bounded(c)
  BY <1>1 DEF Bounded, SameRatchet
<1> HIDE DEF c
<1>4. CASE SkippedKeys(c, m.rk, m.counter) # {}
  <2> DEFINE r == ConsumeSkipped(c, m.rk, m.counter)
  <2>1. Receive(s, m, fresh, t).session = r
    BY <1>4 DEF Receive, c, ReceiveSkipped, Accepted, Refused
  <2>2. r.keys \subseteq c.keys /\ SameRatchet(r, c)
    BY <1>2 DEF ConsumeSkipped, WellFormed, SameRatchet, Fields
  <2> HIDE DEF r
  <2> QED BY <1>3, <2>1, <2>2 DEF Bounded, SameRatchet
<1>5. CASE SkippedKeys(c, m.rk, m.counter) = {} /\ c.DHr # NoKey /\ c.DHr = m.rk
  <2>1. Receive(s, m, fresh, t) = ReceiveInChain(c, m, t)
    BY <1>5 DEF Receive, c
  <2>2. ReceiveInChain(c, m, t).result = "ok" /\ c.DHr \in KeyPairs
    BY <1>5, <2>1 DEF Bodies
  <2> QED BY <1>2, <1>3, <2>1, <2>2, ChainBounded
<1>6. CASE /\ SkippedKeys(c, m.rk, m.counter) = {}
           /\ c.DHr = NoKey \/ (c.DHr # m.rk /\ ~ProcessedChain(c, m.rk))
  <2> DEFINE d == DHRatchet(CloseChain(c, m, t), m.rk, fresh)
  <2>1. Receive(s, m, fresh, t) = ReceiveInChain(d, m, t)
    BY <1>6 DEF Receive, c, ReceiveWithRatchet, Refused
  <2>2. Bounded(d) /\ d.DHr \in KeyPairs
    BY <1>2, <1>3, RatchetBounded
  <2>3. WellFormed(d, b)
    <3>1. Erased(c, {}) /\ {} \in SUBSET Bodies
      BY DEF Erased
    <3> QED BY <1>2, <3>1, RatchetIsFresh
  <2> HIDE DEF d
  <2>4. ReceiveInChain(d, m, t).result = "ok"
    BY <2>1
  <2> QED BY <2>1, <2>2, <2>3, <2>4, ChainBounded
<1>7. CASE /\ SkippedKeys(c, m.rk, m.counter) = {}
           /\ c.DHr # NoKey /\ c.DHr # m.rk /\ ProcessedChain(c, m.rk)
  BY <1>7 DEF Receive, c, Refused
<1> QED BY <1>4, <1>5, <1>6, <1>7


\* What was sent is on the present root, or on an earlier and shorter one.
SentOlder(s, out) == \A m \in out : m.chain = s.RK \/ Len(m.chain) < Len(s.RK)

(* chains before it; so a full array has a first chain, and shifting that  *)
(* one out makes room.  The keys of a chain are told apart by their index, *)
(* so at most as many as the limit have fewer than that many above them.   *)

\* The chains of an array are numbered without gaps.
Numbered(c) ==
  /\ IsFiniteSet(DOMAIN c)
  /\ OneToOne(DOMAIN c, c)
  /\ {c[rk] : rk \in DOMAIN c} = 0 .. (Cardinality(DOMAIN c) - 1)

\* A chain has at most one key of an index.
DistinctKeys(ks) ==
  /\ IsFiniteSet(ks)
  /\ \A k \in ks : k.index \in Nat
  /\ \A k, j \in ks : k.rk = j.rk /\ k.index = j.index => k = j

WithinLimits(s) ==
  /\ Numbered(s.chains)
  /\ Cardinality(DOMAIN s.chains) <= MaxReceiverChains
  /\ DistinctKeys(s.keys)
  /\ \A k \in s.keys : k.rk \in DOMAIN s.chains
  /\ \A rk \in DOMAIN s.chains : Cardinality(Stored(s, rk)) <= MaxMessageKeys

\* Dropping chains from the array leaves no gap.
LEMMA ChainsInNumbered ==
  ASSUME NEW c, Numbered(c), NEW rks, rks \subseteq DOMAIN c
  PROVE  /\ Numbered(ChainsIn(c, rks))
         /\ DOMAIN ChainsIn(c, rks) = rks
         /\ IsFiniteSet(rks) /\ Cardinality(rks) <= Cardinality(DOMAIN c)
<1> DEFINE v == [q \in rks |-> c[q]]
           d == ChainsIn(c, rks)
<1>1. IsFiniteSet(rks) /\ Cardinality(rks) <= Cardinality(DOMAIN c)
  BY FS_Subset DEF Numbered
<1>2. OneToOne(rks, v)
  BY DEF Numbered, OneToOne
<1>3. DOMAIN d = rks /\ d = [rk \in rks |-> d[rk]]
  BY DEF ChainsIn
<1>4. \A rk \in rks : d[rk] = Rank(rks, v, rk)
  <2> TAKE rk \in rks
  <2>1. {q \in rks : c[q] < c[rk]} = Lower(rks, v, rk)
    BY DEF Lower
  <2> QED BY <2>1 DEF ChainsIn, Rank
<1> HIDE DEF v, d
<1>5. \A rk \in rks : d[rk] \in Int
  BY <1>1, <1>2, <1>4, RankBounds
<1>6. \A x, y \in rks : d[x] = d[y] => x = y
  BY <1>1, <1>2, <1>4, RankInjective
<1>7. OneToOne(DOMAIN d, d)
  BY <1>3, <1>5, <1>6 DEF OneToOne
<1>8. {d[rk] : rk \in rks} = {Rank(rks, v, rk) : rk \in rks}
  BY <1>4
<1>9. {d[rk] : rk \in DOMAIN d} = 0 .. (Cardinality(DOMAIN d) - 1)
  <2>1. {Rank(rks, v, rk) : rk \in rks} = 0 .. (Cardinality(rks) - 1)
    BY <1>1, <1>2, RankOnto, Zenon
  <2> QED BY <1>3, <1>8, <2>1, Zenon
<1> QED BY <1>1, <1>3, <1>7, <1>9 DEF Numbered, d

\* A chain pushed at the end has the next number.
LEMMA PushChainNumbered ==
  ASSUME NEW c, Numbered(c), NEW rk, rk \notin DOMAIN c
  PROVE  /\ Numbered(PushChain(c, rk))
         /\ DOMAIN PushChain(c, rk) = DOMAIN c \cup {rk}
         /\ Cardinality(DOMAIN c \cup {rk}) = Cardinality(DOMAIN c) + 1
<1> DEFINE D == DOMAIN c
           n == Cardinality(D)
           d == PushChain(c, rk)
<1>1. n \in Nat /\ IsFiniteSet(D) /\ IsFiniteSet(D \cup {rk})
      /\ Cardinality(D \cup {rk}) = n + 1
  BY FS_CardinalityType, FS_AddElement DEF Numbered
<1>2. DOMAIN d = D \cup {rk} /\ d = [q \in D \cup {rk} |-> d[q]]
  BY DEF PushChain
<1>3. d[rk] = n /\ \A q \in D : d[q] = c[q]
  BY DEF PushChain
<1>4. {c[q] : q \in D} = 0 .. (n - 1) /\ OneToOne(D, c)
  BY DEF Numbered
<1> HIDE DEF D, n, d
<1>5. \A q \in D : c[q] \in 0 .. (n - 1)
  BY <1>4
<1>6. OneToOne(DOMAIN d, d)
  <2>1. \A q \in D \cup {rk} : d[q] \in Int
    BY <1>1, <1>3, <1>5
  <2>2. \A x, y \in D \cup {rk} : d[x] = d[y] => x = y
    BY <1>1, <1>3, <1>4, <1>5 DEF OneToOne
  <2> QED BY <1>2, <2>1, <2>2 DEF OneToOne
<1>7. {d[q] : q \in DOMAIN d} = 0 .. n
  <2>1. \A q \in DOMAIN d : d[q] \in 0 .. n
    BY <1>1, <1>2, <1>3, <1>5
  <2>2. ASSUME NEW i \in 0 .. n PROVE \E q \in DOMAIN d : d[q] = i
    <3>1. CASE i = n
      BY <1>2, <1>3, <3>1
    <3>2. CASE i # n
      <4>0. i \in 0 .. (n - 1)
        BY <1>1, <3>2
      <4>1. i \in {c[q] : q \in D}
        BY <1>4, <4>0, Zenon
      <4>2. PICK q \in D : c[q] = i
        BY <4>1
      <4> QED BY <1>2, <1>3, <4>2
    <3> QED BY <3>1, <3>2
  <2> QED BY <2>1, <2>2
<1>8. 0 .. n = 0 .. (Cardinality(DOMAIN d) - 1)
  BY <1>1, <1>2
<1>9. Numbered(d)
  BY <1>1, <1>2, <1>6, <1>7, <1>8 DEF Numbered
<1> QED BY <1>1, <1>2, <1>9 DEF D, d, n

\* Removing keys keeps the limits of every chain.
LEMMA FewerKeys ==
  ASSUME NEW s, WithinLimits(s), NEW ks, ks \subseteq s.keys
  PROVE  /\ DistinctKeys(ks)
         /\ \A rk \in DOMAIN s.chains : Cardinality({k \in ks : k.rk = rk}) <= MaxMessageKeys
<1>1. DistinctKeys(ks)
  BY FS_Subset DEF WithinLimits, DistinctKeys
<1>2. ASSUME NEW rk \in DOMAIN s.chains
      PROVE  Cardinality({k \in ks : k.rk = rk}) <= MaxMessageKeys
  <2> DEFINE A == {k \in ks : k.rk = rk}
             B == Stored(s, rk)
  <2>1. A \subseteq B /\ B \subseteq s.keys /\ IsFiniteSet(s.keys) /\ Cardinality(B) <= MaxMessageKeys
    BY DEF Stored, WithinLimits, DistinctKeys
  <2> HIDE DEF A, B
  <2>2. IsFiniteSet(B)
    BY <2>1, FS_Subset
  <2>3. IsFiniteSet(A) /\ Cardinality(A) <= Cardinality(B)
    BY <2>1, <2>2, FS_Subset
  <2>4. Cardinality(A) \in Nat /\ Cardinality(B) \in Nat
    BY <2>2, <2>3, FS_CardinalityType
  <2>5. Cardinality(A) <= MaxMessageKeys
    BY <2>1, <2>3, <2>4, RatchetAssumption
  <2> QED BY <2>5 DEF A
<1> QED BY <1>1, <1>2

\* cleanupExpiredKeys() keeps the limits.
LEMMA CleanupLimits ==
  ASSUME NEW b \in Bases, NEW s, NEW t, WellFormed(s, b), WithinLimits(s)
  PROVE  WithinLimits(Cleanup(s, t))
<1>1. CASE s.DHr = NoKey
  BY <1>1 DEF Cleanup
<1>2. CASE s.DHr # NoKey
  <2> DEFINE live == {k \in s.keys : t - k.at <= MaxKeyAge}
             rks == {rk \in DOMAIN s.chains : \E k \in live : k.rk = rk}
             r == Cleanup(s, t)
  <2>1. r.keys = live /\ r.chains = ChainsIn(s.chains, rks)
    BY <1>2 DEF Cleanup, WellFormed, Fields
  <2>2. live \subseteq s.keys /\ rks \subseteq DOMAIN s.chains
    OBVIOUS
  <2>3. \A k \in live : k.rk \in rks
    BY DEF WithinLimits
  <2> HIDE DEF live, rks, r
  <2>4. /\ Numbered(r.chains) /\ DOMAIN r.chains = rks
        /\ IsFiniteSet(rks) /\ Cardinality(rks) <= Cardinality(DOMAIN s.chains)
    BY <2>1, <2>2, ChainsInNumbered DEF WithinLimits
  <2>5. Cardinality(rks) <= MaxReceiverChains
    <3>1. Cardinality(rks) \in Nat /\ Cardinality(DOMAIN s.chains) \in Nat
          /\ Cardinality(DOMAIN s.chains) <= MaxReceiverChains
      BY <2>4, FS_CardinalityType DEF WithinLimits, Numbered
    <3> QED BY <2>4, <3>1, RatchetAssumption
  <2>6. /\ DistinctKeys(r.keys)
        /\ \A rk \in DOMAIN s.chains : Cardinality({k \in live : k.rk = rk}) <= MaxMessageKeys
    <3>1. live \subseteq s.keys /\ WithinLimits(s)
      BY <2>2
    <3>2. /\ DistinctKeys(live)
          /\ \A rk \in DOMAIN s.chains : Cardinality({k \in live : k.rk = rk}) <= MaxMessageKeys
      BY <3>1, FewerKeys
    <3> QED BY <2>1, <3>2
  <2>7. \A rk \in rks : Cardinality(Stored(r, rk)) <= MaxMessageKeys
    BY <2>1, <2>2, <2>6 DEF Stored
  <2>8. WithinLimits(r)
    BY <2>1, <2>3, <2>4, <2>5, <2>6, <2>7 DEF WithinLimits
  <2> QED BY <2>8 DEF r
<1> QED BY <1>1, <1>2

\* getOrCreateReceiverChain() makes room in a full array, by the first chain.
LEMMA ReceiverChainLimits ==
  ASSUME NEW b \in Bases, NEW s, NEW rk, WellFormed(s, b), WithinLimits(s)
  PROVE  WithinLimits(ReceiverChain(s, rk)) /\ rk \in DOMAIN ReceiverChain(s, rk).chains
<1>1. CASE rk \in DOMAIN s.chains
  BY <1>1 DEF ReceiverChain
<1>2. CASE rk \notin DOMAIN s.chains
  <2> DEFINE c == s.chains
             old == DOMAIN c
             n == Cardinality(old)
             kept == IF n >= MaxReceiverChains THEN {q \in old : c[q] # 0} ELSE old
             r == ReceiverChain(s, rk)
             d == ChainsIn(c, kept)
             ks == {k \in s.keys : k.rk \notin old \ kept}
  <2>1. r.chains = PushChain(d, rk) /\ r.keys = ks
    BY <1>2 DEF ReceiverChain, AddChain, WellFormed, Fields
  <2>2. /\ Numbered(c) /\ IsFiniteSet(old) /\ n \in Nat /\ n <= MaxReceiverChains
        /\ {c[q] : q \in old} = 0 .. (n - 1)
    BY FS_CardinalityType DEF WithinLimits, Numbered
  <2>3. kept \subseteq old /\ rk \notin kept /\ ks \subseteq s.keys
    BY <1>2
  <2>4. /\ Numbered(d) /\ DOMAIN d = kept /\ IsFiniteSet(kept)
        /\ Cardinality(kept) <= n
    <3> HIDE DEF d, kept
    <3> QED BY <2>2, <2>3, ChainsInNumbered DEF d
  <2>5. Cardinality(kept) \in Nat
    BY <2>4, FS_CardinalityType
  <2>6. Cardinality(kept) + 1 <= MaxReceiverChains
    <3>1. CASE n >= MaxReceiverChains
      <4> HIDE DEF n
      <4>1. 0 \in 0 .. (n - 1)
        BY <2>2, <3>1, RatchetAssumption
      <4>2. PICK q \in old : c[q] = 0
        BY <2>2, <4>1, Zenon
      <4>3. q \notin kept
        BY <3>1, <4>2
      <4>4. Cardinality(kept) # n
        BY <2>2, <2>3, <4>2, <4>3, FS_Subset DEF n
      <4> HIDE DEF kept
      <4> QED BY <2>2, <2>4, <2>5, <4>4, RatchetAssumption
    <3>2. CASE ~(n >= MaxReceiverChains)
      <4> HIDE DEF n, kept
      <4> QED BY <2>2, <2>4, <2>5, <3>2, RatchetAssumption
    <3> QED BY <3>1, <3>2
  <2>7. \A k \in ks : k.rk \in kept
    BY DEF WithinLimits
  <2> HIDE DEF kept, d, ks, n, r
  <2>8. /\ Numbered(r.chains) /\ DOMAIN r.chains = kept \cup {rk}
        /\ Cardinality(kept \cup {rk}) = Cardinality(kept) + 1
    BY <2>1, <2>3, <2>4, PushChainNumbered
  <2>9. DistinctKeys(ks) /\ \A q \in old : Cardinality({k \in ks : k.rk = q}) <= MaxMessageKeys
    BY <2>3, FewerKeys
  <2>10. {k \in ks : k.rk = rk} = {}
    BY <2>3, <2>7
  <2>11. \A q \in kept \cup {rk} : Cardinality(Stored(r, q)) <= MaxMessageKeys
    <3> TAKE q \in kept \cup {rk}
    <3>1. CASE q \in kept
      BY <2>1, <2>3, <2>9, <3>1 DEF Stored
    <3>2. CASE q = rk
      <4>1. Stored(r, q) = {}
        BY <2>1, <2>10, <3>2 DEF Stored
      <4> QED BY <4>1, FS_EmptySet, RatchetAssumption
    <3> QED BY <3>1, <3>2
  <2>12. WithinLimits(r)
    BY <2>1, <2>6, <2>7, <2>8, <2>9, <2>11 DEF WithinLimits
  <2> QED BY <2>8, <2>12 DEF r
<1> QED BY <1>1, <1>2

\* evictLowestIndex() leaves no more keys of a chain than the limit.
LEMMA KeepHighestLimits ==
  ASSUME NEW ks, DistinctKeys(ks), NEW rk, \A k \in ks : k.rk = rk
  PROVE  Cardinality(KeepHighest(ks)) <= MaxMessageKeys
<1> DEFINE v == [k \in ks |-> 0 - k.index]
<1>1. OneToOne(ks, v)
  <2>1. \A k \in ks : v[k] \in Int
    BY DEF DistinctKeys
  <2>2. \A k, j \in ks : v[k] = v[j] => k = j
    BY DEF DistinctKeys
  <2> HIDE DEF v
  <2>3. v = [k \in ks |-> v[k]]
    BY DEF v
  <2> QED BY <2>1, <2>2, <2>3 DEF OneToOne
<1>2. \A k \in ks : {j \in ks : j.index > k.index} = Lower(ks, v, k)
  BY DEF Lower, DistinctKeys
<1> HIDE DEF v
<1>3. KeepHighest(ks) = {k \in ks : Rank(ks, v, k) < MaxMessageKeys}
  BY <1>2 DEF KeepHighest, Rank
<1>4. IsFiniteSet(ks) /\ MaxMessageKeys \in Nat
  BY RatchetAssumption DEF DistinctKeys
<1> QED BY <1>1, <1>3, <1>4, RankedBelow

\* The loop over storeMessageKeyInChain() keeps the limits.
LEMMA StoreKeysLimits ==
  ASSUME NEW b \in Bases, NEW s, NEW until \in Nat, NEW t, WellFormed(s, b), WithinLimits(s)
  PROVE  WithinLimits(StoreKeys(s, until, t))
<1>1. CASE until <= s.Nr
  BY <1>1 DEF StoreKeys
<1>2. CASE ~(until <= s.Nr)
  <2> DEFINE c == ReceiverChain(s, s.DHr)
             I == {j \in s.Nr .. until - 1 : SkippedKeys(c, s.DHr, j) = {}}
             new == {[rk |-> s.DHr, index |-> i, chain |-> s.CKr, at |-> t] : i \in I}
             own == Stored(c, s.DHr)
             kept == KeepHighest(own \cup new)
             r == StoreKeys(s, until, t)
  <2>1. SameRatchet(c, s)
    BY ReceiverChainRemoves
  <2>2. WithinLimits(c) /\ s.DHr \in DOMAIN c.chains
    BY ReceiverChainLimits
  <2>3. r.keys = (c.keys \ own) \cup kept /\ r.chains = c.chains
    <3>1. r = [c EXCEPT !.keys = (@ \ own) \cup kept]
      BY <1>2 DEF StoreKeys
    <3> HIDE DEF c, own, kept, r
    <3> QED BY <2>1, <3>1 DEF SameRatchet, Fields
  <2>4. IsFiniteSet(new)
    <3>1. s.Nr \in Int /\ until - 1 \in Int
      BY DEF WellFormed
    <3>2. IsFiniteSet(s.Nr .. until - 1)
      BY <3>1, FS_Interval
    <3>3. IsFiniteSet(I)
      BY <3>2, FS_Subset
    <3> HIDE DEF I
    <3> DEFINE f == [i \in I |-> [rk |-> s.DHr, index |-> i, chain |-> s.CKr, at |-> t]]
    <3>4. f \in Surjection(I, new)
      BY Zenon DEF Surjection
    <3> HIDE DEF f, new
    <3> QED BY <3>3, <3>4, FS_Surjection, Zenon
  <2>5. own \subseteq c.keys /\ IsFiniteSet(c.keys) /\ IsFiniteSet(own)
    BY <2>2, FS_Subset DEF Stored, WithinLimits, DistinctKeys
  <2>6. IsFiniteSet(own \cup new)
    BY <2>4, <2>5, FS_Union
  <2>7. /\ \A k \in new : k.rk = s.DHr /\ k.index \in I
        /\ \A k, j \in new : k.index = j.index => k = j
    OBVIOUS
  <2>8. \A i \in I : i \in Nat /\ \A k \in own : k.index # i
    BY DEF SkippedKeys, WellFormed
  <2>9. \A k \in own : k \in c.keys /\ k.rk = s.DHr
    BY DEF Stored
  <2>10. DistinctKeys(c.keys)
    BY <2>2 DEF WithinLimits
  <2> HIDE DEF c, I, new, own
  <2>11. DistinctKeys(own \cup new) /\ \A k \in own \cup new : k.rk = s.DHr
    BY <2>6, <2>7, <2>8, <2>9, <2>10 DEF DistinctKeys
  <2>12. Cardinality(kept) <= MaxMessageKeys
    BY <2>11, KeepHighestLimits
  <2>13. kept \subseteq own \cup new
    BY DEF KeepHighest
  <2> HIDE DEF kept, r
  <2>14. \A k \in c.keys \ own : k.rk # s.DHr
    BY DEF own, Stored
  <2>15. DistinctKeys(r.keys)
    <3>1. IsFiniteSet(kept)
      BY <2>6, <2>13, FS_Subset
    <3>2. IsFiniteSet(c.keys \ own)
      BY <2>5, FS_Subset
    <3>3. IsFiniteSet(r.keys)
      BY <2>3, <3>1, <3>2, FS_Union
    <3>4. \A k \in r.keys :
            (k \in c.keys /\ k.rk # s.DHr) \/ (k \in own \cup new /\ k.rk = s.DHr)
      BY <2>3, <2>11, <2>13, <2>14
    <3> QED BY <2>10, <2>11, <3>3, <3>4 DEF DistinctKeys
  <2>16. \A k \in r.keys : k.rk \in DOMAIN r.chains
    BY <2>2, <2>3, <2>11, <2>13 DEF WithinLimits
  <2>17. ASSUME NEW q \in DOMAIN r.chains PROVE Cardinality(Stored(r, q)) <= MaxMessageKeys
    <3>1. CASE q = s.DHr
      <4>1. Stored(r, q) = kept
        BY <2>3, <2>11, <2>13, <2>14, <3>1 DEF Stored
      <4> QED BY <2>12, <4>1
    <3>2. CASE q # s.DHr
      <4>1. Stored(r, q) = Stored(c, q)
        BY <2>3, <2>9, <2>11, <2>13, <3>2 DEF Stored
      <4> QED BY <2>2, <2>3, <4>1 DEF WithinLimits
    <3> QED BY <3>1, <3>2
  <2>18. WithinLimits(r)
    BY <2>2, <2>3, <2>15, <2>16, <2>17 DEF WithinLimits
  <2> QED BY <2>18 DEF r
<1> QED BY <1>1, <1>2

\* decrypt() before a DH ratchet keeps the limits.
LEMMA CloseChainLimits ==
  ASSUME NEW b \in Bases, NEW s, NEW m \in Bodies, NEW t, WellFormed(s, b), WithinLimits(s)
  PROVE  WithinLimits(CloseChain(s, m, t))
<1>1. CASE s.DHr = NoKey \/ m.previousCounter = 0 \/ s.CKr = NoKey
  BY <1>1 DEF CloseChain
<1>2. CASE ~(s.DHr = NoKey \/ m.previousCounter = 0 \/ s.CKr = NoKey)
  <2> DEFINE u == StoreKeys(s, m.previousCounter, t)
             r == CloseChain(s, m, t)
  <2>1. m.previousCounter \in Nat
    BY DEF Bodies
  <2>2. SameRatchet(u, s) /\ WithinLimits(u)
    BY <2>1, StoreKeysAdds, StoreKeysLimits
  <2>3. r.keys = u.keys /\ r.chains = u.chains
    BY <1>2, <2>2 DEF CloseChain, SameRatchet, Fields
  <2> HIDE DEF u, r
  <2>4. WithinLimits(r)
    BY <2>2, <2>3 DEF WithinLimits, Stored
  <2> QED BY <2>4 DEF r
<1> QED BY <1>1, <1>2

\* storeSkippedKeys() and deriveReceivingKey() keep the limits.
LEMMA ChainLimits ==
  ASSUME NEW b \in Bases, NEW s, NEW m \in Bodies, NEW t, WellFormed(s, b), WithinLimits(s),
         ReceiveInChain(s, m, t).result = "ok"
  PROVE  WithinLimits(ReceiveInChain(s, m, t).session)
<1> DEFINE u == StoreKeys(s, m.counter, t)
           r == [u EXCEPT !.Nr = m.counter + 1]
<1>0. m.counter \in Nat
  BY DEF Bodies
<1>1. ReceiveInChain(s, m, t).session = r
  BY DEF ReceiveInChain, Refused, Accepted
<1>2. SameRatchet(u, s) /\ WithinLimits(u)
  BY <1>0, StoreKeysAdds, StoreKeysLimits
<1> HIDE DEF u
<1>3. r.keys = u.keys /\ r.chains = u.chains
  BY <1>2 DEF SameRatchet, Fields
<1> HIDE DEF r
<1> QED BY <1>1, <1>2, <1>3 DEF WithinLimits, Stored

\* An attempt of decrypt() keeps the limits.
LEMMA ReceiveLimits ==
  ASSUME NEW b \in Bases, NEW s, NEW m \in Bodies, NEW t, NEW fresh \in KeyPairs,
         WellFormed(s, b), WithinLimits(s), Receive(s, m, fresh, t).result = "ok"
  PROVE  WithinLimits(Receive(s, m, fresh, t).session)
<1> DEFINE c == Cleanup(s, t)
<1>1. SameRatchet(c, s) /\ c.keys \subseteq s.keys
  BY CleanupRemoves
<1>2. WellFormed(c, b) /\ WithinLimits(c)
  <2>1. Erased(s, {})
    BY DEF Erased
  <2> QED BY <1>1, <2>1, LosingKeys, CleanupLimits
<1> HIDE DEF c
<1>4. CASE SkippedKeys(c, m.rk, m.counter) # {}
  <2> DEFINE r == ConsumeSkipped(c, m.rk, m.counter)
  <2>1. Receive(s, m, fresh, t).session = r
    BY <1>4 DEF Receive, c, ReceiveSkipped, Accepted, Refused
  <2>2. r.keys \subseteq c.keys /\ r.chains = c.chains
    BY <1>2 DEF ConsumeSkipped, WellFormed, Fields
  <2> HIDE DEF r
  <2>3. /\ DistinctKeys(r.keys)
        /\ \A rk \in DOMAIN c.chains : Cardinality({k \in r.keys : k.rk = rk}) <= MaxMessageKeys
    BY <1>2, <2>2, FewerKeys
  <2> QED BY <1>2, <2>1, <2>2, <2>3 DEF WithinLimits, Stored
<1>5. CASE SkippedKeys(c, m.rk, m.counter) = {} /\ c.DHr # NoKey /\ c.DHr = m.rk
  <2>1. Receive(s, m, fresh, t) = ReceiveInChain(c, m, t)
    BY <1>5 DEF Receive, c
  <2> QED BY <1>2, <2>1, ChainLimits
<1>6. CASE /\ SkippedKeys(c, m.rk, m.counter) = {}
           /\ c.DHr = NoKey \/ (c.DHr # m.rk /\ ~ProcessedChain(c, m.rk))
  <2> DEFINE e == CloseChain(c, m, t)
             d == DHRatchet(e, m.rk, fresh)
  <2>1. Receive(s, m, fresh, t) = ReceiveInChain(d, m, t)
    BY <1>6 DEF Receive, c, ReceiveWithRatchet, Refused
  <2>2. SameRatchet(e, c) /\ WithinLimits(e)
    BY <1>2, CloseChainAdds, CloseChainLimits
  <2>3. WellFormed(d, b)
    <3>1. Erased(c, {}) /\ {} \in SUBSET Bodies
      BY DEF Erased
    <3> QED BY <1>2, <3>1, RatchetIsFresh
  <2> HIDE DEF e
  <2>4. d.keys = e.keys /\ d.chains = e.chains
    BY <2>2 DEF DHRatchet, SameRatchet, Fields
  <2> HIDE DEF d
  <2>5. WithinLimits(d)
    BY <2>2, <2>4 DEF WithinLimits, Stored
  <2> QED BY <2>1, <2>3, <2>5, ChainLimits
<1>7. CASE /\ SkippedKeys(c, m.rk, m.counter) = {}
           /\ c.DHr # NoKey /\ c.DHr # m.rk /\ ProcessedChain(c, m.rk)
  BY <1>7 DEF Receive, c, Refused
<1> QED BY <1>4, <1>5, <1>6, <1>7


(* it is ahead on the receiving chain, or it is on the chain that the      *)
(* receiver's next DH ratchet step derives.                                *)

\* The ratchet keys of the peer that a session state mentions.
Mentions(s) ==
  {k.rk : k \in s.keys} \cup {c.rk : c \in s.processed} \cup DOMAIN s.chains
    \cup ({s.DHr} \ {NoKey})

\* What s stores is not old enough to expire, and there is a place in its array
\* for a chain of every ratchet key of K.
Room(s, K) ==
  /\ IsFiniteSet(K) /\ Cardinality(K) <= MaxReceiverChains
  /\ Mentions(s) \subseteq K
  /\ \A k \in s.keys : k.at \in Nat
  /\ \A c \in s.processed : c.at \in Nat

Ample(s, K, b) == WellFormed(s, b) /\ Bounded(s) /\ WithinLimits(s) /\ Room(s, K)

SameStore(u, s) ==
  /\ u.keys = s.keys /\ u.processed = s.processed
  /\ DOMAIN u.chains \subseteq DOMAIN s.chains

\* cleanupExpiredKeys() removes no key.
LEMMA CleanupKeeps ==
  ASSUME NEW b \in Bases, RoomForAll, NEW s, NEW K, NEW t \in 0 .. MaxKeyAge, Ample(s, K, b)
  PROVE  SameRatchet(Cleanup(s, t), s) /\ SameStore(Cleanup(s, t), s)
<1>1. SameRatchet(Cleanup(s, t), s)
  BY CleanupRemoves DEF Ample
<1>2. CASE s.DHr = NoKey
  BY <1>1, <1>2 DEF Cleanup, SameStore
<1>3. CASE s.DHr # NoKey
  <2> DEFINE live == {k \in s.keys : t - k.at <= MaxKeyAge}
             proc == {c \in s.processed : t - c.at <= MaxKeyAge}
             rks == {rk \in DOMAIN s.chains : \E k \in live : k.rk = rk}
  <2>1. live = s.keys /\ proc = s.processed
    BY RatchetAssumption DEF Ample, Room, RoomForAll
  <2>2. /\ Cleanup(s, t).keys = live /\ Cleanup(s, t).processed = proc
        /\ Cleanup(s, t).chains = ChainsIn(s.chains, rks)
    BY <1>3 DEF Cleanup, Ample, WellFormed, Fields
  <2>3. DOMAIN ChainsIn(s.chains, rks) = rks /\ rks \subseteq DOMAIN s.chains
    BY DEF ChainsIn
  <2> HIDE DEF live, proc, rks
  <2> QED BY <1>1, <2>1, <2>2, <2>3 DEF SameStore
<1> QED BY <1>2, <1>3

\* getOrCreateReceiverChain() shifts no chain out of the array.
LEMMA ReceiverChainKeeps ==
  ASSUME NEW b \in Bases, NEW s, NEW K, NEW rk \in K, Ample(s, K, b)
  PROVE  LET c == ReceiverChain(s, rk) IN
         /\ c.keys = s.keys /\ c.processed = s.processed
         /\ DOMAIN c.chains \subseteq DOMAIN s.chains \cup {rk}
<1>1. CASE rk \in DOMAIN s.chains
  BY <1>1 DEF ReceiverChain
<1>2. CASE rk \notin DOMAIN s.chains
  <2> DEFINE old == DOMAIN s.chains
             kept == IF Cardinality(old) >= MaxReceiverChains
                       THEN {q \in old : s.chains[q] # 0} ELSE old
             c == ReceiverChain(s, rk)
  <2>1. old \subseteq K /\ rk \notin old /\ IsFiniteSet(K) /\ Cardinality(K) <= MaxReceiverChains
    BY <1>2 DEF Ample, Room, Mentions
  <2>2. /\ IsFiniteSet(old) /\ Cardinality(old) <= Cardinality(K)
        /\ Cardinality(old) = Cardinality(K) => old = K
    BY <2>1, FS_Subset
  <2>3. Cardinality(old) \in Nat /\ Cardinality(K) \in Nat
    BY <2>1, <2>2, FS_CardinalityType
  <2>4. old # K
    BY <2>1
  <2>5. ~(Cardinality(old) >= MaxReceiverChains)
    <3> HIDE DEF old
    <3> QED BY <2>1, <2>2, <2>3, <2>4, RatchetAssumption
  <2>6. kept = old
    BY <2>5
  <2>7. c = [s EXCEPT !.chains = PushChain(ChainsIn(@, kept), rk),
                      !.keys = {k \in @ : k.rk \notin old \ kept}]
    BY <1>2 DEF ReceiverChain, AddChain
  <2>8. /\ c.keys = {k \in s.keys : k.rk \notin old \ kept} /\ c.processed = s.processed
        /\ c.chains = PushChain(ChainsIn(s.chains, kept), rk)
    BY <2>7 DEF Ample, WellFormed, Fields
  <2>9. DOMAIN c.chains = kept \cup {rk}
    BY <2>8 DEF PushChain, ChainsIn
  <2> HIDE DEF c, kept
  <2>10. c.keys = s.keys
    BY <2>6, <2>8
  <2> QED BY <2>6, <2>8, <2>9, <2>10 DEF c
<1> QED BY <1>1, <1>2

\* evictLowestIndex() evicts nothing from the keys of one chain.
LEMMA KeepHighestKeeps ==
  ASSUME RoomForAll, NEW ks, DistinctKeys(ks), NEW rk,
         \A k \in ks : k.rk = rk /\ k.index < MaxCounter
  PROVE  KeepHighest(ks) = ks
<1>1. SUFFICES ASSUME NEW k \in ks
               PROVE  Cardinality({j \in ks : j.index > k.index}) < MaxMessageKeys
  BY DEF KeepHighest
<1> DEFINE A == {j \in ks : j.index > k.index}
           T == 1 .. (MaxCounter - 1)
           f == [j \in A |-> j.index]
<1>2. k.index \in Nat /\ k.index < MaxCounter /\ MaxCounter \in Nat
  BY RatchetAssumption DEF DistinctKeys
<1>3. IsFiniteSet(T) /\ Cardinality(T) = MaxCounter - 1
  <2>1. MaxCounter - 1 \in Int /\ MaxCounter - 1 >= 0
    BY <1>2
  <2>2. Cardinality(T) = IF 1 > MaxCounter - 1 THEN 0 ELSE (MaxCounter - 1) - 1 + 1
    BY <2>1, FS_Interval
  <2> QED BY <2>1, <2>2, FS_Interval
<1>4. \A j \in A : f[j] \in T
  BY <1>2 DEF DistinctKeys
<1>5. \A i, j \in A : f[i] = f[j] => i = j
  BY DEF DistinctKeys
<1>6. f \in Injection(A, T)
  <2> HIDE DEF T, A
  <2>1. f \in [A -> T]
    BY <1>4
  <2> HIDE DEF f
  <2> QED BY <1>5, <2>1 DEF Injection, IsInjective
<1> HIDE DEF T, f
<1>7. Cardinality(A) <= Cardinality(T) /\ IsFiniteSet(A)
  BY <1>3, <1>6, FS_Injection
<1>8. Cardinality(A) \in Nat
  BY <1>7, FS_CardinalityType
<1> HIDE DEF A
<1>9. Cardinality(A) < MaxMessageKeys
  BY <1>2, <1>3, <1>7, <1>8, RatchetAssumption DEF RoomForAll
<1> QED BY <1>9 DEF A


\* What u has beyond s are all keys of the receiving chain from Nr on and before
\* the given number, stored at time t.
Fills(u, s, until, t) ==
  /\ s.keys \subseteq u.keys
  /\ \A k \in u.keys : k \in s.keys \/ (k.rk = s.DHr /\ k.chain = s.CKr /\ k.at = t)
  /\ \A i \in s.Nr .. until - 1 : \E k \in u.keys : k.rk = s.DHr /\ k.index = i
  /\ DOMAIN u.chains \subseteq DOMAIN s.chains \cup {s.DHr}

\* The loop over storeMessageKeyInChain() stores the key of every skipped message.
LEMMA StoreKeysFills ==
  ASSUME NEW b \in Bases, RoomForAll, NEW s, NEW K, NEW until \in 0 .. MaxCounter, NEW t,
         Ample(s, K, b), s.DHr \in K
  PROVE  /\ Fills(StoreKeys(s, until, t), s, until, t)
         /\ StoreKeys(s, until, t).processed = s.processed
<1>0. s.Nr \in Nat /\ until \in Nat
  BY RatchetAssumption DEF Ample, WellFormed
<1>1. CASE until <= s.Nr
  BY <1>0, <1>1 DEF StoreKeys, Fills
<1>2. CASE ~(until <= s.Nr)
  <2> DEFINE c == ReceiverChain(s, s.DHr)
             I == {j \in s.Nr .. until - 1 : SkippedKeys(c, s.DHr, j) = {}}
             new == {[rk |-> s.DHr, index |-> i, chain |-> s.CKr, at |-> t] : i \in I}
             own == Stored(c, s.DHr)
             r == StoreKeys(s, until, t)
  <2>1. SameRatchet(c, s) /\ WithinLimits(c)
    BY ReceiverChainRemoves, ReceiverChainLimits DEF Ample
  <2>2. /\ c.keys = s.keys /\ c.processed = s.processed
        /\ DOMAIN c.chains \subseteq DOMAIN s.chains \cup {s.DHr}
    BY ReceiverChainKeeps
  <2>3. /\ r.keys = (c.keys \ own) \cup KeepHighest(own \cup new)
        /\ r.chains = c.chains /\ r.processed = c.processed
    <3>1. r = [c EXCEPT !.keys = (@ \ own) \cup KeepHighest(own \cup new)]
      BY <1>2 DEF StoreKeys
    <3> HIDE DEF c, own, new, r
    <3> QED BY <2>1, <3>1 DEF SameRatchet, Fields
  <2>4. IsFiniteSet(new)
    <3>1. s.Nr \in Int /\ until - 1 \in Int
      BY <1>0
    <3>2. IsFiniteSet(s.Nr .. until - 1)
      BY <3>1, FS_Interval
    <3>3. IsFiniteSet(I)
      BY <3>2, FS_Subset
    <3> HIDE DEF I
    <3> DEFINE f == [i \in I |-> [rk |-> s.DHr, index |-> i, chain |-> s.CKr, at |-> t]]
    <3>4. f \in Surjection(I, new)
      BY Zenon DEF Surjection
    <3> HIDE DEF f, new
    <3> QED BY <3>3, <3>4, FS_Surjection, Zenon
  <2>5. own \subseteq c.keys /\ IsFiniteSet(own)
    BY <2>1, FS_Subset DEF Stored, WithinLimits, DistinctKeys
  <2>6. IsFiniteSet(own \cup new)
    BY <2>4, <2>5, FS_Union
  <2>7. /\ \A k \in new : /\ k.rk = s.DHr /\ k.chain = s.CKr /\ k.at = t
                          /\ k.index \in I
        /\ \A k, j \in new : k.index = j.index => k = j
        /\ \A i \in I : \E k \in new : k.index = i
    <3>1. \A i \in I : [rk |-> s.DHr, index |-> i, chain |-> s.CKr, at |-> t] \in new
      OBVIOUS
    <3>2. \A i \in I : [rk |-> s.DHr, index |-> i, chain |-> s.CKr, at |-> t].index = i
      OBVIOUS
    <3>3. \A k \in new : \E i \in I : k = [rk |-> s.DHr, index |-> i, chain |-> s.CKr, at |-> t]
      OBVIOUS
    <3> HIDE DEF I, new
    <3>4. \A i \in I : \E k \in new : k.index = i
      BY <3>1, <3>2, Zenon
    <3>5. \A k \in new : k.rk = s.DHr /\ k.chain = s.CKr /\ k.at = t /\ k.index \in I
      BY <3>3
    <3>6. \A k, j \in new : k.index = j.index => k = j
      BY <3>3
    <3> QED BY <3>4, <3>5, <3>6
  <2>8. \A i \in I : /\ i \in Nat /\ i < MaxCounter
                     /\ \A k \in own : k.index # i
    BY <1>0, RatchetAssumption DEF SkippedKeys
  <2>9. \A k \in own : k \in c.keys /\ k.rk = s.DHr
    BY DEF Stored
  <2>10. DistinctKeys(c.keys) /\ \A k \in c.keys : k.index < MaxCounter
    BY <2>1, <2>2 DEF WithinLimits, Ample, Bounded
  <2>11. \A i \in s.Nr .. until - 1 : i \in I \/ \E k \in own : k.index = i
    BY DEF SkippedKeys
  <2> HIDE DEF c, I, new, own, r
  <2>12. DistinctKeys(own \cup new) /\ \A k \in own \cup new : k.rk = s.DHr /\ k.index < MaxCounter
    BY <2>6, <2>7, <2>8, <2>9, <2>10 DEF DistinctKeys
  <2>13. KeepHighest(own \cup new) = own \cup new
    BY <2>12, KeepHighestKeeps
  <2>14. r.keys = c.keys \cup new
    BY <2>3, <2>5, <2>13
  <2>15. \A i \in s.Nr .. until - 1 : \E k \in r.keys : k.rk = s.DHr /\ k.index = i
    BY <2>7, <2>9, <2>11, <2>14, Zenon
  <2>16. Fills(r, s, until, t)
    BY <2>2, <2>3, <2>7, <2>14, <2>15 DEF Fills
  <2> QED BY <2>2, <2>3, <2>16 DEF r
<1> QED BY <1>1, <1>2

SameButNr(r, s) ==
  /\ r.DHs = s.DHs /\ r.DHr = s.DHr /\ r.RK = s.RK /\ r.CKs = s.CKs
  /\ r.Ns = s.Ns /\ r.CKr = s.CKr /\ r.PN = s.PN

\* The receiving chain of s opened m, and moved past it.
ByChain(r, s, m, t) ==
  /\ m.chain = s.CKr /\ s.Nr <= m.counter /\ r.Nr = m.counter + 1
  /\ SameButNr(r, s)
  /\ Fills(r, s, m.counter, t) /\ r.processed = s.processed

\* storeSkippedKeys() and deriveReceivingKey() lose nothing.
LEMMA ChainDelivers ==
  ASSUME NEW b \in Bases, RoomForAll, NEW s, NEW K, NEW m \in Bodies, NEW t,
         BoundedMessage(m),
         Ample(s, K, b), s.DHr \in K, ReceiveInChain(s, m, t).result = "ok"
  PROVE  ByChain(ReceiveInChain(s, m, t).session, s, m, t)
<1> DEFINE u == StoreKeys(s, m.counter, t)
           r == [u EXCEPT !.Nr = m.counter + 1]
<1>0. m.counter \in Nat /\ m.counter \in 0 .. MaxCounter /\ s.Nr \in Nat
  BY RatchetAssumption DEF Bodies, BoundedMessage, Ample, WellFormed
<1>1. /\ ReceiveInChain(s, m, t).session = r
      /\ m.chain = s.CKr /\ ~(m.counter < s.Nr)
  BY DEF ReceiveInChain, Refused, Accepted
<1>2. SameRatchet(u, s)
  BY <1>0, StoreKeysAdds DEF Ample
<1>3. Fills(u, s, m.counter, t) /\ u.processed = s.processed
  BY <1>0, StoreKeysFills
<1> HIDE DEF u
<1>4. /\ r.keys = u.keys /\ r.chains = u.chains /\ r.processed = u.processed
      /\ r.Nr = m.counter + 1
  BY <1>2 DEF SameRatchet, Fields
<1>5. SameButNr(r, s)
  BY <1>2 DEF SameRatchet, Fields, SameButNr
<1> HIDE DEF r
<1>6. Fills(r, s, m.counter, t)
  BY <1>3, <1>4 DEF Fills
<1> QED BY <1>0, <1>1, <1>3, <1>4, <1>5, <1>6 DEF ByChain

\* The chain that ends is stored up to previousCounter, and counts as processed.
Closes(c, s, m, t) ==
  /\ SameRatchet(c, s)
  /\ s.keys \subseteq c.keys
  /\ \A k \in c.keys :
       k \in s.keys \/ (s.DHr # NoKey /\ k.rk = s.DHr /\ k.chain = s.CKr /\ k.at = t)
  /\ s.DHr # NoKey =>
       \A i \in s.Nr .. m.previousCounter - 1 : \E k \in c.keys : k.rk = s.DHr /\ k.index = i
  /\ \A x \in c.processed :
       x \in s.processed \/ (s.DHr # NoKey /\ x.rk = s.DHr /\ x.at = t)
  /\ DOMAIN c.chains \subseteq DOMAIN s.chains \cup ({s.DHr} \ {NoKey})

\* decrypt() before a DH ratchet loses nothing.
LEMMA CloseChainDelivers ==
  ASSUME NEW b \in Bases, RoomForAll, NEW s, NEW K, NEW m \in Bodies, NEW t,
         BoundedMessage(m), Ample(s, K, b)
  PROVE  Closes(CloseChain(s, m, t), s, m, t)
<1>0. /\ m.previousCounter \in Nat /\ m.previousCounter \in 0 .. MaxCounter
      /\ s.Nr \in Nat /\ DOMAIN s = Fields
  BY RatchetAssumption DEF Bodies, BoundedMessage, Ample, WellFormed
<1>1. s.DHr # NoKey => s.CKr # NoKey /\ s.DHr \in K
  <2>1. s.DHr # NoKey => s.CKr \in Seq(Mixed)
    BY DEF Ample, WellFormed, Chain
  <2>2. NoKey \notin Seq(Mixed)
    BY NoKeyAssumption DEF Mixed
  <2>3. s.DHr # NoKey => s.DHr \in K
    BY DEF Ample, Room, Mentions
  <2> QED BY <2>1, <2>2, <2>3
<1>2. CASE s.DHr = NoKey \/ m.previousCounter = 0
  <2>1. CloseChain(s, m, t) = s
    BY <1>2 DEF CloseChain
  <2>2. SameRatchet(s, s)
    BY <1>0 DEF SameRatchet
  <2>3. s.DHr # NoKey => s.Nr .. m.previousCounter - 1 = {}
    BY <1>0, <1>2
  <2> QED BY <2>1, <2>2, <2>3 DEF Closes
<1>3. CASE s.DHr # NoKey /\ m.previousCounter # 0
  <2> DEFINE u == StoreKeys(s, m.previousCounter, t)
             proc == {q \in u.processed : q.rk # s.DHr} \cup {[rk |-> s.DHr, at |-> t]}
             c == [u EXCEPT !.processed = proc]
  <2>1. CloseChain(s, m, t) = c
    BY <1>1, <1>3 DEF CloseChain
  <2>2. SameRatchet(u, s)
    BY <1>0, StoreKeysAdds DEF Ample
  <2>3. Fills(u, s, m.previousCounter, t) /\ u.processed = s.processed
    BY <1>0, <1>1, <1>3, StoreKeysFills
  <2>4. \A x \in proc : x \in u.processed \/ (x.rk = s.DHr /\ x.at = t)
    OBVIOUS
  <2> HIDE DEF u, proc
  <2>5. /\ SameRatchet(c, s) /\ c.keys = u.keys /\ c.chains = u.chains
        /\ c.processed = proc
    BY <2>2 DEF SameRatchet, Fields
  <2> HIDE DEF c
  <2> QED BY <1>3, <2>1, <2>3, <2>4, <2>5 DEF Closes, Fills
<1> QED BY <1>2, <1>3

\* performDHRatchetStep() for the header of m, and then the new receiving chain of
\* s opened m: the keys that are left of both chains are stored.
ByRatchet(r, s, m, fresh, t) ==
  /\ m.chain = Append(s.RK, DH(s.DHs, m.rk))
  /\ r.DHs = fresh /\ r.DHr = m.rk /\ r.CKr = m.chain
  /\ r.RK = Append(m.chain, DH(fresh, m.rk)) /\ r.CKs = r.RK
  /\ r.Ns = 0 /\ r.PN = s.Ns /\ r.Nr = m.counter + 1
  /\ s.keys \subseteq r.keys
  /\ \A k \in r.keys :
       \/ k \in s.keys
       \/ k.at = t /\ s.DHr # NoKey /\ k.rk = s.DHr /\ k.chain = s.CKr
       \/ k.at = t /\ k.rk = m.rk /\ k.chain = m.chain
  /\ s.DHr # NoKey =>
       \A i \in s.Nr .. m.previousCounter - 1 : \E k \in r.keys : k.rk = s.DHr /\ k.index = i
  /\ \A i \in 0 .. m.counter - 1 :
       \E k \in r.keys : k.rk = m.rk /\ k.index = i
  /\ \A x \in r.processed :
       x \in s.processed \/ (s.DHr # NoKey /\ x.rk = s.DHr /\ x.at = t)
  /\ DOMAIN r.chains \subseteq DOMAIN s.chains \cup ({s.DHr} \ {NoKey}) \cup {m.rk}

\* The state between the DH ratchet step and the message.
Ratchets(d, s, m, fresh, t) ==
  /\ d.DHs = fresh /\ d.DHr = m.rk /\ d.CKr = Append(s.RK, DH(s.DHs, m.rk))
  /\ d.RK = Append(d.CKr, DH(fresh, m.rk)) /\ d.CKs = d.RK
  /\ d.Ns = 0 /\ d.PN = s.Ns /\ d.Nr = 0
  /\ \E c : /\ Closes(c, s, m, t)
            /\ d.keys = c.keys /\ d.processed = c.processed /\ d.chains = c.chains

\* A ratchet step keeps every key that the receiver still needs, as long as the storage
\* has room for all of them.
LEMMA RatchetDelivers ==
  ASSUME NEW b \in Bases, RoomForAll, NEW s, NEW K, NEW m \in Bodies, NEW t \in Nat,
         NEW fresh \in KeyPairs,
         BoundedMessage(m), Ample(s, K, b), m.rk \in K
  PROVE  LET d == DHRatchet(CloseChain(s, m, t), m.rk, fresh) IN
         Ratchets(d, s, m, fresh, t) /\ Ample(d, K, b)
<1> DEFINE c == CloseChain(s, m, t)
           receiving == KdfRootKey(c.RK, DH(c.DHs, m.rk))
           sending == KdfRootKey(receiving, DH(fresh, m.rk))
           d == DHRatchet(c, m.rk, fresh)
<1>1. Closes(c, s, m, t)
  BY CloseChainDelivers
<1>2. WellFormed(s, b) /\ Bounded(s) /\ WithinLimits(s) /\ Room(s, K)
  BY DEF Ample
<1>3. WellFormed(d, b) /\ Bounded(d)
  <2>1. Erased(s, {})
    BY DEF Erased
  <2>2. {} \in SUBSET Bodies
    OBVIOUS
  <2> HIDE DEF d
  <2> QED BY <1>2, <2>1, <2>2, RatchetIsFresh, RatchetBounded DEF d
<1>4. WithinLimits(c)
  BY <1>2, CloseChainLimits
<1> HIDE DEF c
<1>5. /\ d.keys = c.keys /\ d.PN = c.Ns /\ d.Ns = 0 /\ d.Nr = 0
      /\ d.processed = c.processed /\ d.chains = c.chains
      /\ d.DHr = m.rk /\ d.DHs = fresh /\ d.CKr = receiving /\ d.CKs = sending
      /\ d.RK = sending
  BY <1>1 DEF Closes, SameRatchet, Fields, DHRatchet
<1>6. c.RK = s.RK /\ c.DHs = s.DHs /\ c.Ns = s.Ns
  BY <1>1 DEF Closes, SameRatchet
<1> HIDE DEF d
<1>7. Ratchets(d, s, m, fresh, t)
  BY <1>1, <1>5, <1>6 DEF Ratchets, KdfRootKey
<1>8. WithinLimits(d)
  BY <1>4, <1>5 DEF WithinLimits, Stored
<1>9. Room(d, K)
  <2>1. s.DHr # NoKey => s.DHr \in K
    BY <1>2 DEF Room, Mentions
  <2>2. /\ \A k \in s.keys : k.rk \in K /\ k.at \in Nat
        /\ \A x \in s.processed : x.rk \in K /\ x.at \in Nat
        /\ DOMAIN s.chains \subseteq K
    BY <1>2 DEF Room, Mentions
  <2>3. \A k \in c.keys : k.rk \in K /\ k.at \in Nat
    BY <1>1, <2>1, <2>2 DEF Closes
  <2>4. \A x \in c.processed : x.rk \in K /\ x.at \in Nat
    BY <1>1, <2>1, <2>2 DEF Closes
  <2>5. DOMAIN c.chains \subseteq K
    BY <1>1, <2>1, <2>2 DEF Closes
  <2>6. Mentions(d) \subseteq K
    BY <1>5, <2>3, <2>4, <2>5 DEF Mentions
  <2> QED BY <1>2, <1>5, <2>3, <2>4, <2>6 DEF Room
<1> QED BY <1>3, <1>7, <1>8, <1>9 DEF Ample, c, d

\* decrypt() on the DH ratchet path loses nothing.
LEMMA RatchetOpens ==
  ASSUME NEW b \in Bases, RoomForAll, NEW s, NEW K, NEW m \in Bodies, NEW t \in Nat,
         NEW fresh \in KeyPairs,
         BoundedMessage(m), Ample(s, K, b), m.rk \in K,
         ReceiveWithRatchet(s, m, fresh, t).result = "ok"
  PROVE  ByRatchet(ReceiveWithRatchet(s, m, fresh, t).session, s, m, fresh, t)
<1> DEFINE d == DHRatchet(CloseChain(s, m, t), m.rk, fresh)
           r == ReceiveInChain(d, m, t).session
<1>1. ReceiveWithRatchet(s, m, fresh, t) = ReceiveInChain(d, m, t)
  BY DEF ReceiveWithRatchet, Refused
<1>2. Ratchets(d, s, m, fresh, t) /\ Ample(d, K, b)
  BY RatchetDelivers
<1> HIDE DEF d
<1>3. d.DHr \in K
  BY <1>2 DEF Ratchets
<1>4. ByChain(r, d, m, t)
  BY <1>1, <1>2, <1>3, ChainDelivers
<1> HIDE DEF r
<1>5. PICK c : /\ Closes(c, s, m, t)
               /\ d.keys = c.keys /\ d.processed = c.processed /\ d.chains = c.chains
  BY <1>2 DEF Ratchets
<1>6. /\ d.DHs = fresh /\ d.DHr = m.rk /\ d.CKr = Append(s.RK, DH(s.DHs, m.rk))
      /\ d.RK = Append(d.CKr, DH(fresh, m.rk)) /\ d.CKs = d.RK
      /\ d.Ns = 0 /\ d.PN = s.Ns /\ d.Nr = 0
  BY <1>2 DEF Ratchets
<1>7. /\ m.chain = d.CKr /\ r.Nr = m.counter + 1 /\ SameButNr(r, d)
      /\ Fills(r, d, m.counter, t) /\ r.processed = d.processed
  BY <1>4 DEF ByChain
<1>8. /\ r.DHs = fresh /\ r.DHr = m.rk /\ r.CKr = m.chain
      /\ r.RK = Append(m.chain, DH(fresh, m.rk)) /\ r.CKs = r.RK
      /\ r.Ns = 0 /\ r.PN = s.Ns
  BY <1>6, <1>7 DEF SameButNr
<1>9. s.keys \subseteq r.keys
  BY <1>5, <1>7 DEF Closes, Fills
<1>10. \A k \in r.keys :
         \/ k \in s.keys
         \/ k.at = t /\ s.DHr # NoKey /\ k.rk = s.DHr /\ k.chain = s.CKr
         \/ k.at = t /\ k.rk = m.rk /\ k.chain = m.chain
  BY <1>5, <1>6, <1>7 DEF Closes, Fills
<1>11. s.DHr # NoKey =>
         \A i \in s.Nr .. m.previousCounter - 1 : \E k \in r.keys : k.rk = s.DHr /\ k.index = i
  BY <1>5, <1>7 DEF Closes, Fills
<1>12. \A i \in 0 .. m.counter - 1 : \E k \in r.keys : k.rk = m.rk /\ k.index = i
  BY <1>6, <1>7 DEF Fills
<1>13. \A x \in r.processed :
         x \in s.processed \/ (s.DHr # NoKey /\ x.rk = s.DHr /\ x.at = t)
  BY <1>5, <1>7 DEF Closes
<1>14. DOMAIN r.chains \subseteq DOMAIN s.chains \cup ({s.DHr} \ {NoKey}) \cup {m.rk}
  BY <1>5, <1>6, <1>7 DEF Closes, Fills
<1>15. ByRatchet(r, s, m, fresh, t)
  BY <1>6, <1>7, <1>8, <1>9, <1>10, <1>11, <1>12, <1>13, <1>14 DEF ByRatchet
<1> QED BY <1>1, <1>15 DEF r

\* The key of m is stored.
InStore(s, m) == \E k \in s.keys : k.rk = m.rk /\ k.index = m.counter /\ k.chain = m.chain

\* A stored key of s opened m, and is gone.
BySkipped(r, s, m) ==
  /\ InStore(s, m) /\ SameRatchet(r, s)
  /\ r.keys = s.keys \ SkippedKeys(s, m.rk, m.counter)
  /\ r.processed = s.processed /\ DOMAIN r.chains \subseteq DOMAIN s.chains

Opened(r, s, m, fresh, t) ==
  \/ BySkipped(r, s, m)
  \/ m.rk = s.DHr /\ ByChain(r, s, m, t)
  \/ m.rk # s.DHr /\ ByRatchet(r, s, m, fresh, t)

\* A state with fewer chains without keys is as ample as before.
LEMMA SameStoreAmple ==
  ASSUME NEW b \in Bases, NEW s, NEW c, NEW K, Ample(s, K, b), WithinLimits(c),
         SameRatchet(c, s), SameStore(c, s)
  PROVE  Ample(c, K, b)
<1>1. c.keys = s.keys /\ c.processed = s.processed /\ DOMAIN c.chains \subseteq DOMAIN s.chains
  BY DEF SameStore
<1>2. WellFormed(c, b)
  <2>1. Erased(s, {}) /\ WellFormed(s, b) /\ c.keys \subseteq s.keys
    BY <1>1 DEF Erased, Ample
  <2> QED BY <2>1, LosingKeys
<1>3. Bounded(c)
  BY <1>1 DEF Bounded, SameRatchet, Ample
<1>4. Mentions(c) \subseteq Mentions(s)
  BY <1>1 DEF Mentions, SameRatchet
<1>5. Room(c, K)
  BY <1>1, <1>4 DEF Room, Ample
<1> QED BY <1>2, <1>3, <1>5 DEF Ample

\* decrypt() loses nothing but the key that it uses.
LEMMA ReceiveDelivers ==
  ASSUME NEW b \in Bases, RoomForAll, NEW s, NEW K, NEW m \in Bodies,
         NEW t \in 0 .. MaxKeyAge,
         NEW fresh \in KeyPairs, BoundedMessage(m), Ample(s, K, b), m.rk \in K,
         Receive(s, m, fresh, t).result = "ok"
  PROVE  Opened(Receive(s, m, fresh, t).session, s, m, fresh, t)
<1> DEFINE c == Cleanup(s, t)
           r == Receive(s, m, fresh, t).session
<1>0. t \in Nat /\ m.rk # NoKey
  BY RatchetAssumption, NoKeyAssumption DEF Bodies, KeyPairs
<1>1. SameRatchet(c, s) /\ SameStore(c, s)
  BY CleanupKeeps
<1>2. WithinLimits(c)
  BY CleanupLimits DEF Ample
<1>3. Ample(c, K, b)
  BY <1>1, <1>2, SameStoreAmple
<1>4. /\ c.DHs = s.DHs /\ c.DHr = s.DHr /\ c.RK = s.RK /\ c.CKs = s.CKs /\ c.Ns = s.Ns
      /\ c.CKr = s.CKr /\ c.Nr = s.Nr /\ c.PN = s.PN /\ DOMAIN c = Fields
      /\ c.keys = s.keys /\ c.processed = s.processed
      /\ DOMAIN c.chains \subseteq DOMAIN s.chains
  BY <1>1 DEF SameRatchet, SameStore
<1> HIDE DEF c
<1>5. CASE SkippedKeys(c, m.rk, m.counter) # {}
  <2>1. Receive(s, m, fresh, t) = ReceiveSkipped(c, m)
    BY <1>5 DEF Receive, c
  <2>2. /\ \E k \in SkippedKeys(c, m.rk, m.counter) : k.chain = m.chain
        /\ r = ConsumeSkipped(c, m.rk, m.counter)
    BY <2>1 DEF ReceiveSkipped, Refused, Accepted
  <2>3. InStore(s, m)
    BY <1>4, <2>2 DEF SkippedKeys, Stored, InStore
  <2>4. /\ SameRatchet(r, s) /\ r.keys = c.keys \ SkippedKeys(c, m.rk, m.counter)
        /\ r.processed = c.processed /\ r.chains = c.chains
    BY <1>4, <2>2 DEF ConsumeSkipped, SameRatchet, Fields
  <2>5. SkippedKeys(c, m.rk, m.counter) = SkippedKeys(s, m.rk, m.counter)
    BY <1>4 DEF SkippedKeys, Stored
  <2> HIDE DEF r
  <2>6. BySkipped(r, s, m)
    BY <1>4, <2>3, <2>4, <2>5 DEF BySkipped
  <2> QED BY <2>6 DEF Opened, r
<1>6. CASE SkippedKeys(c, m.rk, m.counter) = {} /\ c.DHr = m.rk
  <2>1. Receive(s, m, fresh, t) = ReceiveInChain(c, m, t)
    BY <1>0, <1>6 DEF Receive, c
  <2>2. ByChain(r, c, m, t)
    BY <1>3, <1>6, <2>1, ChainDelivers
  <2> HIDE DEF r
  <2>3. Fills(r, s, m.counter, t) /\ SameButNr(r, s)
    BY <1>4, <2>2 DEF ByChain, Fills, SameButNr
  <2>4. ByChain(r, s, m, t)
    BY <1>4, <2>2, <2>3 DEF ByChain
  <2> QED BY <1>4, <1>6, <2>4 DEF Opened, r
<1>7. CASE /\ SkippedKeys(c, m.rk, m.counter) = {} /\ c.DHr # m.rk
           /\ c.DHr = NoKey \/ ~ProcessedChain(c, m.rk)
  <2>1. Receive(s, m, fresh, t) = ReceiveWithRatchet(c, m, fresh, t)
    BY <1>7 DEF Receive, c
  <2>2. ByRatchet(r, c, m, fresh, t)
    BY <1>0, <1>3, <2>1, RatchetOpens
  <2> HIDE DEF r
  <2>3. ByRatchet(r, s, m, fresh, t)
    BY <1>4, <2>2 DEF ByRatchet
  <2> QED BY <1>4, <1>7, <2>3 DEF Opened, r
<1>8. CASE /\ SkippedKeys(c, m.rk, m.counter) = {}
           /\ c.DHr # NoKey /\ c.DHr # m.rk /\ ProcessedChain(c, m.rk)
  BY <1>8 DEF Receive, c, Refused
<1> QED BY <1>5, <1>6, <1>7, <1>8

\* The receiving chain of s still comes to m.
Ahead(s, m) == s.DHr = m.rk /\ s.CKr = m.chain /\ s.Nr <= m.counter

\* t made the last DH ratchet step, with the key of s that it has: the next one of
\* s derives the sending chain of t, and t receives on the sending chain of s.
Leads(t, s) ==
  /\ t.DHr = s.DHs
  /\ t.RK = Append(s.RK, DH(s.DHs, t.DHs))
  /\ s.CKs = s.RK => t.CKr = s.RK

\* A device that has the ratchet keys K in this session has sent out and is in state t.
Sender(t, out, K) ==
  /\ t.DHs \in K
  /\ \A m \in out :
       /\ m.rk \in K
       /\ m.chain = t.RK <=> m.rk = t.DHs
       /\ m.rk = t.DHs => m.previousCounter = t.PN /\ m.counter < t.Ns
  /\ \A m, l \in out : m.rk = l.rk /\ m.counter = l.counter => m = l

\* The state s knows keys of K only, and the keys of its receiving chain
\* belong to the ratchet key of that chain.
Receiver(s, K) ==
  /\ Mentions(s) \subseteq K
  /\ \A k \in s.keys : k.at \in Nat /\ (k.rk = s.DHr => k.chain = s.CKr)
  /\ \A c \in s.processed : c.at \in Nat /\ c.rk # s.DHr

\* Where a message of t that s has not received is.
Pending(s, t, m) == InStore(s, m) \/ Ahead(s, m) \/ (Leads(t, s) /\ m.rk = t.DHs)

Pair(s, t, out, acc) ==
  /\ Leads(t, s) => /\ t.DHs \notin Mentions(s)
                    /\ \A m \in out : m.rk = s.DHr => m.counter < t.PN
  /\ Leads(s, t) => s.Nr <= t.Ns
  /\ \A m \in out \ acc : Pending(s, t, m)

\* The direction from a device with state t and the keys K to the state s of its peer.
Link(s, t, out, acc, K, b) ==
  /\ out \subseteq Bodies
  /\ WellFormed(s, b) /\ WellFormed(t, b) /\ SentOlder(t, out)
  /\ Sender(t, out, K) /\ Receiver(s, K) /\ Pair(s, t, out, acc)

\* One party is a DH ratchet step ahead, and only one.
LEMMA OneLeads ==
  ASSUME NEW b \in Bases, NEW s, NEW t, WellFormed(s, b), WellFormed(t, b), Leads(t, s)
  PROVE  ~Leads(s, t) /\ Len(t.RK) = Len(s.RK) + 1 /\ Len(s.RK) \in Nat
<1>1. /\ s.RK \in Seq(Mixed) /\ t.RK \in Seq(Mixed)
      /\ DH(s.DHs, t.DHs) \in Mixed /\ DH(t.DHs, s.DHs) \in Mixed
  BY DEF WellFormed, DH, Mixed, Chain
<1>2. t.RK = Append(s.RK, DH(s.DHs, t.DHs))
  BY DEF Leads
<1>3. Len(t.RK) = Len(s.RK) + 1 /\ Len(s.RK) \in Nat /\ Len(t.RK) \in Nat
  BY <1>1, <1>2
<1>4. ASSUME Leads(s, t) PROVE FALSE
  <2>1. s.RK = Append(t.RK, DH(t.DHs, s.DHs))
    BY <1>4 DEF Leads
  <2>2. Len(s.RK) = Len(t.RK) + 1
    BY <1>1, <2>1
  <2> QED BY <1>3, <2>2
<1> QED BY <1>3, <1>4

\* A stored key opened m: the others stay where they are.
LEMMA SkippedLink ==
  ASSUME NEW b \in Bases, NEW s, NEW t, NEW out, NEW acc, NEW K, NEW m \in out, NEW r,
         Link(s, t, out, acc, K, b), WellFormed(r, b), BySkipped(r, s, m)
  PROVE  Link(r, t, out, acc \cup {m}, K, b)
<1>1. /\ r.DHs = s.DHs /\ r.DHr = s.DHr /\ r.RK = s.RK /\ r.CKs = s.CKs
      /\ r.CKr = s.CKr /\ r.Nr = s.Nr
      /\ r.keys = s.keys \ SkippedKeys(s, m.rk, m.counter)
      /\ r.processed = s.processed /\ DOMAIN r.chains \subseteq DOMAIN s.chains
  BY DEF BySkipped, SameRatchet
<1>2. Mentions(r) \subseteq Mentions(s)
  BY <1>1 DEF Mentions
<1>3. Receiver(r, K)
  BY <1>1, <1>2 DEF Receiver, Link
<1>4. (Leads(t, r) <=> Leads(t, s)) /\ (Leads(r, t) <=> Leads(s, t))
  BY <1>1 DEF Leads
<1>5. ASSUME NEW l \in out \ (acc \cup {m}) PROVE Pending(r, t, l)
  <2>1. Pending(s, t, l)
    BY DEF Link, Pair
  <2>2. ~(l.rk = m.rk /\ l.counter = m.counter)
    BY DEF Link, Sender
  <2>3. CASE InStore(s, l)
    BY <1>1, <2>2, <2>3 DEF InStore, SkippedKeys, Stored, Pending
  <2>4. CASE Ahead(s, l)
    BY <1>1, <2>4 DEF Ahead, Pending
  <2>5. CASE Leads(t, s) /\ l.rk = t.DHs
    BY <1>4, <2>5 DEF Pending
  <2> QED BY <2>1, <2>3, <2>4, <2>5 DEF Pending
<1>6. Pair(r, t, out, acc \cup {m})
  BY <1>1, <1>2, <1>4, <1>5 DEF Pair, Link
<1> QED BY <1>3, <1>6 DEF Link

\* The receiving chain opened m: the messages before it are stored now.
LEMMA ChainLink ==
  ASSUME NEW b \in Bases, NEW s, NEW t, NEW out, NEW acc, NEW K, NEW m \in out, NEW r,
         NEW time \in Nat,
         Link(s, t, out, acc, K, b), WellFormed(r, b), m.rk = s.DHr, ByChain(r, s, m, time)
  PROVE  Link(r, t, out, acc \cup {m}, K, b)
<1>0. /\ s.DHr # NoKey /\ m.counter \in Nat /\ s.Nr \in Nat /\ t.Ns \in Nat
      /\ \A l \in out : l.counter \in Nat
  BY NoKeyAssumption DEF Link, Bodies, KeyPairs, WellFormed
<1>1. /\ r.DHs = s.DHs /\ r.DHr = s.DHr /\ r.RK = s.RK /\ r.CKs = s.CKs
      /\ r.CKr = s.CKr /\ r.processed = s.processed
      /\ r.Nr = m.counter + 1 /\ s.Nr <= m.counter
  BY DEF ByChain, SameButNr
<1>2. /\ s.keys \subseteq r.keys
      /\ \A k \in r.keys : k \in s.keys \/ (k.rk = s.DHr /\ k.chain = s.CKr /\ k.at = time)
      /\ \A i \in s.Nr .. m.counter - 1 : \E k \in r.keys : k.rk = s.DHr /\ k.index = i
      /\ DOMAIN r.chains \subseteq DOMAIN s.chains \cup {s.DHr}
  BY DEF ByChain, Fills
<1>3. Mentions(r) \subseteq Mentions(s)
  BY <1>0, <1>1, <1>2 DEF Mentions
<1>4. Receiver(r, K)
  BY <1>1, <1>2, <1>3 DEF Receiver, Link
<1>5. (Leads(t, r) <=> Leads(t, s)) /\ (Leads(r, t) <=> Leads(s, t))
  BY <1>1 DEF Leads
<1>6. Leads(r, t) => r.Nr <= t.Ns
  <2>1. Leads(s, t) => m.rk = t.DHs
    BY DEF Leads
  <2>2. m.rk = t.DHs => m.counter < t.Ns
    BY DEF Link, Sender
  <2> QED BY <1>0, <1>1, <1>5, <2>1, <2>2
<1>7. ASSUME NEW l \in out \ (acc \cup {m}) PROVE Pending(r, t, l)
  <2>1. Pending(s, t, l)
    BY DEF Link, Pair
  <2>2. ~(l.rk = m.rk /\ l.counter = m.counter)
    BY DEF Link, Sender
  <2>3. CASE InStore(s, l)
    BY <1>2, <2>3 DEF InStore, Pending
  <2>4. CASE Ahead(s, l)
    <3>1. l.rk = s.DHr /\ l.chain = s.CKr /\ s.Nr <= l.counter
      BY <2>4 DEF Ahead
    <3>2. CASE l.counter < m.counter
      <4>1. l.counter \in s.Nr .. m.counter - 1
        BY <1>0, <3>1, <3>2
      <4>2. PICK k \in r.keys : k.rk = s.DHr /\ k.index = l.counter
        BY <1>2, <4>1
      <4>3. k.chain = s.CKr
        BY <1>2, <4>2 DEF Link, Receiver
      <4> QED BY <3>1, <4>2, <4>3 DEF InStore, Pending
    <3>3. CASE ~(l.counter < m.counter)
      <4>1. r.Nr <= l.counter
        BY <1>0, <1>1, <2>2, <3>1, <3>3
      <4> QED BY <1>1, <3>1, <4>1 DEF Ahead, Pending
    <3> QED BY <3>2, <3>3
  <2>5. CASE Leads(t, s) /\ l.rk = t.DHs
    BY <1>5, <2>5 DEF Pending
  <2> QED BY <2>1, <2>3, <2>4, <2>5 DEF Pending
<1>8. Pair(r, t, out, acc \cup {m})
  BY <1>1, <1>3, <1>5, <1>6, <1>7 DEF Pair, Link
<1> QED BY <1>4, <1>8 DEF Link

\* A message that the DH ratchet step of s can open is on the sending chain of its
\* peer, which leads.
LEMMA RatchetMessage ==
  ASSUME NEW b \in Bases, NEW s, NEW t, NEW out, NEW acc, NEW K, NEW m \in out,
         Link(s, t, out, acc, K, b), Leads(s, t) \/ Leads(t, s),
         m.chain = Append(s.RK, DH(s.DHs, m.rk))
  PROVE  Leads(t, s) /\ m.rk = t.DHs /\ m.chain = t.RK
<1>1. /\ s.RK \in Seq(Mixed) /\ t.RK \in Seq(Mixed) /\ s.DHs \in KeyPairs /\ m.rk \in KeyPairs
      /\ WellFormed(s, b) /\ WellFormed(t, b)
  BY DEF Link, WellFormed, Bodies, Chain
<1>2. DH(s.DHs, m.rk) \in Mixed
  BY <1>1 DEF DH, Mixed
<1>3. Len(m.chain) = Len(s.RK) + 1 /\ Len(s.RK) \in Nat /\ Len(t.RK) \in Nat
  BY <1>1, <1>2
<1>4. m.chain = t.RK \/ Len(m.chain) < Len(t.RK)
  BY DEF Link, SentOlder
<1>5. Leads(t, s)
  <2>1. SUFFICES ASSUME Leads(s, t) PROVE FALSE
    OBVIOUS
  <2>2. Len(s.RK) = Len(t.RK) + 1
    BY <1>1, <2>1, OneLeads
  <2> QED BY <1>3, <1>4, <2>2
<1>6. Len(t.RK) = Len(s.RK) + 1
  BY <1>1, <1>5, OneLeads
<1>7. m.chain = t.RK
  BY <1>3, <1>4, <1>6
<1> QED BY <1>5, <1>7 DEF Link, Sender

\* The DH ratchet step of s opened m: s leads now, the messages left of the chain
\* that ended and those before m are stored, and those after m are ahead.
LEMMA RatchetLink ==
  ASSUME NEW b \in Bases, NEW s, NEW t, NEW out, NEW acc, NEW K, NEW m \in out, NEW r,
         NEW time \in Nat,
         NEW fresh, Link(s, t, out, acc, K, b), WellFormed(r, b),
         Leads(s, t) \/ Leads(t, s),
         m.rk # s.DHr, ByRatchet(r, s, m, fresh, time)
  PROVE  Link(r, t, out, acc \cup {m}, K, b) /\ Leads(r, t) /\ Leads(t, s)
<1>0. /\ m.rk # NoKey /\ m.counter \in Nat /\ s.Nr \in Nat /\ t.Ns \in Nat
      /\ m.previousCounter \in Nat
      /\ \A l \in out : l.counter \in Nat /\ l.rk # NoKey
      /\ WellFormed(s, b) /\ WellFormed(t, b)
  BY NoKeyAssumption DEF Link, Bodies, KeyPairs, WellFormed
<1>1. /\ m.chain = Append(s.RK, DH(s.DHs, m.rk))
      /\ r.DHs = fresh /\ r.DHr = m.rk /\ r.CKr = m.chain
      /\ r.RK = Append(m.chain, DH(fresh, m.rk))
      /\ r.Nr = m.counter + 1
  BY DEF ByRatchet
<1>2. Leads(t, s) /\ m.rk = t.DHs /\ m.chain = t.RK
  BY <1>1, RatchetMessage
<1>3. /\ m.previousCounter = t.PN /\ m.counter < t.Ns
      /\ t.DHs \notin Mentions(s)
      /\ \A l \in out : l.rk = s.DHr => l.counter < t.PN
  BY <1>2 DEF Link, Sender, Pair
<1>4. /\ s.keys \subseteq r.keys
      /\ \A k \in r.keys :
           \/ k \in s.keys
           \/ k.at = time /\ s.DHr # NoKey /\ k.rk = s.DHr /\ k.chain = s.CKr
           \/ k.at = time /\ k.rk = m.rk /\ k.chain = m.chain
      /\ s.DHr # NoKey =>
           \A i \in s.Nr .. m.previousCounter - 1 : \E k \in r.keys : k.rk = s.DHr /\ k.index = i
      /\ \A i \in 0 .. m.counter - 1 : \E k \in r.keys : k.rk = m.rk /\ k.index = i
      /\ \A x \in r.processed :
           x \in s.processed \/ (s.DHr # NoKey /\ x.rk = s.DHr /\ x.at = time)
      /\ DOMAIN r.chains \subseteq DOMAIN s.chains \cup ({s.DHr} \ {NoKey}) \cup {m.rk}
  BY DEF ByRatchet
<1>5. Leads(r, t)
  BY <1>1, <1>2 DEF Leads, DH
<1>6. ~Leads(t, r)
  BY <1>0, <1>5, OneLeads
<1>7. /\ \A k \in s.keys : k.rk \in Mentions(s) /\ k.at \in Nat
      /\ \A x \in s.processed : x.rk \in Mentions(s) /\ x.at \in Nat
      /\ DOMAIN s.chains \subseteq Mentions(s)
      /\ s.DHr # NoKey => s.DHr \in Mentions(s)
      /\ \A k \in s.keys : k.rk = s.DHr => k.chain = s.CKr
  BY DEF Mentions, Link, Receiver
<1>8. Mentions(r) \subseteq Mentions(s) \cup {m.rk}
  <2>1. \A k \in r.keys : k.rk \in Mentions(s) \cup {m.rk}
    BY <1>4, <1>7
  <2>2. \A x \in r.processed : x.rk \in Mentions(s) \cup {m.rk}
    BY <1>4, <1>7
  <2>3. DOMAIN r.chains \subseteq Mentions(s) \cup {m.rk}
    BY <1>4, <1>7
  <2> HIDE <1>4, <1>7
  <2>4. \A y \in Mentions(r) :
          \/ \E k \in r.keys : y = k.rk
          \/ \E x \in r.processed : y = x.rk
          \/ y \in DOMAIN r.chains \/ y = m.rk
    BY <1>1 DEF Mentions
  <2> QED BY <2>1, <2>2, <2>3, <2>4
<1>9. Receiver(r, K)
  <2>1. m.rk \in K /\ Mentions(s) \subseteq K
    BY DEF Link, Sender, Receiver
  <2>2. \A k \in r.keys : k.at \in Nat /\ (k.rk = r.DHr => k.chain = r.CKr)
    BY <1>1, <1>2, <1>3, <1>4, <1>7
  <2>3. \A x \in r.processed : x.at \in Nat /\ x.rk # r.DHr
    BY <1>1, <1>2, <1>3, <1>4, <1>7
  <2> QED BY <1>8, <2>1, <2>2, <2>3 DEF Receiver
<1>10. ASSUME NEW l \in out \ (acc \cup {m}) PROVE Pending(r, t, l)
  <2>1. Pending(s, t, l)
    BY DEF Link, Pair
  <2>2. ~(l.rk = m.rk /\ l.counter = m.counter)
    BY DEF Link, Sender
  <2>3. CASE InStore(s, l)
    BY <1>4, <2>3 DEF InStore, Pending
  <2>4. CASE Ahead(s, l)
    <3>1. l.rk = s.DHr /\ l.chain = s.CKr /\ s.Nr <= l.counter /\ s.DHr # NoKey
      BY <1>0, <2>4 DEF Ahead
    <3>2. l.counter \in s.Nr .. m.previousCounter - 1
      BY <1>0, <1>3, <3>1
    <3>3. PICK k \in r.keys : k.rk = s.DHr /\ k.index = l.counter
      BY <1>4, <3>1, <3>2
    <3>4. k.chain = s.CKr
      BY <1>4, <1>7, <3>3
    <3> QED BY <3>1, <3>3, <3>4 DEF InStore, Pending
  <2>5. CASE l.rk = t.DHs
    <3>1. l.chain = t.RK
      BY <2>5 DEF Link, Sender
    <3>2. CASE l.counter < m.counter
      <4>1. l.counter \in 0 .. m.counter - 1
        BY <1>0, <3>2
      <4>2. PICK k \in r.keys : k.rk = m.rk /\ k.index = l.counter
        BY <1>4, <4>1
      <4>3. k.chain = m.chain
        BY <1>2, <1>3, <1>4, <1>7, <4>2
      <4> QED BY <1>2, <2>5, <3>1, <4>2, <4>3 DEF InStore, Pending
    <3>3. CASE ~(l.counter < m.counter)
      <4>1. r.Nr <= l.counter
        BY <1>0, <1>1, <1>2, <2>2, <2>5, <3>3
      <4> QED BY <1>1, <1>2, <2>5, <3>1, <4>1 DEF Ahead, Pending
    <3> QED BY <3>2, <3>3
  <2> QED BY <2>1, <2>3, <2>4, <2>5 DEF Pending
<1>11. r.Nr <= t.Ns
  BY <1>0, <1>1, <1>3
<1>12. Pair(r, t, out, acc \cup {m})
  BY <1>6, <1>10, <1>11 DEF Pair
<1> QED BY <1>2, <1>5, <1>9, <1>12 DEF Link

\* The same step seen from the other direction: s begins a sending chain that its
\* peer does not know, and announces how many messages the old one had.
LEMMA RatchetSends ==
  ASSUME NEW b \in Bases, NEW s, NEW t, NEW out, NEW acc, NEW K, NEW r, NEW m \in Bodies,
         NEW time,
         NEW fresh, fresh \notin K, Link(t, s, out, acc, K, b), WellFormed(r, b),
         Leads(t, s), Leads(r, t),
         ByRatchet(r, s, m, fresh, time)
  PROVE  Link(t, r, out, acc, K \cup {fresh}, b)
<1>1. r.DHs = fresh /\ r.PN = s.Ns /\ WellFormed(s, b) /\ WellFormed(t, b)
  BY DEF ByRatchet, Link
<1>2. Len(r.RK) = Len(t.RK) + 1 /\ Len(t.RK) = Len(s.RK) + 1 /\ Len(s.RK) \in Nat
  BY <1>1, OneLeads
<1>3. ~Leads(s, t) /\ ~Leads(t, r)
  BY <1>1, OneLeads
<1>4. \A l \in out : Len(l.chain) \in Nat /\ Len(l.chain) <= Len(s.RK)
  BY <1>2 DEF Link, Bodies, SentOlder
<1>5. SentOlder(r, out)
  BY <1>2, <1>4 DEF SentOlder
<1>6. K \subseteq K \cup {fresh} /\ fresh \notin K
  OBVIOUS
<1>7. Sender(r, out, K \cup {fresh})
  <2>1. \A l \in out : l.chain # r.RK
    BY <1>2, <1>4
  <2>2. \A l \in out : l.rk \in K
    BY DEF Link, Sender
  <2>3. \A m1, l \in out : m1.rk = l.rk /\ m1.counter = l.counter => m1 = l
    BY DEF Link, Sender
  <2> QED BY <1>1, <1>6, <2>1, <2>2, <2>3 DEF Sender
<1>8. Receiver(t, K \cup {fresh})
  BY <1>6 DEF Receiver, Link
<1>9. \A l \in out : l.rk = t.DHr => l.counter < r.PN
  <2>1. t.DHr = s.DHs
    BY DEF Leads
  <2> QED BY <1>1, <2>1 DEF Link, Sender
<1>10. r.DHs \notin Mentions(t)
  BY <1>1, <1>6 DEF Link, Receiver
<1>11. \A l \in out \ acc : Pending(t, r, l)
  BY <1>3 DEF Link, Pair, Pending
<1>12. Pair(t, r, out, acc)
  BY <1>3, <1>9, <1>10, <1>11 DEF Pair
<1> QED BY <1>1, <1>5, <1>7, <1>8, <1>12 DEF Link

\* The other two paths leave the sending side of s as it is.
LEMMA SendingStays ==
  ASSUME NEW b \in Bases, NEW s, NEW t, NEW out, NEW acc, NEW K, NEW r,
         Link(t, s, out, acc, K, b), WellFormed(r, b), SameButNr(r, s)
  PROVE  /\ Link(t, r, out, acc, K, b)
         /\ (Leads(r, t) <=> Leads(s, t)) /\ (Leads(t, r) <=> Leads(t, s))
<1>1. /\ r.DHs = s.DHs /\ r.DHr = s.DHr /\ r.RK = s.RK /\ r.CKs = s.CKs
      /\ r.Ns = s.Ns /\ r.CKr = s.CKr /\ r.PN = s.PN
  BY DEF SameButNr
<1>2. (Leads(r, t) <=> Leads(s, t)) /\ (Leads(t, r) <=> Leads(t, s))
  BY <1>1 DEF Leads
<1>3. Sender(r, out, K) /\ SentOlder(r, out)
  BY <1>1 DEF Link, Sender, SentOlder
<1>4. \A m \in out \ acc : Pending(t, r, m)
  BY <1>1, <1>2 DEF Link, Pair, Pending
<1>5. Pair(t, r, out, acc)
  BY <1>1, <1>2, <1>4 DEF Link, Pair
<1> QED BY <1>2, <1>3, <1>5 DEF Link

\* A successful attempt of device p keeps both directions.
LEMMA OpenedLinks ==
  ASSUME NEW b \in Bases, NEW s, NEW t, NEW in, NEW out, NEW acc, NEW pacc, NEW K, NEW L,
         NEW fresh, fresh \notin L,
         NEW m \in in, NEW r, NEW time \in Nat, WellFormed(r, b),
         Link(s, t, in, acc, K, b), Link(t, s, out, pacc, L, b),
         Leads(s, t) \/ Leads(t, s), Opened(r, s, m, fresh, time)
  PROVE  /\ Link(r, t, in, acc \cup {m}, K, b)
         /\ Link(t, r, out, pacc, IF r.DHs = s.DHs THEN L ELSE L \cup {fresh}, b)
         /\ Leads(r, t) \/ Leads(t, r)
<1>0. s.DHs \in L /\ fresh \notin L
  BY DEF Link, Sender
<1>1. CASE BySkipped(r, s, m)
  <2>1. SameButNr(r, s) /\ r.DHs = s.DHs
    BY <1>1 DEF BySkipped, SameRatchet, SameButNr
  <2>2. Link(r, t, in, acc \cup {m}, K, b)
    BY <1>1, SkippedLink
  <2>3. Link(t, r, out, pacc, L, b) /\ (Leads(r, t) \/ Leads(t, r))
    BY <2>1, SendingStays
  <2> QED BY <2>1, <2>2, <2>3
<1>2. CASE m.rk = s.DHr /\ ByChain(r, s, m, time)
  <2>1. SameButNr(r, s) /\ r.DHs = s.DHs
    BY <1>2 DEF ByChain, SameButNr
  <2>2. Link(r, t, in, acc \cup {m}, K, b)
    BY <1>2, ChainLink
  <2>3. Link(t, r, out, pacc, L, b) /\ (Leads(r, t) \/ Leads(t, r))
    BY <2>1, SendingStays
  <2> QED BY <2>1, <2>2, <2>3
<1>3. CASE m.rk # s.DHr /\ ByRatchet(r, s, m, fresh, time)
  <2>1. Link(r, t, in, acc \cup {m}, K, b) /\ Leads(r, t) /\ Leads(t, s)
    BY <1>3, RatchetLink
  <2>2. r.DHs # s.DHs
    BY <1>0, <1>3 DEF ByRatchet
  <2>3. m \in Bodies
    BY DEF Link
  <2>4. Link(t, r, out, pacc, L \cup {fresh}, b)
    BY <1>3, <2>1, <2>3, RatchetSends
  <2> QED BY <2>1, <2>2, <2>4
<1> QED BY <1>1, <1>2, <1>3 DEF Opened

\* encrypt() with state t: only Ns moves.
SendsOne(r, t) ==
  /\ r.DHs = t.DHs /\ r.DHr = t.DHr /\ r.RK = t.RK /\ r.CKs = t.CKs
  /\ r.Ns = t.Ns + 1 /\ r.CKr = t.CKr /\ r.Nr = t.Nr /\ r.PN = t.PN
  /\ SameStore(r, t)

\* The new message is ahead of its receiver, or on the chain it will derive.
LEMMA SendLink ==
  ASSUME NEW b \in Bases, NEW s, NEW t, NEW out, NEW acc, NEW K, NEW r, NEW m \in Bodies,
         Link(s, t, out, acc, K, b), WellFormed(r, b), Leads(s, t) \/ Leads(t, s),
         SendsOne(r, t), t.CKs = t.RK,
         m.rk = t.DHs, m.chain = t.RK, m.counter = t.Ns, m.previousCounter = t.PN
  PROVE  Link(s, r, out \cup {m}, acc, K, b)
<1>0. /\ WellFormed(s, b) /\ WellFormed(t, b) /\ t.Ns \in Nat /\ out \subseteq Bodies
      /\ \A l \in out : l.counter \in Nat
  BY DEF Link, WellFormed, Bodies
<1>1. /\ r.DHs = t.DHs /\ r.DHr = t.DHr /\ r.RK = t.RK /\ r.CKs = t.CKs
      /\ r.Ns = t.Ns + 1 /\ r.CKr = t.CKr /\ r.PN = t.PN
  BY DEF SendsOne
<1>2. (Leads(r, s) <=> Leads(t, s)) /\ (Leads(s, r) <=> Leads(s, t))
  BY <1>1 DEF Leads
<1>3. /\ t.DHs \in K
      /\ \A l \in out : /\ l.rk \in K
                        /\ l.chain = t.RK <=> l.rk = t.DHs
                        /\ l.rk = t.DHs => l.previousCounter = t.PN /\ l.counter < t.Ns
      /\ \A a, d \in out : a.rk = d.rk /\ a.counter = d.counter => a = d
      /\ SentOlder(t, out)
  BY DEF Link, Sender
<1>4. Sender(r, out \cup {m}, K)
  <2>1. m.rk \in K
    BY <1>3
  <2>2. \A l \in out \cup {m} : /\ l.rk \in K
                                /\ l.chain = r.RK <=> l.rk = r.DHs
                                /\ l.rk = r.DHs => l.previousCounter = r.PN /\ l.counter < r.Ns
    BY <1>0, <1>1, <1>3, <2>1
  <2>3. \A l \in out : ~(l.rk = m.rk /\ l.counter = m.counter)
    BY <1>0, <1>3
  <2>4. \A a, d \in out \cup {m} : a.rk = d.rk /\ a.counter = d.counter => a = d
    BY <1>3, <2>3
  <2> QED BY <1>1, <1>3, <2>2, <2>4 DEF Sender
<1>5. SentOlder(r, out \cup {m})
  BY <1>1, <1>3 DEF SentOlder
<1>6. Pending(s, r, m)
  <2>1. CASE Leads(t, s)
    BY <1>1, <1>2, <2>1 DEF Pending
  <2>2. CASE Leads(s, t)
    <3>1. s.DHr = t.DHs /\ s.CKr = t.RK /\ s.Nr <= t.Ns
      BY <2>2 DEF Leads, Link, Pair
    <3> QED BY <3>1 DEF Pending, Ahead
  <2> QED BY <2>1, <2>2
<1>7. \A l \in out \ acc : Pending(s, r, l)
  BY <1>1, <1>2 DEF Link, Pair, Pending
<1>8. Leads(r, s) => /\ r.DHs \notin Mentions(s)
                     /\ \A l \in out \cup {m} : l.rk = s.DHr => l.counter < r.PN
  <2>1. SUFFICES ASSUME Leads(t, s)
                 PROVE  /\ r.DHs \notin Mentions(s)
                        /\ \A l \in out \cup {m} : l.rk = s.DHr => l.counter < r.PN
    BY <1>2
  <2>2. t.DHs \notin Mentions(s) /\ \A l \in out : l.rk = s.DHr => l.counter < t.PN
    BY <2>1 DEF Link, Pair
  <2>3. m.rk # s.DHr
    <3>1. m.rk # NoKey
      BY NoKeyAssumption DEF Bodies, KeyPairs
    <3> QED BY <2>2, <3>1 DEF Mentions
  <2> QED BY <1>1, <2>2, <2>3
<1>9. Leads(s, r) => s.Nr <= r.Ns
  <2>1. s.Nr \in Nat /\ (Leads(s, t) => s.Nr <= t.Ns)
    BY <1>0 DEF Link, Pair, WellFormed
  <2> QED BY <1>0, <1>1, <1>2, <2>1
<1>10. Pair(s, r, out \cup {m}, acc)
  BY <1>6, <1>7, <1>8, <1>9 DEF Pair
<1>11. Receiver(s, K) /\ out \cup {m} \subseteq Bodies
  BY DEF Link
<1> QED BY <1>0, <1>3, <1>4, <1>5, <1>10, <1>11 DEF Link

\* The sender's own receiving side stays as it is.
LEMMA SendReceives ==
  ASSUME NEW b \in Bases, NEW s, NEW t, NEW in, NEW acc, NEW K, NEW r,
         Link(t, s, in, acc, K, b), WellFormed(r, b), SendsOne(r, t)
  PROVE  /\ Link(r, s, in, acc, K, b)
         /\ (Leads(r, s) <=> Leads(t, s)) /\ (Leads(s, r) <=> Leads(s, t))
<1>1. /\ r.DHs = t.DHs /\ r.DHr = t.DHr /\ r.RK = t.RK /\ r.CKs = t.CKs
      /\ r.CKr = t.CKr /\ r.Nr = t.Nr
      /\ r.keys = t.keys /\ r.processed = t.processed /\ DOMAIN r.chains \subseteq DOMAIN t.chains
  BY DEF SendsOne, SameStore
<1>2. (Leads(r, s) <=> Leads(t, s)) /\ (Leads(s, r) <=> Leads(s, t))
  BY <1>1 DEF Leads
<1>3. Mentions(r) \subseteq Mentions(t)
  BY <1>1 DEF Mentions
<1>4. Receiver(r, K)
  BY <1>1, <1>3 DEF Link, Receiver
<1>5. \A m \in in \ acc : Pending(r, s, m)
  BY <1>1, <1>2 DEF Link, Pair, Pending, InStore, Ahead
<1>6. Pair(r, s, in, acc)
  BY <1>1, <1>2, <1>3, <1>5 DEF Link, Pair
<1> QED BY <1>2, <1>4, <1>6 DEF Link

\* The gap that m opens in state s is one that decrypt() bridges.
Bridged(s, m) ==
  IF s.DHr = m.rk
    THEN m.counter <= MaxSkip + s.Nr
    ELSE /\ m.counter <= MaxSkip
         /\ s.DHr # NoKey => m.previousCounter <= s.Nr + MaxSkip

\* A message in one of the three places is no duplicate, and opens unless the gap
\* before it is too large.  A message of a processed chain has a stored key.
LEMMA PendingOpens ==
  ASSUME NEW b \in Bases, RoomForAll, NEW s, NEW t, NEW out, NEW acc, NEW K, NEW m \in out,
         NEW time \in 0 .. MaxKeyAge, NEW fresh \in KeyPairs,
         Ample(s, K, b), Link(s, t, out, acc, K, b), BoundedMessage(m),
         Pending(s, t, m)
  PROVE  /\ Receive(s, m, fresh, time).result # "duplicate"
         /\ Bridged(s, m) \/ ProcessedChain(s, m.rk) \/ InStore(s, m) =>
              Receive(s, m, fresh, time).result = "ok"
<1> DEFINE c == Cleanup(s, time)
<1>0. /\ m \in Bodies /\ m.counter \in Nat /\ m.rk # NoKey /\ s.Nr \in Nat
      /\ m.counter < MaxCounter /\ m.previousCounter \in Nat /\ time \in Nat
      /\ m.rk \in K /\ MaxSkip \in Nat /\ MaxCounter \in Nat
  BY NoKeyAssumption, RatchetAssumption
     DEF Link, Bodies, KeyPairs, WellFormed, BoundedMessage, Sender
<1>1. SameRatchet(c, s) /\ SameStore(c, s)
  BY CleanupKeeps
<1>2. Ample(c, K, b)
  BY <1>1, CleanupLimits, SameStoreAmple DEF Ample
<1>3. /\ c.DHs = s.DHs /\ c.DHr = s.DHr /\ c.RK = s.RK /\ c.CKr = s.CKr /\ c.Nr = s.Nr
      /\ c.keys = s.keys /\ c.processed = s.processed
  BY <1>1 DEF SameRatchet, SameStore
<1>4. /\ \A k \in s.keys : k.rk = s.DHr => k.chain = s.CKr
      /\ \A x \in s.processed : x.rk # s.DHr
      /\ \A k \in s.keys : k.rk \in Mentions(s)
      /\ \A x \in s.processed : x.rk \in Mentions(s)
      /\ s.DHr # NoKey => s.DHr \in Mentions(s)
  BY DEF Link, Receiver, Mentions
<1> HIDE DEF c
<1>5. CASE InStore(s, m)
  <2>1. \E k \in SkippedKeys(c, m.rk, m.counter) : k.chain = m.chain
    BY <1>3, <1>5 DEF InStore, SkippedKeys, Stored
  <2>2. Receive(s, m, fresh, time) = ReceiveSkipped(c, m)
    BY <2>1 DEF Receive, c
  <2> QED BY <2>1, <2>2 DEF ReceiveSkipped, Accepted
<1>6. CASE ~InStore(s, m) /\ Ahead(s, m)
  <2>1. s.DHr = m.rk /\ s.CKr = m.chain /\ s.Nr <= m.counter
    BY <1>6 DEF Ahead
  <2>2. SkippedKeys(c, m.rk, m.counter) = {}
    BY <1>3, <1>4, <1>6, <2>1 DEF InStore, SkippedKeys, Stored
  <2>3. Receive(s, m, fresh, time) = ReceiveInChain(c, m, time)
    BY <1>0, <1>3, <2>1, <2>2 DEF Receive, c
  <2>4. ReceiveInChain(c, m, time).result # "duplicate"
    BY <1>0, <1>3, <2>1 DEF ReceiveInChain, Refused, Accepted
  <2>5. ~ProcessedChain(s, m.rk)
    BY <1>4, <2>1 DEF ProcessedChain
  <2>6. Bridged(s, m) => ReceiveInChain(c, m, time).result = "ok"
    BY <1>0, <1>3, <2>1 DEF ReceiveInChain, Accepted, Bridged
  <2> QED BY <1>6, <2>3, <2>4, <2>5, <2>6
<1>7. CASE ~InStore(s, m) /\ Leads(t, s) /\ m.rk = t.DHs
  <2>1. t.DHs \notin Mentions(s) /\ m.chain = t.RK
    BY <1>7 DEF Link, Pair, Sender
  <2>2. /\ SkippedKeys(c, m.rk, m.counter) = {} /\ s.DHr # m.rk
        /\ ~ProcessedChain(s, m.rk) /\ ~ProcessedChain(c, m.rk)
    BY <1>0, <1>3, <1>4, <1>7, <2>1 DEF SkippedKeys, Stored, ProcessedChain
  <2>3. Receive(s, m, fresh, time) = ReceiveWithRatchet(c, m, fresh, time)
    BY <1>3, <2>2 DEF Receive, c
  <2> DEFINE d == DHRatchet(CloseChain(c, m, time), m.rk, fresh)
             gap == /\ c.DHr # NoKey /\ c.CKr # NoKey
                    /\ m.previousCounter > 0
                    /\ c.Nr + MaxSkip < m.previousCounter
  <2>4. ReceiveWithRatchet(c, m, fresh, time) =
          IF gap THEN Refused(c, "failed") ELSE ReceiveInChain(d, m, time)
    BY DEF ReceiveWithRatchet
  <2>5. Ratchets(d, c, m, fresh, time)
    BY <1>0, <1>2, RatchetDelivers
  <2> HIDE DEF d
  <2>6. d.Nr = 0 /\ d.CKr = Append(s.RK, DH(s.DHs, m.rk))
    BY <1>3, <2>5 DEF Ratchets
  <2>7. d.CKr = m.chain
    BY <1>7, <2>1, <2>6 DEF Leads
  <2>8. /\ ReceiveInChain(d, m, time).result # "duplicate"
        /\ m.counter <= MaxSkip => ReceiveInChain(d, m, time).result = "ok"
    BY <1>0, <2>6, <2>7 DEF ReceiveInChain, Refused, Accepted
  <2>9. Bridged(s, m) => ~gap /\ m.counter <= MaxSkip
    BY <1>0, <1>3, <2>2 DEF Bridged
  <2>10. Refused(c, "failed").result # "duplicate"
    BY DEF Refused
  <2> HIDE DEF gap
  <2> QED BY <1>7, <2>2, <2>3, <2>4, <2>8, <2>9, <2>10
<1> QED BY <1>5, <1>6, <1>7 DEF Pending

-----------------------------------------------------------------------------
(* Messages of another session.  The ratchet keys of the peer's messages   *)
(* tell its sessions apart, so that no session takes a message of another  *)
(* one for a duplicate.                                                    *)

\* The ratchet keys under which s has received.
Heard(s) == {c.rk : c \in s.processed} \cup ({s.DHr} \ {NoKey})

\* decrypt() calls a message a duplicate only when it has heard of its ratchet key.
LEMMA NoDuplicate ==
  ASSUME NEW b \in Bases, NEW s, WellFormed(s, b), NEW m \in Bodies, NEW fresh, NEW t,
         m.rk \notin Heard(s)
  PROVE  Receive(s, m, fresh, t).result # "duplicate"
<1> DEFINE c == Cleanup(s, t)
           d == DHRatchet(CloseChain(c, m, t), m.rk, fresh)
<1>0. m.rk # NoKey /\ m.counter \in Nat
  BY NoKeyAssumption DEF Bodies
<1>1. SameRatchet(c, s) /\ c.processed \subseteq s.processed
  <2>1. SameRatchet(c, s)
    BY CleanupRemoves
  <2>2. c.processed \subseteq s.processed
    BY DEF Cleanup, WellFormed, Fields
  <2> QED BY <2>1, <2>2
<1>2. c.DHr # m.rk /\ ~ProcessedChain(c, m.rk)
  BY <1>0, <1>1 DEF Heard, SameRatchet, ProcessedChain
<1>3. d.Nr = 0
  <2>1. WellFormed(c, b)
    <3>1. Erased(s, {}) /\ c.keys \subseteq s.keys
      BY CleanupRemoves DEF Erased
    <3> QED BY <1>1, <3>1, LosingKeys
  <2> DEFINE e == CloseChain(c, m, t)
  <2> HIDE DEF c
  <2>2. SameRatchet(e, c)
    BY <2>1, CloseChainAdds
  <2> HIDE DEF e
  <2>3. DHRatchet(e, m.rk, fresh).Nr = 0
    BY <2>2 DEF DHRatchet, SameRatchet, Fields
  <2> QED BY <2>3 DEF e
<1> HIDE DEF c, d
<1>4. ReceiveSkipped(c, m).result # "duplicate"
  BY DEF ReceiveSkipped, Refused, Accepted
<1>5. ReceiveInChain(d, m, t).result # "duplicate"
  BY <1>0, <1>3 DEF ReceiveInChain, Refused, Accepted
<1>6. ReceiveWithRatchet(c, m, fresh, t).result # "duplicate"
  BY <1>5 DEF ReceiveWithRatchet, Refused, d
<1> QED BY <1>2, <1>4, <1>6 DEF Receive, c

\* What an attempt comes to.
LEMMA ReceiveResults ==
  ASSUME NEW s, NEW m, NEW fresh, NEW t
  PROVE  Receive(s, m, fresh, t).result \in {"ok", "failed", "duplicate"}
<1>1. ASSUME NEW u
      PROVE  ReceiveInChain(u, m, t).result \in {"ok", "failed", "duplicate"}
  BY DEF ReceiveInChain, Refused, Accepted
<1>2. ASSUME NEW u
      PROVE  ReceiveWithRatchet(u, m, fresh, t).result \in {"ok", "failed", "duplicate"}
  BY <1>1 DEF ReceiveWithRatchet, Refused
<1>3. ASSUME NEW u
      PROVE  ReceiveSkipped(u, m).result \in {"ok", "failed", "duplicate"}
  BY DEF ReceiveSkipped, Refused, Accepted
<1>4. ASSUME NEW u
      PROVE  Refused(u, "duplicate").result \in {"ok", "failed", "duplicate"}
  BY DEF Refused
<1> QED BY <1>1, <1>2, <1>3, <1>4 DEF Receive

\* storeMessageKeyInChain() leaves the processed chains alone.
LEMMA StoreKeysProcessed ==
  ASSUME NEW b \in Bases, NEW s, NEW until, NEW t, WellFormed(s, b)
  PROVE  StoreKeys(s, until, t).processed = s.processed
<1> DEFINE c == ReceiverChain(s, s.DHr)
<1>1. c.processed = s.processed /\ DOMAIN c = Fields
  BY DEF ReceiverChain, AddChain, WellFormed, Fields
<1> HIDE DEF c
<1> QED BY <1>1 DEF StoreKeys, c, Fields

\* The receiving chain and a stored key teach no ratchet key.
LEMMA ChainHeard ==
  ASSUME NEW b \in Bases, NEW s, NEW m \in Bodies, NEW t, WellFormed(s, b),
         ReceiveInChain(s, m, t).result = "ok"
  PROVE  /\ Heard(ReceiveInChain(s, m, t).session) = Heard(s)
         /\ ReceiveInChain(s, m, t).session.DHs = s.DHs
<1> DEFINE u == StoreKeys(s, m.counter, t)
           r == [u EXCEPT !.Nr = m.counter + 1]
<1>1. ReceiveInChain(s, m, t).session = r
  BY DEF ReceiveInChain, Refused, Accepted
<1>2. SameRatchet(u, s) /\ u.processed = s.processed
  <2>1. m.counter \in Nat
    BY DEF Bodies
  <2> QED BY <2>1, StoreKeysAdds, StoreKeysProcessed
<1> HIDE DEF u
<1>3. r.processed = s.processed /\ r.DHr = s.DHr /\ r.DHs = s.DHs
  BY <1>2 DEF SameRatchet, Fields
<1> QED BY <1>1, <1>3 DEF Heard

\* A message received adds at most its own ratchet key to what was heard.
LEMMA ReceiveHeard ==
  ASSUME NEW b \in Bases, NEW s, WellFormed(s, b), NEW m \in Bodies, NEW fresh \in KeyPairs,
         NEW t, Receive(s, m, fresh, t).result = "ok"
  PROVE  /\ Heard(Receive(s, m, fresh, t).session) \subseteq Heard(s) \cup {m.rk}
         /\ Receive(s, m, fresh, t).session.DHs \in {s.DHs, fresh}
<1> DEFINE c == Cleanup(s, t)
           e == CloseChain(c, m, t)
           d == DHRatchet(e, m.rk, fresh)
<1>1. SameRatchet(c, s) /\ c.processed \subseteq s.processed /\ c.keys \subseteq s.keys
  <2>1. SameRatchet(c, s) /\ c.keys \subseteq s.keys
    BY CleanupRemoves
  <2>2. c.processed \subseteq s.processed
    BY DEF Cleanup, WellFormed, Fields
  <2> QED BY <2>1, <2>2
<1>2. WellFormed(c, b) /\ Erased(c, {})
  <2>1. Erased(s, {})
    BY DEF Erased
  <2> QED BY <1>1, <2>1, LosingKeys
<1>3. Heard(c) \subseteq Heard(s) /\ c.DHs = s.DHs
  BY <1>1 DEF Heard, SameRatchet
<1> HIDE DEF c
<1>4. CASE SkippedKeys(c, m.rk, m.counter) # {}
  <2> DEFINE r == ConsumeSkipped(c, m.rk, m.counter)
  <2>1. Receive(s, m, fresh, t).session = r
    BY <1>4 DEF Receive, c, ReceiveSkipped, Accepted, Refused
  <2>2. r.processed = c.processed /\ r.DHr = c.DHr /\ r.DHs = c.DHs
    BY <1>2 DEF ConsumeSkipped, WellFormed, Fields
  <2> HIDE DEF r
  <2> QED BY <1>3, <2>1, <2>2 DEF Heard
<1>5. CASE SkippedKeys(c, m.rk, m.counter) = {} /\ c.DHr # NoKey /\ c.DHr = m.rk
  <2>1. Receive(s, m, fresh, t) = ReceiveInChain(c, m, t)
    BY <1>5 DEF Receive, c
  <2>2. ReceiveInChain(c, m, t).result = "ok"
    BY <2>1
  <2> QED BY <1>2, <1>3, <2>1, <2>2, ChainHeard
<1>6. CASE /\ SkippedKeys(c, m.rk, m.counter) = {}
           /\ c.DHr = NoKey \/ (c.DHr # m.rk /\ ~ProcessedChain(c, m.rk))
  <2>1. Receive(s, m, fresh, t) = ReceiveInChain(d, m, t)
    BY <1>6 DEF Receive, c, ReceiveWithRatchet, Refused
  <2>2. WellFormed(d, b)
    <3>1. {} \in SUBSET Bodies
      OBVIOUS
    <3> QED BY <1>2, <3>1, RatchetIsFresh
  <2>3. SameRatchet(e, c)
    BY <1>2, CloseChainAdds
  <2>4. \A x \in e.processed : x \in c.processed \/ (c.DHr # NoKey /\ x.rk = c.DHr)
    <3>1. CASE c.DHr = NoKey \/ m.previousCounter = 0 \/ c.CKr = NoKey
      BY <3>1 DEF CloseChain
    <3>2. CASE ~(c.DHr = NoKey \/ m.previousCounter = 0 \/ c.CKr = NoKey)
      <4> DEFINE u == StoreKeys(c, m.previousCounter, t)
                 proc == {q \in u.processed : q.rk # c.DHr} \cup {[rk |-> c.DHr, at |-> t]}
      <4>1. u.processed = c.processed /\ DOMAIN u = Fields
        <5>1. m.previousCounter \in Nat
          BY DEF Bodies
        <5> QED BY <1>2, <5>1, StoreKeysProcessed, StoreKeysAdds DEF SameRatchet
      <4>2. e = [u EXCEPT !.processed = proc]
        BY <3>2 DEF CloseChain
      <4>3. \A x \in proc : x \in u.processed \/ x.rk = c.DHr
        OBVIOUS
      <4> HIDE DEF u, proc, e
      <4>4. e.processed = proc
        BY <4>1, <4>2 DEF Fields
      <4> QED BY <3>2, <4>1, <4>3, <4>4
    <3> QED BY <3>1, <3>2
  <2> HIDE DEF e
  <2>5. d.processed = e.processed /\ d.DHr = m.rk /\ d.DHs = fresh
    BY <2>3 DEF DHRatchet, SameRatchet, Fields
  <2> HIDE DEF d
  <2>6. Heard(d) \subseteq Heard(c) \cup {m.rk}
    BY <2>4, <2>5 DEF Heard
  <2>7. ReceiveInChain(d, m, t).result = "ok"
    BY <2>1
  <2>8. /\ Heard(ReceiveInChain(d, m, t).session) = Heard(d)
        /\ ReceiveInChain(d, m, t).session.DHs = d.DHs
    BY <2>2, <2>7, ChainHeard
  <2> QED BY <1>3, <2>1, <2>5, <2>6, <2>8
<1>7. CASE /\ SkippedKeys(c, m.rk, m.counter) = {}
           /\ c.DHr # NoKey /\ c.DHr # m.rk /\ ProcessedChain(c, m.rk)
  BY <1>7 DEF Receive, c, Refused
<1> QED BY <1>4, <1>5, <1>6, <1>7

-----------------------------------------------------------------------------
(* The first messages.  A device that has not received on its present      *)
(* chain is the initiator before its first answer, and its peer has ended  *)
(* no chain then.                                                          *)

Early(s, t) ==
  s.Nr = 0 /\ s.DHr # NoKey => t.PN = 0 /\ (Leads(s, t) => t.DHr = NoKey /\ t.Ns = 0)

\* decrypt() keeps that, in both directions.
LEMMA OpenedEarly ==
  ASSUME NEW b \in Bases, NEW s, NEW t, NEW out, NEW acc, NEW K, NEW m \in out, NEW r,
         NEW fresh, NEW time \in Nat, Link(s, t, out, acc, K, b), WellFormed(r, b),
         Leads(s, t) \/ Leads(t, s), Opened(r, s, m, fresh, time), Early(s, t), Early(t, s)
  PROVE  Early(r, t) /\ Early(t, r)
<1>0. m.counter \in Nat /\ WellFormed(t, b)
  BY DEF Link, Bodies
<1>1. CASE BySkipped(r, s, m)
  BY <1>1 DEF BySkipped, SameRatchet, Early, Leads
<1>2. CASE m.rk = s.DHr /\ ByChain(r, s, m, time)
  <2>1. r.Nr # 0
    BY <1>0, <1>2 DEF ByChain
  <2>2. Early(t, r)
    BY <1>2 DEF ByChain, SameButNr, Early, Leads
  <2> QED BY <2>1, <2>2 DEF Early
<1>3. CASE m.rk # s.DHr /\ ByRatchet(r, s, m, fresh, time)
  <2>1. r.Nr # 0 /\ r.PN = s.Ns
    BY <1>0, <1>3 DEF ByRatchet
  <2>2. Leads(r, t) /\ Leads(t, s)
    BY <1>3, RatchetLink
  <2>3. ~Leads(t, r)
    BY <1>0, <2>2, OneLeads
  <2> QED BY <2>1, <2>2, <2>3 DEF Early
<1> QED BY <1>1, <1>2, <1>3 DEF Opened

\* encrypt() keeps that, in both directions.
LEMMA SentEarly ==
  ASSUME NEW s, NEW t, NEW r, SendsOne(r, t), t.DHr # NoKey, Early(s, t), Early(t, s)
  PROVE  Early(s, r) /\ Early(r, s)
  BY DEF SendsOne, Early, Leads


-----------------------------------------------------------------------------
(* The ratchet keys of a device.                                           *)

\* The keys that device p, which generated n ratchet key pairs, may use in a session
\* with base key b.
KeysOf(p, b, n) ==
  {IF Owner(b) = p THEN b ELSE SignedPreKey(p)} \cup {<<p, "ratchet", i>> : i \in 1 .. n}

\* They are finitely many.
LEMMA KeysFinite ==
  ASSUME NEW p, NEW b, NEW n \in Nat
  PROVE  IsFiniteSet(KeysOf(p, b, n)) /\ Cardinality(KeysOf(p, b, n)) <= n + 1
<1> DEFINE f == [i \in 1 .. n |-> <<p, "ratchet", i>>]
           R == {f[i] : i \in 1 .. n}
           k == IF Owner(b) = p THEN b ELSE SignedPreKey(p)
<1>1. IsFiniteSet(1 .. n) /\ Cardinality(1 .. n) = n
  <2>1. 0 \in Int /\ 1 \in Int /\ n \in Int
    OBVIOUS
  <2> QED BY <2>1, FS_Interval
<1>2. IsFiniteSet(R) /\ Cardinality(R) <= n
  <2> DEFINE S == 1 .. n
  <2>1. f \in Surjection(S, R)
    BY DEF Surjection
  <2> HIDE DEF f, R, S
  <2> QED BY <1>1, <2>1, FS_Surjection DEF S
<1>3. KeysOf(p, b, n) = R \cup {k}
  BY DEF KeysOf
<1> HIDE DEF R, k
<1>4. IsFiniteSet(R \cup {k}) /\ Cardinality(R \cup {k}) \in {Cardinality(R), Cardinality(R) + 1}
  BY <1>2, FS_AddElement
<1>5. Cardinality(R) \in Nat
  BY <1>2, FS_CardinalityType
<1> QED BY <1>2, <1>3, <1>4, <1>5

\* A new key pair is none of them, and makes one more.
LEMMA KeysGrow ==
  ASSUME NEW p, NEW b \in Bases, NEW n \in Nat
  PROVE  /\ <<p, "ratchet", n + 1>> \notin KeysOf(p, b, n)
         /\ KeysOf(p, b, n + 1) = KeysOf(p, b, n) \cup {<<p, "ratchet", n + 1>>}
<1>1. b[2] = "ephemeral"
  BY DEF Bases
<1>2. \A i \in 1 .. n : <<p, "ratchet", n + 1>> # <<p, "ratchet", i>>
  OBVIOUS
<1>3. <<p, "ratchet", n + 1>>[2] = "ratchet" /\ SignedPreKey(p)[2] = "signed"
  BY DEF SignedPreKey
<1>4. <<p, "ratchet", n + 1>> \notin KeysOf(p, b, n)
  BY <1>1, <1>2, <1>3 DEF KeysOf
<1>5. 1 .. (n + 1) = 1 .. n \cup {n + 1}
  OBVIOUS
<1> QED BY <1>4, <1>5 DEF KeysOf

\* A device that knows more keys has the same view of the messages.
LEMMA LinkGrows ==
  ASSUME NEW s, NEW t, NEW out, NEW acc, NEW K, NEW L, NEW b, K \subseteq L,
         Link(s, t, out, acc, K, b)
  PROVE  Link(s, t, out, acc, L, b)
<1>1. Sender(t, out, L)
  BY DEF Link, Sender
<1>2. Receiver(s, L)
  BY DEF Link, Receiver
<1> QED BY <1>1, <1>2 DEF Link

\* A device keeps its keys.
LEMMA KeysStay ==
  ASSUME NEW p, NEW b, NEW n \in Nat, NEW k \in Nat, n <= k
  PROVE  KeysOf(p, b, n) \subseteq KeysOf(p, b, k)
<1>1. 1 .. n \subseteq 1 .. k
  OBVIOUS
<1> QED BY <1>1 DEF KeysOf

-----------------------------------------------------------------------------
(* One base key.  Its session has one state at each device, in the record  *)
(* or not there yet, and these two are linked in both directions.          *)

\* All sessions of rec with base key b are in state s.
OnlyState(rec, b, s) == \A c \in SessionsIn(rec) : c.base = b => c.ratchet = s

\* Device p is in state s of the session with base key b, its peer in state t; rec,
\* con and acc are the record, the consumed base keys and the accepted messages of
\* p, inn the messages of the peer and n the ratchet keys that the peer generated.
Half(p, b, s, t, rec, con, inn, acc, n) ==
  /\ Link(s, t, BodiesOf(inn, b), BodiesOf(acc, b), KeysOf(Peer(p), b, n), b)
  /\ Early(s, t) /\ Bounded(s) /\ WithinLimits(s)
  /\ \A m \in inn : m.base = b => BoundedMessage(m.body)
  /\ \A m, l \in inn : m.base = b /\ l.base = b /\ m.body = l.body => m = l
  /\ OnlyState(rec, b, s)
  /\ Owner(b) # p /\ b \notin con => s = ResponderSession(Secret(b), SignedPreKey(p))

\* The state of p has room for the keys of its peer.
LEMMA HalfAmple ==
  ASSUME RoomForAll, NEW p, NEW b, NEW s, NEW t, NEW rec, NEW con, NEW inn, NEW acc,
         NEW n \in Nat, n <= MaxRatchets, Half(p, b, s, t, rec, con, inn, acc, n)
  PROVE  Ample(s, KeysOf(Peer(p), b, n), b)
<1> DEFINE K == KeysOf(Peer(p), b, n)
<1>1. IsFiniteSet(K) /\ Cardinality(K) <= n + 1
  BY KeysFinite
<1> HIDE DEF K
<1>2. Cardinality(K) \in Nat
  BY <1>1, FS_CardinalityType
<1>3. Cardinality(K) <= MaxReceiverChains
  BY <1>1, <1>2, RatchetAssumption, BoundsAssumption DEF RoomForAll
<1>4. WellFormed(s, b) /\ Receiver(s, K) /\ Bounded(s) /\ WithinLimits(s)
  BY DEF Half, Link, K
<1>5. Room(s, K)
  BY <1>1, <1>3, <1>4 DEF Room, Receiver
<1> QED BY <1>4, <1>5 DEF Ample, K

\* The messages with base key b.
Of(ms, b) == {m \in ms : m.base = b}

\* The record r has no session with base key b that rec does not have.
Keeps(r, rec, b) ==
  \A x \in SessionsIn(r) : x.base = b =>
    \E c \in SessionsIn(rec) : c.base = b /\ c.ratchet = x.ratchet

\* What is known of a base key stays true while nothing happens to its sessions.
LEMMA HalfKeeps ==
  ASSUME NEW p, NEW b, NEW s, NEW t, NEW rec, NEW con, NEW inn, NEW acc, NEW n \in Nat,
         NEW rec2, NEW con2, NEW inn2, NEW acc2, NEW n2 \in Nat,
         Half(p, b, s, t, rec, con, inn, acc, n), Keeps(rec2, rec, b),
         con \subseteq con2, Of(inn2, b) = Of(inn, b), Of(acc2, b) = Of(acc, b), n <= n2
  PROVE  Half(p, b, s, t, rec2, con2, inn2, acc2, n2)
<1>1. BodiesOf(inn2, b) = BodiesOf(inn, b) /\ BodiesOf(acc2, b) = BodiesOf(acc, b)
  BY DEF BodiesOf, Of
<1>2. Link(s, t, BodiesOf(inn, b), BodiesOf(acc, b), KeysOf(Peer(p), b, n2), b)
  <2>1. KeysOf(Peer(p), b, n) \subseteq KeysOf(Peer(p), b, n2)
    BY KeysStay
  <2>2. Link(s, t, BodiesOf(inn, b), BodiesOf(acc, b), KeysOf(Peer(p), b, n), b)
    BY DEF Half
  <2> QED BY <2>1, <2>2, LinkGrows
<1>3. \A m \in inn2 : m.base = b => m \in inn
  BY DEF Of
<1>4. /\ \A m \in inn2 : m.base = b => BoundedMessage(m.body)
      /\ \A m, l \in inn2 : m.base = b /\ l.base = b /\ m.body = l.body => m = l
  BY <1>3 DEF Half
<1>5. OnlyState(rec2, b, s)
  BY DEF Half, Keeps, OnlyState
<1>6. /\ Owner(b) # p /\ b \notin con2 => s = ResponderSession(Secret(b), SignedPreKey(p))
      /\ Early(s, t) /\ Bounded(s) /\ WithinLimits(s)
  BY DEF Half
<1> QED BY <1>1, <1>2, <1>4, <1>5, <1>6 DEF Half

\* startSession(): the states of initiator and responder.
LEMMA StartLinks ==
  ASSUME NEW b \in Bases, NEW p \in Parties, Owner(b) = p, NEW s, NEW t, NEW n, NEW k,
         s = InitiatorSession(Secret(b), b, SignedPreKey(Peer(p))),
         t = ResponderSession(Secret(b), SignedPreKey(Peer(p)))
  PROVE  /\ Link(s, t, {}, {}, KeysOf(Peer(p), b, n), b)
         /\ Link(t, s, {}, {}, KeysOf(p, b, k), b)
         /\ Leads(s, t) /\ Early(s, t) /\ Early(t, s)
         /\ Bounded(s) /\ Bounded(t) /\ WithinLimits(s) /\ WithinLimits(t)
<1> DEFINE x == Secret(b)
           q == Peer(p)
           k0 == SignedPreKey(q)
           root == KdfRootKey(<<x>>, DH(b, k0))
<1>0. q \in Parties /\ q # p
  BY Peers
<1>1. WellFormed(s, b) /\ WellFormed(t, b)
  BY <1>0, InitiatorOK, ResponderOK
<1>2. /\ DOMAIN s = Fields /\ s.DHs = b /\ s.DHr = k0 /\ s.RK = root /\ s.CKs = root
      /\ s.Ns = 0 /\ s.Nr = 0 /\ s.PN = 0 /\ s.keys = {} /\ s.processed = {}
      /\ s.chains = NoChains
  BY DEF InitiatorSession, Fields
<1>3. /\ DOMAIN t = Fields /\ t.DHs = k0 /\ t.DHr = NoKey /\ t.RK = <<x>> /\ t.CKs = NoKey
      /\ t.Ns = 0 /\ t.Nr = 0 /\ t.PN = 0 /\ t.keys = {} /\ t.processed = {}
      /\ t.chains = NoChains
  BY DEF ResponderSession, Fields
<1>4. k0 \in KeyPairs /\ b \in KeyPairs /\ NoKey \notin KeyPairs
  BY <1>0, NoKeyAssumption DEF KeyPairs, Bases, SignedPreKey
<1>5. b \in KeysOf(p, b, k) /\ k0 \in KeysOf(q, b, n)
  BY <1>0 DEF KeysOf
<1>6. DOMAIN NoChains = {}
  BY DEF NoChains
<1>7. t.CKs # t.RK
  <2>1. x \in ({"SK"} \X Bases) \cup {"CK"} \cup SUBSET KeyPairs
    BY DEF Secret
  <2>2. <<x>> \in Seq(({"SK"} \X Bases) \cup {"CK"} \cup SUBSET KeyPairs)
    BY <2>1
  <2> QED BY <1>3, <2>2, NoKeyAssumption
<1>8. Leads(s, t)
  <2>1. DH(t.DHs, s.DHs) = DH(b, k0)
    BY <1>2, <1>3 DEF DH
  <2>2. s.RK = Append(t.RK, DH(t.DHs, s.DHs))
    BY <1>2, <1>3, <2>1 DEF KdfRootKey
  <2> QED BY <1>2, <1>3, <1>7, <2>2 DEF Leads
<1>9. ~Leads(t, s)
  BY <1>1, <1>8, OneLeads
<1>10. Mentions(s) = {k0} /\ Mentions(t) = {}
  BY <1>2, <1>3, <1>4, <1>6 DEF Mentions
<1> HIDE DEF k0, root, x, q
<1>11. Link(s, t, {}, {}, KeysOf(q, b, n), b)
  BY <1>1, <1>2, <1>3, <1>5, <1>9, <1>10 DEF Link, SentOlder, Sender, Receiver, Pair
<1>12. Link(t, s, {}, {}, KeysOf(p, b, k), b)
  BY <1>1, <1>2, <1>3, <1>5, <1>9, <1>10 DEF Link, SentOlder, Sender, Receiver, Pair
<1>13. Early(s, t) /\ Early(t, s)
  BY <1>2, <1>3 DEF Early
<1>14. Bounded(s) /\ Bounded(t)
  BY <1>2, <1>3, <1>4, RatchetAssumption DEF Bounded
<1>15. WithinLimits(s) /\ WithinLimits(t)
  <2>1. IsFiniteSet({}) /\ Cardinality({}) = 0
    BY FS_EmptySet
  <2>2. Numbered(NoChains)
    BY <1>6, <2>1 DEF Numbered, OneToOne
  <2>3. DistinctKeys({})
    BY <2>1 DEF DistinctKeys
  <2> QED BY <1>2, <1>3, <1>6, <2>1, <2>2, <2>3, RatchetAssumption DEF WithinLimits
<1> QED BY <1>8, <1>11, <1>12, <1>13, <1>14, <1>15 DEF q

\* encrypt() with a session that has room: only the counter of the sending chain moves.
LEMMA SendCounts ==
  ASSUME RoomForAll, NEW b \in Bases, NEW s, NEW K, Ample(s, K, b), CanSend(s),
         ~SendOverflows(s)
  PROVE  /\ SendsOne(AfterSend(Cleanup(s, 0)), s) /\ WellFormed(AfterSend(Cleanup(s, 0)), b)
         /\ Bounded(AfterSend(Cleanup(s, 0))) /\ WithinLimits(AfterSend(Cleanup(s, 0)))
         /\ BoundedMessage(MessageOf(s)) /\ MessageOf(s) \in Bodies /\ s.CKs = s.RK
<1> DEFINE c == Cleanup(s, 0)
           r == AfterSend(c)
<1>0. WellFormed(s, b) /\ Bounded(s) /\ WithinLimits(s)
  BY DEF Ample
<1>1. SameRatchet(c, s) /\ SameStore(c, s)
  <2>1. 0 \in 0 .. MaxKeyAge
    BY RatchetAssumption
  <2> QED BY <2>1, CleanupKeeps
<1>2. WithinLimits(c)
  BY <1>0, CleanupLimits
<1>3. WellFormed(r, b) /\ MessageOf(s) \in Bodies
  BY <1>0, SendOK
<1>4. s.CKs = s.RK /\ s.Ns \in Nat /\ s.Ns < MaxCounter /\ s.DHr # NoKey
  BY <1>0, RatchetAssumption DEF WellFormed, CanSend, SendOverflows
<1> HIDE DEF c
<1>5. /\ r.Ns = c.Ns + 1 /\ r.DHs = c.DHs /\ r.DHr = c.DHr /\ r.RK = c.RK /\ r.CKs = c.CKs
      /\ r.CKr = c.CKr /\ r.Nr = c.Nr /\ r.PN = c.PN /\ r.keys = c.keys
      /\ r.processed = c.processed /\ r.chains = c.chains
  BY <1>1 DEF AfterSend, SameRatchet, Fields
<1> HIDE DEF r
<1>6. SendsOne(r, s)
  BY <1>1, <1>5 DEF SendsOne, SameRatchet, SameStore
<1>7. Bounded(r)
  BY <1>0, <1>1, <1>4, <1>5, RatchetAssumption DEF Bounded, SameRatchet, SameStore
<1>8. WithinLimits(r)
  BY <1>2, <1>5 DEF WithinLimits, Stored
<1>9. BoundedMessage(MessageOf(s))
  BY <1>0, <1>4 DEF BoundedMessage, MessageOf, Bounded
<1> QED BY <1>3, <1>4, <1>6, <1>7, <1>8, <1>9 DEF r, c

\* encrypt() in state s makes m, and r of the state.
SendsFrom(s, m, r, b) ==
  /\ CanSend(s) /\ ~SendOverflows(s)
  /\ m.base = b /\ m.body = MessageOf(s) /\ r = AfterSend(Cleanup(s, 0))

\* encrypt() keeps both directions.
LEMMA SendHalves ==
  ASSUME RoomForAll, NEW p \in Parties, NEW b \in Bases, NEW s, NEW t,
         NEW rec, NEW con, NEW inn, NEW acc, NEW n \in Nat, n <= MaxRatchets,
         NEW prec, NEW pcon, NEW out, NEW pacc, NEW k,
         Half(p, b, s, t, rec, con, inn, acc, n),
         Half(Peer(p), b, t, s, prec, pcon, out, pacc, k),
         Leads(s, t) \/ Leads(t, s), NEW m, NEW r, SendsFrom(s, m, r, b),
         NEW rec2, OnlyState(rec2, b, r), Owner(b) # p => b \in con
  PROVE  /\ Half(p, b, r, t, rec2, con, inn, acc, n)
         /\ Half(Peer(p), b, t, r, prec, pcon, out \cup {m}, pacc, k)
         /\ Leads(r, t) \/ Leads(t, r)
<1> DEFINE K == KeysOf(Peer(p), b, n)
           L == KeysOf(p, b, k)
           in == BodiesOf(inn, b)
           ot == BodiesOf(out, b)
           A == BodiesOf(acc, b)
           B == BodiesOf(pacc, b)
<1>0. Peer(Peer(p)) = p
  BY Peers
<1>1. Ample(s, K, b)
  BY HalfAmple
<1>2. /\ SendsOne(r, s) /\ WellFormed(r, b) /\ Bounded(r) /\ WithinLimits(r)
      /\ BoundedMessage(m.body) /\ m.body \in Bodies /\ s.CKs = s.RK
  <2>1. CanSend(s) /\ ~SendOverflows(s) /\ m.body = MessageOf(s) /\ r = AfterSend(Cleanup(s, 0))
    BY DEF SendsFrom
  <2> HIDE DEF K
  <2> QED BY <1>1, <2>1, SendCounts
<1>3. Link(s, t, in, A, K, b) /\ Link(t, s, ot, B, L, b)
  BY <1>0 DEF Half
<1>4. /\ m.body.rk = s.DHs /\ m.body.counter = s.Ns /\ m.body.previousCounter = s.PN
      /\ m.body.chain = s.RK
  BY <1>2 DEF MessageOf, SendsFrom
<1>5. BodiesOf(out \cup {m}, b) = ot \cup {m.body}
  BY BodiesAdded DEF SendsFrom
<1>6. s.DHr # NoKey
  BY DEF CanSend, SendsFrom
<1>7. /\ Early(s, t) /\ Early(t, s)
      /\ \A x \in inn : x.base = b => BoundedMessage(x.body)
      /\ \A x, l \in inn : x.base = b /\ l.base = b /\ x.body = l.body => x = l
      /\ \A x \in out : x.base = b => BoundedMessage(x.body)
      /\ \A x, l \in out : x.base = b /\ l.base = b /\ x.body = l.body => x = l
      /\ OnlyState(prec, b, t)
      /\ Bounded(t) /\ WithinLimits(t)
      /\ Owner(b) # Peer(p) /\ b \notin pcon =>
           t = ResponderSession(Secret(b), SignedPreKey(Peer(p)))
  BY DEF Half
<1>8. m.body \notin ot
  <2>1. \A x \in ot : x.rk = s.DHs => x.counter < s.Ns
    BY <1>3 DEF Link, Sender
  <2>2. s.Ns \in Nat
    BY <1>3 DEF Link, WellFormed
  <2> HIDE DEF ot
  <2> QED BY <1>4, <2>1, <2>2
<1>9. \A x \in out : x.base = b => x.body # m.body
  BY <1>8 DEF BodiesOf
<1> HIDE DEF K, L, in, ot, A, B
<1>10. Link(r, t, in, A, K, b) /\ (Leads(r, t) \/ Leads(t, r))
  BY <1>2, <1>3, SendReceives
<1>11. Link(t, r, ot \cup {m.body}, B, L, b)
  <2> DEFINE x == m.body
  <2>1. x \in Bodies /\ x.rk = s.DHs /\ x.chain = s.RK /\ x.counter = s.Ns /\ x.previousCounter = s.PN
    BY <1>2, <1>4
  <2> HIDE DEF x
  <2>2. Link(t, r, ot \cup {x}, B, L, b)
    BY <1>2, <1>3, <2>1, SendLink
  <2> QED BY <2>2 DEF x
<1>12. Early(t, r) /\ Early(r, t)
  BY <1>2, <1>6, <1>7, SentEarly
<1>13. Half(p, b, r, t, rec2, con, inn, acc, n)
  BY <1>2, <1>7, <1>10, <1>12 DEF Half, K, in, A
<1>14. /\ \A x \in out \cup {m} : x.base = b => BoundedMessage(x.body)
       /\ \A x, l \in out \cup {m} : x.base = b /\ l.base = b /\ x.body = l.body => x = l
  <2>1. \A x \in out \cup {m} : x.base = b => BoundedMessage(x.body)
    BY <1>2, <1>7
  <2>2. ASSUME NEW x \in out \cup {m}, NEW l \in out \cup {m}, x.base = b, l.base = b,
               x.body = l.body
        PROVE  x = l
    BY <1>7, <1>9, <2>2
  <2> QED BY <2>1, <2>2
<1>15. Half(Peer(p), b, t, r, prec, pcon, out \cup {m}, pacc, k)
  <2> DEFINE out2 == out \cup {m}
  <2>1. Link(t, r, BodiesOf(out2, b), BodiesOf(pacc, b), KeysOf(Peer(Peer(p)), b, k), b)
    BY <1>0, <1>5, <1>11 DEF L, B
  <2>2. /\ \A x \in out2 : x.base = b => BoundedMessage(x.body)
        /\ \A x, l \in out2 : x.base = b /\ l.base = b /\ x.body = l.body => x = l
    BY <1>14
  <2> HIDE DEF out2
  <2>3. Half(Peer(p), b, t, r, prec, pcon, out2, pacc, k)
    BY <1>7, <1>12, <2>1, <2>2 DEF Half
  <2> QED BY <2>3 DEF out2
<1> QED BY <1>10, <1>13, <1>15

\* decrypt() in state s opens m with the key pair fresh, and makes r of the state.
OpensTo(s, m, fresh, r, b) ==
  /\ m.base = b
  /\ Receive(s, m.body, fresh, 0).result = "ok" /\ r = Receive(s, m.body, fresh, 0).session
  /\ WellFormed(r, b)

\* The count of key pairs after k of them, when fresh is the next one.
Counts(k2, k, r, fresh) == k2 = k + 1 \/ (k2 = k /\ r.DHs # fresh)

\* decrypt() keeps both directions.
LEMMA OpenHalves ==
  ASSUME RoomForAll, NEW p \in Parties, NEW b \in Bases, NEW s, NEW t,
         NEW rec, NEW con, NEW inn, NEW acc, NEW n \in Nat, n <= MaxRatchets,
         NEW prec, NEW pcon, NEW out, NEW pacc, NEW k \in Nat, NEW k2 \in Nat,
         Half(p, b, s, t, rec, con, inn, acc, n),
         Half(Peer(p), b, t, s, prec, pcon, out, pacc, k),
         Leads(s, t) \/ Leads(t, s), NEW m \in inn, NEW r,
         OpensTo(s, m, <<p, "ratchet", k + 1>>, r, b),
         Counts(k2, k, r, <<p, "ratchet", k + 1>>),
         NEW rec2, OnlyState(rec2, b, r), NEW con2, Owner(b) # p => b \in con2
  PROVE  /\ Half(p, b, r, t, rec2, con2, inn, acc \cup {m}, n)
         /\ Half(Peer(p), b, t, r, prec, pcon, out, pacc, k2)
         /\ Leads(r, t) \/ Leads(t, r)
<1> DEFINE K == KeysOf(Peer(p), b, n)
           L == KeysOf(p, b, k)
           L2 == KeysOf(p, b, k2)
           in == BodiesOf(inn, b)
           ot == BodiesOf(out, b)
           A == BodiesOf(acc, b)
           B == BodiesOf(pacc, b)
           x == m.body
           fresh == <<p, "ratchet", k + 1>>
<1>0. Peer(Peer(p)) = p
  BY Peers
<1>a. /\ m.base = b /\ WellFormed(r, b) /\ (k2 = k + 1 \/ (k2 = k /\ r.DHs # fresh))
      /\ Receive(s, x, fresh, 0).result = "ok" /\ r = Receive(s, x, fresh, 0).session
  BY DEF OpensTo, Counts
<1>1. Ample(s, K, b)
  BY HalfAmple
<1>2. Link(s, t, in, A, K, b) /\ Link(t, s, ot, B, L, b)
  BY <1>0 DEF Half
<1>3. fresh \notin L /\ KeysOf(p, b, k + 1) = L \cup {fresh} /\ L \subseteq L2
  BY <1>a, KeysGrow, KeysStay
<1>4. fresh \in KeyPairs
  BY DEF KeyPairs
<1>5. x \in in
  BY <1>a DEF BodiesOf
<1>6. x \in Bodies /\ BoundedMessage(x) /\ x.rk \in K /\ WellFormed(s, b) /\ Bounded(s)
      /\ WithinLimits(s)
  BY <1>a, <1>2, <1>5 DEF Half, Link, Sender
<1>7. BodiesOf(acc \cup {m}, b) = A \cup {x}
  BY <1>a, BodiesAdded
<1>8. 0 \in 0 .. MaxKeyAge /\ 0 \in Nat
  BY RatchetAssumption
<1>9. /\ Early(s, t) /\ Early(t, s)
      /\ \A l \in inn : l.base = b => BoundedMessage(l.body)
      /\ \A y, l \in inn : y.base = b /\ l.base = b /\ y.body = l.body => y = l
      /\ \A l \in out : l.base = b => BoundedMessage(l.body)
      /\ \A y, l \in out : y.base = b /\ l.base = b /\ y.body = l.body => y = l
      /\ OnlyState(prec, b, t)
      /\ Bounded(t) /\ WithinLimits(t)
      /\ Owner(b) # Peer(p) /\ b \notin pcon =>
           t = ResponderSession(Secret(b), SignedPreKey(Peer(p)))
  BY DEF Half
<1> HIDE DEF K, L, L2, in, ot, A, B, x, fresh
<1>10. Receive(s, x, fresh, 0).result = "ok" /\ r = Receive(s, x, fresh, 0).session
  BY <1>a
<1>11. Opened(r, s, x, fresh, 0)
  BY <1>1, <1>4, <1>6, <1>8, <1>10, ReceiveDelivers
<1>12. Bounded(r) /\ WithinLimits(r) /\ r.DHs \in {s.DHs, fresh}
  BY <1>4, <1>6, <1>10, ReceiveBounded, ReceiveLimits, ReceiveHeard
<1>13. /\ Link(r, t, in, A \cup {x}, K, b)
       /\ Link(t, r, ot, B, IF r.DHs = s.DHs THEN L ELSE L \cup {fresh}, b)
       /\ Leads(r, t) \/ Leads(t, r)
  <2>1. fresh \notin L /\ WellFormed(r, b) /\ (Leads(s, t) \/ Leads(t, s)) /\ 0 \in Nat /\ b \in Bases
    BY <1>a, <1>3, <1>8
  <2> QED BY ONLY <1>2, <1>5, <1>11, <2>1, OpenedLinks, ZenonT(30)
<1>14. Link(t, r, ot, B, L2, b)
  <2>1. CASE r.DHs = s.DHs
    <3>1. Link(t, r, ot, B, L, b)
      BY <1>13, <2>1
    <3> QED BY <1>3, <3>1, LinkGrows
  <2>2. CASE r.DHs # s.DHs
    <3>1. Link(t, r, ot, B, L \cup {fresh}, b)
      BY <1>13, <2>2
    <3>2. L2 = L \cup {fresh}
      BY <1>a, <1>3, <1>12, <2>2 DEF L2, fresh
    <3> QED BY <3>1, <3>2
  <2> QED BY <2>1, <2>2
<1>15. Early(r, t) /\ Early(t, r)
  BY <1>a, <1>2, <1>5, <1>8, <1>9, <1>11, OpenedEarly
<1>16. Half(p, b, r, t, rec2, con2, inn, acc \cup {m}, n)
  <2> DEFINE acc2 == acc \cup {m}
  <2>1. Link(r, t, BodiesOf(inn, b), BodiesOf(acc2, b), KeysOf(Peer(p), b, n), b)
    BY <1>7, <1>13 DEF in, K
  <2> HIDE DEF acc2
  <2>2. Half(p, b, r, t, rec2, con2, inn, acc2, n)
    BY <1>9, <1>12, <1>15, <2>1 DEF Half
  <2> QED BY <2>2 DEF acc2
<1>17. Half(Peer(p), b, t, r, prec, pcon, out, pacc, k2)
  <2>1. Link(t, r, BodiesOf(out, b), BodiesOf(pacc, b), KeysOf(Peer(Peer(p)), b, k2), b)
    BY <1>0, <1>14 DEF L2, B, ot
  <2> QED BY <1>9, <1>15, <2>1 DEF Half
<1> QED BY <1>13, <1>16, <1>17

-----------------------------------------------------------------------------
(* What the operations make of the sessions of a record.                   *)

\* x is a session of rec, or that session without its pending prekey.
Shadow(x, rec) == \E c \in SessionsIn(rec) : c.base = x.base /\ c.ratchet = x.ratchet

\* What an operation leaves in the archive was in the record.
LEMMA HeldShadow ==
  ASSUME NEW p, NEW rec, NEW acc, NEW out, NEW con, NEW reo, NEW st,
         RecordOK(p, rec, acc, out, con, reo, st), NEW x \in Held(rec)
  PROVE  Shadow(x, rec)
<1>1. CASE x \in SessionsIn(rec)
  BY <1>1 DEF Shadow
<1>2. CASE x \notin SessionsIn(rec)
  <2> DEFINE c == rec.current
  <2>1. c # NoSession /\ x = WithoutPendingPreKey(c)
    BY <1>2 DEF Held, Archivable, Others, SessionsIn
  <2>2. c \in SessionsIn(rec)
    BY <2>1 DEF SessionsIn
  <2>3. IsSession(c)
    BY <2>2 DEF RecordOK, SessionOK, Established
  <2> HIDE DEF c
  <2>4. x.base = c.base /\ x.ratchet = c.ratchet
    BY <2>1, <2>3, WithoutPending
  <2> QED BY <2>2, <2>4 DEF Shadow
<1> QED BY <1>1, <1>2

\* The record r after an operation: its archive was in rec.
Moves(r, rec) ==
  \A x \in SessionsIn(r) : (r.current # NoSession /\ x = r.current) \/ Shadow(x, rec)

\* archiveCurrent()
LEMMA ArchiveMoves ==
  ASSUME NEW p, NEW rec, NEW acc, NEW out, NEW con, NEW reo, NEW st, NEW new,
         RecordOK(p, rec, acc, out, con, reo, st)
  PROVE  /\ ArchiveCurrent(rec, new).current = new
         /\ DOMAIN ArchiveCurrent(rec, new) = {"current", "archived"}
         /\ Range(ArchiveCurrent(rec, new).archived) \subseteq Held(rec)
         /\ Moves(ArchiveCurrent(rec, new), rec)
<1> DEFINE r == ArchiveCurrent(rec, new)
<1>1. ArchiveOK(rec.archived) /\ (rec.current = NoSession \/ IsSession(rec.current))
  BY CurrentIs DEF RecordOK
<1>2. /\ r.current = new /\ Range(r.archived) \subseteq Archivable(rec)
      /\ DOMAIN r = {"current", "archived"}
  BY <1>1, ArchiveCurrentOK
<1> HIDE DEF r
<1>3. Range(r.archived) \subseteq Held(rec)
  BY <1>2 DEF Held
<1>4. \A x \in Range(r.archived) : Shadow(x, rec)
  BY <1>3, HeldShadow
<1>5. Moves(r, rec)
  BY <1>4 DEF Moves, SessionsIn
<1> QED BY <1>2, <1>3, <1>5 DEF r

\* decrypt(): one session c opened the message and is current.
OpenedBy(p, c, m, rec, r, con) ==
  /\ Opens(p, c, m)
  /\ r.current = TrySession(p, c, m).session
  /\ \/ c \in SessionsIn(rec)
     \/ c = NewSession(p, m) /\ m.prekey /\ m.base \notin con
  /\ Moves(r, rec)

\* Whichever session opens the message, the others of the record stay as they are.
LEMMA DecryptMoves ==
  ASSUME IInv, NEW p \in Parties, NEW m \in sent[Peer(p)],
         DecryptOutcome(p, m).result = "ok"
  PROVE  \E c : OpenedBy(p, c, m, record[p], DecryptOutcome(p, m).record, consumed[p])
<1> DEFINE rec == record[p]
           r == DecryptOutcome(p, m).record
           con == consumed[p]
           inn == sent[Peer(p)]
<1> SUFFICES \E c : OpenedBy(p, c, m, rec, r, con)
  OBVIOUS
<1>1. /\ PartyOK(p, rec, accepted[p], sent[p], inn, con, reopened[p], started)
      /\ Arriving(p, inn, started) /\ ratchets[p] \in Nat /\ m \in inn
  BY OfParty
<1>2. RecordOK(p, rec, accepted[p], sent[p], con, reopened[p], started)
  BY <1>1 DEF PartyOK
<1>3. /\ ArchiveOK(rec.archived) /\ Len(rec.archived) <= MaxArchived
      /\ rec.current = NoSession \/ IsSession(rec.current)
      /\ DOMAIN rec = {"current", "archived"}
  BY <1>2, CurrentIs DEF RecordOK
<1>4. \/ WithCurrent(p, rec, m, r)
      \/ \E c : WithArchived(p, rec, c, m, r)
      \/ WithNew(p, rec, m, r, con)
  BY <1>3, OutcomeCases DEF ArchiveOK
<1> HIDE DEF rec, r, con, inn
<1>5. \A x \in Held(rec) : Shadow(x, rec)
  BY <1>2, HeldShadow
<1>6. ASSUME Range(r.archived) \subseteq Held(rec) PROVE Moves(r, rec)
  BY <1>5, <1>6 DEF Moves, SessionsIn
<1>7. CASE WithCurrent(p, rec, m, r)
  <2> DEFINE c == rec.current
  <2>1. r.archived = rec.archived /\ r.current = TrySession(p, c, m).session
    BY <1>3, <1>7 DEF WithCurrent
  <2>2. Moves(r, rec)
    BY <1>6, <2>1 DEF Held
  <2>3. c \in SessionsIn(rec) /\ Opens(p, c, m)
    BY <1>7 DEF WithCurrent, SessionsIn
  <2>4. OpenedBy(p, c, m, rec, r, con)
    BY <2>1, <2>2, <2>3 DEF OpenedBy
  <2> HIDE DEF c
  <2> QED BY <2>4
<1>8. ASSUME NEW c, WithArchived(p, rec, c, m, r)
      PROVE  OpenedBy(p, c, m, rec, r, con)
  <2> DEFINE try == TrySession(p, c, m)
             a == try.session
  <2>1. c \in SessionsIn(rec) /\ c \in Range(rec.archived) /\ Opens(p, c, m)
    BY <1>8 DEF SessionsIn, WithArchived
  <2>2. r = IF ~try.skipped THEN PromoteSession(rec, a) ELSE [rec EXCEPT !.current = a]
    BY <1>8 DEF WithArchived, Commit
  <2>3. a.base = c.base
    BY DEF TrySession, Attempted
  <2> HIDE DEF try, a
  <2>4. r.current = a /\ Range(r.archived) \subseteq Held(rec)
    <3>1. CASE try.skipped
      BY <1>3, <2>2, <3>1 DEF Held
    <3>2. CASE ~try.skipped
      <4>1. r = PromoteSession(rec, a)
        BY <2>2, <3>2
      <4>2. \E x \in Range(rec.archived) : x.base = a.base
        BY <2>1, <2>3
      <4>3. r.current = a /\ \A x \in Range(r.archived) : x \in Archivable(rec)
        BY <1>3, <4>1, <4>2, PromoteOK
      <4> QED BY <4>3 DEF Held
    <3> QED BY <3>1, <3>2
  <2>5. Moves(r, rec)
    BY <1>6, <2>4
  <2> QED BY <2>1, <2>4, <2>5 DEF OpenedBy, a, try
<1>9. CASE WithNew(p, rec, m, r, con)
  <2> DEFINE c == NewSession(p, m)
             e == ArchiveCurrent(rec, NoSession)
             a == TrySession(p, c, m).session
  <2>1. /\ Opens(p, c, m) /\ m.prekey /\ m.base \notin con
        /\ r = [e EXCEPT !.current = a]
    BY <1>9 DEF WithNew
  <2>2. DOMAIN e = {"current", "archived"} /\ Range(e.archived) \subseteq Held(rec)
    BY <1>2, ArchiveMoves
  <2> HIDE DEF e, a
  <2>3. r.current = a /\ r.archived = e.archived
    BY <2>1, <2>2
  <2>4. Moves(r, rec)
    BY <1>6, <2>2, <2>3
  <2> HIDE DEF c
  <2>5. OpenedBy(p, c, m, rec, r, con)
    BY <2>1, <2>3, <2>4 DEF OpenedBy, a, c
  <2> QED BY <2>5
<1> QED BY <1>4, <1>7, <1>8, <1>9

-----------------------------------------------------------------------------
(* Whose key a ratchet key is.  A device uses no key pair in two sessions. *)

\* The key pairs of a device, each with the base key of the session it is used in.
Tags(rec, out) ==
  {<<c.ratchet.DHs, c.base>> : c \in SessionsIn(rec)} \cup {<<m.body.rk, m.base>> : m \in out}

\* A key of p in the session of b, when p has generated n ratchet keys.
OwnKey(p, k, b, n) == (k = b /\ Owner(b) = p) \/ \E i \in 1 .. n : k = <<p, "ratchet", i>>

TagsOK(p, T, n) ==
  /\ \A x \in T : x[2] \in Bases /\ OwnKey(p, x[1], x[2], n)
  /\ \A x, y \in T : x[1] = y[1] => x[2] = y[2]

\* Fewer keys in use.
LEMMA TagsStay ==
  ASSUME NEW p, NEW T, NEW T2, NEW n \in Nat, NEW n2 \in Nat, TagsOK(p, T, n),
         T2 \subseteq T,
         n <= n2
  PROVE  TagsOK(p, T2, n2)
<1>1. 1 .. n \subseteq 1 .. n2
  OBVIOUS
<1>2. \A k, b : OwnKey(p, k, b, n) => OwnKey(p, k, b, n2)
  BY <1>1 DEF OwnKey
<1> QED BY <1>2 DEF TagsOK

\* A DH ratchet step uses a key that was in no session.
LEMMA TagsRatchet ==
  ASSUME NEW p, NEW T, NEW T2, NEW n \in Nat, NEW b \in Bases, TagsOK(p, T, n),
         T2 \subseteq T \cup {<<<<p, "ratchet", n + 1>>, b>>}
  PROVE  TagsOK(p, T2, n + 1)
<1> DEFINE k == <<p, "ratchet", n + 1>>
           z == <<k, b>>
<1>1. TagsOK(p, T, n + 1)
  BY TagsStay
<1>2. z[1] = k /\ z[2] = b
  OBVIOUS
<1>3. OwnKey(p, k, b, n + 1)
  <2>1. n + 1 \in 1 .. (n + 1)
    OBVIOUS
  <2> QED BY <2>1 DEF OwnKey
<1>4. \A x \in T : x[1] # k
  <2> SUFFICES ASSUME NEW x \in T PROVE x[1] # k
    OBVIOUS
  <2>1. x[2] \in Bases /\ OwnKey(p, x[1], x[2], n)
    BY DEF TagsOK
  <2>2. x[2][2] = "ephemeral"
    BY <2>1 DEF Bases
  <2>3. k[2] = "ratchet" /\ k[3] = n + 1
    OBVIOUS
  <2>4. \A i \in 1 .. n : <<p, "ratchet", i>>[3] = i /\ i # n + 1
    OBVIOUS
  <2> HIDE DEF k
  <2>5. CASE x[1] = x[2]
    BY <2>2, <2>3, <2>5
  <2>6. CASE \E i \in 1 .. n : x[1] = <<p, "ratchet", i>>
    BY <2>3, <2>4, <2>6
  <2> QED BY <2>1, <2>5, <2>6 DEF OwnKey
<1> HIDE DEF z, k
<1>5. \A x \in T2 : x \in T \/ x = z
  BY DEF z, k
<1> QED BY <1>1, <1>2, <1>3, <1>4, <1>5 DEF TagsOK

\* startSession() uses the base key that it draws.
LEMMA TagsStart ==
  ASSUME NEW p, NEW T, NEW T2, NEW n \in Nat, NEW b \in Bases, TagsOK(p, T, n),
         Owner(b) = p,
         \A x \in T : x[2] # b, T2 \subseteq T \cup {<<b, b>>}
  PROVE  TagsOK(p, T2, n)
<1> DEFINE z == <<b, b>>
<1>1. z[1] = b /\ z[2] = b
  OBVIOUS
<1>2. OwnKey(p, b, b, n)
  BY DEF OwnKey
<1>3. \A x \in T : x[1] # b
  <2> SUFFICES ASSUME NEW x \in T PROVE x[1] # b
    OBVIOUS
  <2>1. x[2] # b /\ OwnKey(p, x[1], x[2], n)
    BY DEF TagsOK
  <2>2. b[2] = "ephemeral"
    BY DEF Bases
  <2>3. \A i \in 1 .. n : <<p, "ratchet", i>>[2] = "ratchet"
    OBVIOUS
  <2>4. CASE \E i \in 1 .. n : x[1] = <<p, "ratchet", i>>
    BY <2>2, <2>3, <2>4
  <2> QED BY <2>1, <2>4 DEF OwnKey
<1> HIDE DEF z
<1>4. \A x \in T2 : x \in T \/ x = z
  BY DEF z
<1> QED BY <1>1, <1>2, <1>3, <1>4 DEF TagsOK

\* The tags of a record of which the operation leaves the archive alone.
LEMMA TagsMove ==
  ASSUME NEW r, NEW rec, Moves(r, rec), NEW out, NEW out2, out2 \subseteq out
  PROVE  \A x \in Tags(r, out2) :
           x \in Tags(rec, out) \/ (r.current # NoSession /\ x = <<r.current.ratchet.DHs, r.current.base>>)
<1> SUFFICES ASSUME NEW x \in Tags(r, out2)
             PROVE  \/ x \in Tags(rec, out)
                    \/ r.current # NoSession /\ x = <<r.current.ratchet.DHs, r.current.base>>
  OBVIOUS
<1>1. CASE x \in {<<m.body.rk, m.base>> : m \in out2}
  BY <1>1 DEF Tags
<1>2. ASSUME NEW c \in SessionsIn(r), x = <<c.ratchet.DHs, c.base>>
      PROVE  \/ x \in Tags(rec, out)
             \/ r.current # NoSession /\ x = <<r.current.ratchet.DHs, r.current.base>>
  <2>1. CASE Shadow(c, rec)
    <3>1. PICK d \in SessionsIn(rec) : d.base = c.base /\ d.ratchet = c.ratchet
      BY <2>1 DEF Shadow
    <3>2. x = <<d.ratchet.DHs, d.base>>
      BY <1>2, <3>1
    <3> QED BY <3>2 DEF Tags
  <2>2. CASE ~Shadow(c, rec) /\ c = r.current /\ r.current # NoSession
    BY <1>2, <2>2
  <2> QED BY <2>1, <2>2 DEF Moves
<1> QED BY <1>1, <1>2 DEF Tags

\* A session of p has heard of the keys that the peer sent in it, and of the signed
\* prekey that it may have started from.
HeardOf(p, s, b, inn) ==
  Heard(s) \subseteq {SignedPreKey(Peer(p))} \cup {m.body.rk : m \in Of(inn, b)}

HeardOK(p, rec, inn) == \A c \in SessionsIn(rec) : HeardOf(p, c.ratchet, c.base, inn)

\* The messages of another session are not known to a session.
LEMMA OtherHeard ==
  ASSUME NEW p \in Parties, NEW rec, NEW prec, NEW inn, NEW n, HeardOK(p, rec, inn),
         TagsOK(Peer(p), Tags(prec, inn), n), NEW m \in inn, NEW c \in SessionsIn(rec),
         c.base # m.base
  PROVE  m.body.rk \notin Heard(c.ratchet)
<1> DEFINE k == m.body.rk
           T == Tags(prec, inn)
           q == Peer(p)
<1>1. \A l \in inn : <<l.body.rk, l.base>> \in T
  BY DEF Tags
<1> HIDE DEF T
<1>2. ASSUME NEW l \in inn, l.base = c.base PROVE l.body.rk # k
  <2> DEFINE x == <<l.body.rk, l.base>>
             y == <<k, m.base>>
  <2>1. x \in T /\ y \in T /\ x[1] = l.body.rk /\ y[1] = k /\ x[2] = l.base /\ y[2] = m.base
    BY <1>1
  <2> HIDE DEF x, y
  <2> QED BY <1>2, <2>1 DEF TagsOK, T
<1>3. k # SignedPreKey(q)
  <2> DEFINE y == <<k, m.base>>
  <2>1. y \in T /\ y[1] = k /\ y[2] = m.base
    BY <1>1
  <2> HIDE DEF y
  <2>2. m.base \in Bases /\ OwnKey(q, k, m.base, n)
    BY <2>1 DEF TagsOK, T
  <2> HIDE DEF k
  <2>3. SignedPreKey(q)[2] = "signed" /\ m.base[2] = "ephemeral"
    BY <2>2 DEF SignedPreKey, Bases
  <2>4. \A i \in 1 .. n : <<q, "ratchet", i>>[2] = "ratchet"
    OBVIOUS
  <2>5. CASE \E i \in 1 .. n : k = <<q, "ratchet", i>>
    BY <2>3, <2>4, <2>5
  <2>6. CASE k = m.base
    BY <2>3, <2>6
  <2> QED BY <2>2, <2>5, <2>6 DEF OwnKey
<1> QED BY <1>2, <1>3 DEF HeardOK, HeardOf, Of

\* A record of which the operation leaves the archive alone.
LEMMA HeardMove ==
  ASSUME NEW p, NEW r, NEW rec, Moves(r, rec), NEW inn, NEW inn2, inn \subseteq inn2,
         HeardOK(p, rec, inn),
         r.current # NoSession => HeardOf(p, r.current.ratchet, r.current.base, inn2)
  PROVE  HeardOK(p, r, inn2)
<1>1. ASSUME NEW s, NEW b, HeardOf(p, s, b, inn) PROVE HeardOf(p, s, b, inn2)
  BY <1>1 DEF HeardOf, Of
<1>2. ASSUME NEW x, Shadow(x, rec) PROVE HeardOf(p, x.ratchet, x.base, inn2)
  <2>1. PICK d \in SessionsIn(rec) : d.base = x.base /\ d.ratchet = x.ratchet
    BY <1>2 DEF Shadow
  <2>2. HeardOf(p, x.ratchet, x.base, inn)
    BY <2>1 DEF HeardOK
  <2> QED BY <1>1, <2>2
<1>3. ASSUME NEW x \in SessionsIn(r) PROVE HeardOf(p, x.ratchet, x.base, inn2)
  BY <1>2 DEF Moves, SessionsIn
<1> QED BY <1>3 DEF HeardOK

-----------------------------------------------------------------------------
(* The invariant.                                                          *)

\* The session with base key b in states s, at p, and t, at its peer.  R, C, M, A and
\* N are the record, consumed, sent, accepted and ratchets of both.
ThreadOf(b, p, s, t, R, C, M, A, N) ==
  /\ Leads(s, t) \/ Leads(t, s)
  /\ Half(p, b, s, t, R[p], C[p], M[Peer(p)], A[p], N[Peer(p)])
  /\ Half(Peer(p), b, t, s, R[Peer(p)], C[Peer(p)], M[p], A[Peer(p)], N[p])

\* Every base key that was drawn, and that no skipped key reopened at either device,
\* has a thread; and no device takes a message of another session for its own.
DInv ==
  /\ RatchetSteps <= MaxRatchets
  /\ \A p \in Parties : /\ TagsOK(p, Tags(record[p], sent[p]), ratchets[p])
                        /\ HeardOK(p, record[p], sent[Peer(p)])
  /\ \A p \in Parties : \A b \in Known(started) :
       b \notin reopened[p] \cup reopened[Peer(p)] =>
         \E s, t : ThreadOf(b, p, s, t, record, consumed, sent, accepted, ratchets)

\* A thread looks the same from both sides.
LEMMA ThreadTurns ==
  ASSUME NEW b, NEW p \in Parties, NEW s, NEW t, NEW R, NEW C, NEW M, NEW A, NEW N,
         ThreadOf(b, p, s, t, R, C, M, A, N)
  PROVE  ThreadOf(b, Peer(p), t, s, R, C, M, A, N)
<1>1. Peer(Peer(p)) = p
  BY Peers
<1> QED BY <1>1 DEF ThreadOf

\* The operations leave the sessions with base key b alone.
LEMMA ThreadKeeps ==
  ASSUME NEW b, NEW p \in Parties, NEW s, NEW t, NEW R, NEW C, NEW M, NEW A,
         NEW N \in [Parties -> Nat], NEW R2, NEW C2, NEW M2, NEW A2,
         NEW N2 \in [Parties -> Nat],
         ThreadOf(b, p, s, t, R, C, M, A, N),
         R2[Peer(p)] = R[Peer(p)], C2[Peer(p)] = C[Peer(p)], M2[Peer(p)] = M[Peer(p)],
         A2[Peer(p)] = A[Peer(p)], N2[Peer(p)] = N[Peer(p)],
         Keeps(R2[p], R[p], b), C[p] \subseteq C2[p], Of(M2[p], b) = Of(M[p], b),
         Of(A2[p], b) = Of(A[p], b), N[p] <= N2[p]
  PROVE  ThreadOf(b, p, s, t, R2, C2, M2, A2, N2)
<1> DEFINE q == Peer(p)
<1>0. q \in Parties /\ Peer(q) = p
  BY Peers
<1>1. Half(p, b, s, t, R[p], C[p], M[q], A[p], N[q]) /\ Half(q, b, t, s, R[q], C[q], M[p], A[q], N[p])
  BY DEF ThreadOf
<1>2. N[p] \in Nat /\ N2[p] \in Nat /\ N[q] \in Nat /\ N2[q] \in Nat /\ N[q] <= N2[q]
  BY <1>0
<1>3. Keeps(R2[q], R[q], b)
  BY DEF Keeps
<1>4. /\ R2[q] = R[q] /\ C2[q] = C[q] /\ M2[q] = M[q] /\ A2[q] = A[q] /\ N2[q] = N[q]
      /\ C[q] \subseteq C2[q] /\ Of(M2[q], b) = Of(M[q], b) /\ Of(A2[q], b) = Of(A[q], b)
  OBVIOUS
<1> HIDE DEF q
<1>5. Half(p, b, s, t, R2[p], C2[p], M2[q], A2[p], N2[q])
  BY <1>1, <1>2, <1>4, HalfKeeps
<1>6. Half(q, b, t, s, R2[q], C2[q], M2[p], A2[q], N2[p])
  BY <1>1, <1>2, <1>3, <1>4, HalfKeeps
<1> QED BY <1>5, <1>6 DEF ThreadOf, q

\* A base key other than that of the new current session.
LEMMA MovesKeeps ==
  ASSUME NEW r, NEW rec, NEW b, Moves(r, rec), r.current # NoSession => r.current.base # b
  PROVE  Keeps(r, rec, b)
  BY DEF Moves, Keeps, Shadow

\* The same messages, but for other base keys.
LEMMA OfKeeps ==
  ASSUME NEW ms, NEW m, NEW b, m.base # b
  PROVE  Of(ms \cup {m}, b) = Of(ms, b)
  BY DEF Of

\* What is left to show of a step of device p.
LEMMA ThreadStep ==
  ASSUME DInv, NEW p \in Parties,
         record'[Peer(p)] = record[Peer(p)], sent'[Peer(p)] = sent[Peer(p)],
         ratchets'[Peer(p)] = ratchets[Peer(p)], sent[p] \subseteq sent'[p],
         RatchetSteps' <= MaxRatchets,
         TagsOK(p, Tags(record'[p], sent'[p]), ratchets'[p]),
         HeardOK(p, record'[p], sent[Peer(p)]),
         \A b \in Known(started') : b \notin reopened'[p] \cup reopened'[Peer(p)] =>
           \E s, t : ThreadOf(b, p, s, t, record', consumed', sent', accepted', ratchets')
  PROVE  DInv'
<1> DEFINE q == Peer(p)
<1>0. q \in Parties /\ Peer(q) = p /\ \A o \in Parties : o = p \/ o = q
  BY Peers
<1>1. TagsOK(q, Tags(record'[q], sent'[q]), ratchets'[q])
  BY <1>0 DEF DInv
<1>2. HeardOK(q, record'[q], sent'[p])
  <2>1. HeardOK(q, record[q], sent[p])
    BY <1>0 DEF DInv
  <2>2. \A s, b : HeardOf(q, s, b, sent[p]) => HeardOf(q, s, b, sent'[p])
    BY DEF HeardOf, Of
  <2> QED BY <2>1, <2>2 DEF HeardOK
<1>3. \A o \in Parties : /\ TagsOK(o, Tags(record'[o], sent'[o]), ratchets'[o])
                         /\ HeardOK(o, record'[o], sent'[Peer(o)])
  BY <1>0, <1>1, <1>2
<1>4. ASSUME NEW b \in Known(started'), b \notin reopened'[q] \cup reopened'[Peer(q)]
      PROVE  \E s, t : ThreadOf(b, q, s, t, record', consumed', sent', accepted', ratchets')
  <2>1. PICK s, t : ThreadOf(b, p, s, t, record', consumed', sent', accepted', ratchets')
    BY <1>0, <1>4
  <2>2. ThreadOf(b, q, t, s, record', consumed', sent', accepted', ratchets')
    BY <2>1, ThreadTurns
  <2> QED BY <2>2
<1>5. \A o \in Parties : \A b \in Known(started') :
        b \notin reopened'[o] \cup reopened'[Peer(o)] =>
          \E s, t : ThreadOf(b, o, s, t, record', consumed', sent', accepted', ratchets')
  <2> SUFFICES ASSUME NEW o \in Parties, NEW b \in Known(started'),
                      b \notin reopened'[o] \cup reopened'[Peer(o)]
               PROVE  \E s, t : ThreadOf(b, o, s, t, record', consumed', sent', accepted', ratchets')
    OBVIOUS
  <2>1. CASE o = p
    BY <2>1
  <2>2. CASE o = q
    BY <1>4, <2>2
  <2> QED BY <1>0, <2>1, <2>2
<1> QED BY <1>3, <1>5 DEF DInv

\* Nothing is in the records at first.
LEMMA InitDelivers == Init => DInv
<1> SUFFICES ASSUME Init PROVE DInv
  OBVIOUS
<1>1. RatchetSteps <= MaxRatchets
  BY BoundsAssumption DEF Init, RatchetSteps, Parties
<1>2. ASSUME NEW p \in Parties
      PROVE  /\ TagsOK(p, Tags(record[p], sent[p]), ratchets[p])
             /\ HeardOK(p, record[p], sent[Peer(p)])
  <2> DEFINE r == record[p]
             q == << >>
  <2>1. r = EmptyRecord /\ sent[p] = {}
    BY DEF Init
  <2>2. r.current = NoSession /\ r.archived = q
    BY <2>1 DEF EmptyRecord
  <2>3. DOMAIN q = {}
    OBVIOUS
  <2> HIDE DEF r, q
  <2>4. SessionsIn(r) = {}
    BY <2>2, <2>3 DEF SessionsIn, Range
  <2>5. Tags(r, sent[p]) = {}
    BY <2>1, <2>4 DEF Tags
  <2> QED BY <2>4, <2>5 DEF TagsOK, HeardOK, r
<1>3. Known(started) = {}
  <2> SUFFICES ASSUME NEW b \in Known(started) PROVE FALSE
    OBVIOUS
  <2>1. b \in Bases /\ b[3] < started[b[1]]
    BY DEF Known
  <2>2. b[1] \in Parties /\ b[3] \in Nat
    BY <2>1 DEF Bases
  <2>3. started[b[1]] = 0
    BY <2>2 DEF Init
  <2> QED BY <2>1, <2>2, <2>3
<1> QED BY <1>1, <1>2, <1>3 DEF DInv

-----------------------------------------------------------------------------
(* Every operation keeps it.                                               *)

\* No session and no message has a base key that was not drawn.
LEMMA NothingUnknown ==
  ASSUME IInv, NEW p \in Parties, NEW b, b \notin Known(started)
  PROVE  /\ \A c \in SessionsIn(record[p]) : c.base # b
         /\ \A m \in sent[p] : m.base # b
         /\ \A m \in accepted[p] : m.base # b
<1>1. /\ PartyOK(p, record[p], accepted[p], sent[p], sent[Peer(p)], consumed[p], reopened[p],
                 started)
      /\ Arriving(p, sent[Peer(p)], started)
  BY OfParty
<1>2. \A c \in SessionsIn(record[p]) : c.base \in Known(started)
  BY <1>1 DEF PartyOK, RecordOK, SessionOK, Established
<1>3. \A m \in sent[p] : m.base \in Known(started)
  BY <1>1 DEF PartyOK, MessageOK
<1>4. \A m \in accepted[p] : m.base \in Known(started)
  BY <1>1 DEF PartyOK, Arriving
<1> QED BY <1>2, <1>3, <1>4

\* A new thread.
LEMMA NewThread ==
  ASSUME IInv, NEW p \in Parties, NEW b \in Bases, b \notin Known(started), Owner(b) = p,
         NEW R, R[Peer(p)] = record[Peer(p)],
         \A c \in SessionsIn(R[p]) :
           c.base = b => c.ratchet = InitiatorSession(Secret(b), b, SignedPreKey(Peer(p)))
  PROVE  \E s, t : ThreadOf(b, p, s, t, R, consumed, sent, accepted, ratchets)
<1> DEFINE q == Peer(p)
           s == InitiatorSession(Secret(b), b, SignedPreKey(q))
           t == ResponderSession(Secret(b), SignedPreKey(q))
<1>0. q \in Parties /\ q # p /\ Peer(q) = p
  BY Peers
<1>1. /\ \A c \in SessionsIn(record[q]) : c.base # b
      /\ \A m \in sent[p] : m.base # b
      /\ \A m \in sent[q] : m.base # b
      /\ \A m \in accepted[p] : m.base # b
      /\ \A m \in accepted[q] : m.base # b
  BY <1>0, NothingUnknown
<1>2. /\ BodiesOf(sent[p], b) = {} /\ BodiesOf(sent[q], b) = {}
      /\ BodiesOf(accepted[p], b) = {} /\ BodiesOf(accepted[q], b) = {}
  BY <1>1, NoBodies
<1>3. /\ Link(s, t, {}, {}, KeysOf(q, b, ratchets[q]), b)
      /\ Link(t, s, {}, {}, KeysOf(p, b, ratchets[p]), b)
      /\ Leads(s, t) /\ Early(s, t) /\ Early(t, s)
      /\ Bounded(s) /\ Bounded(t) /\ WithinLimits(s) /\ WithinLimits(t)
  BY StartLinks
<1>4. \A c \in SessionsIn(R[p]) : c.base = b => c.ratchet = s
  OBVIOUS
<1>5. t = ResponderSession(Secret(b), SignedPreKey(q))
  OBVIOUS
<1> HIDE DEF s, t, q
<1>6. Half(p, b, s, t, R[p], consumed[p], sent[q], accepted[p], ratchets[q])
  <2>1. Link(s, t, BodiesOf(sent[q], b), BodiesOf(accepted[p], b), KeysOf(Peer(p), b, ratchets[q]), b)
    BY <1>2, <1>3 DEF q
  <2> QED BY <1>1, <1>3, <1>4, <2>1 DEF Half, OnlyState
<1>7. Half(q, b, t, s, R[q], consumed[q], sent[p], accepted[q], ratchets[p])
  <2>1. Link(t, s, BodiesOf(sent[p], b), BodiesOf(accepted[q], b), KeysOf(Peer(q), b, ratchets[p]), b)
    BY <1>0, <1>2, <1>3
  <2>2. R[q] = record[q]
    BY DEF q
  <2> QED BY <1>0, <1>1, <1>3, <1>5, <2>1, <2>2 DEF Half, OnlyState
<1>8. ThreadOf(b, p, s, t, R, consumed, sent, accepted, ratchets)
  BY <1>3, <1>6, <1>7 DEF ThreadOf, q
<1> QED BY <1>8

\* startSession() begins a thread and leaves the others alone.
LEMMA StartDelivers ==
  ASSUME IInv, DInv, NEW p \in Parties, StartSession(p)
  PROVE  DInv'
<1> DEFINE b == <<p, "ephemeral", started[p]>>
           s == InitiatorSession(Secret(b), b, SignedPreKey(Peer(p)))
           new == [base |-> b, unacked |-> TRUE, ratchet |-> s]
           rec == record[p]
           r == ArchiveCurrent(rec, new)
           st2 == [started EXCEPT ![p] = @ + 1]
<1>1. /\ started' = st2 /\ record' = [record EXCEPT ![p] = r]
      /\ consumed' = consumed /\ ratchets' = ratchets /\ sent' = sent /\ accepted' = accepted
      /\ reopened' = reopened
  BY DEF StartSession
<1>2. /\ ByParty(record) /\ ratchets \in [Parties -> Nat] /\ started \in [Parties -> Nat]
  BY DEF IInv
<1>3. b \in Bases /\ b \notin Known(started)
  BY <1>2, KnownGrows
<1>4. Owner(b) = p /\ new.base = b /\ new.ratchet = s
  BY DEF Owner
<1>5. s.DHs = b /\ Heard(s) \subseteq {SignedPreKey(Peer(p))}
  BY DEF InitiatorSession, Heard
<1>6. RecordOK(p, rec, accepted[p], sent[p], consumed[p], reopened[p], started)
  BY OfParty DEF PartyOK
<1>7. r.current = new /\ Moves(r, rec)
  BY <1>6, ArchiveMoves
<1>8. s = InitiatorSession(Secret(b), b, SignedPreKey(Peer(p)))
  OBVIOUS
<1>9. \A x \in Known(st2) : x \in Known(started) \/ x = b
  <2> SUFFICES ASSUME NEW x \in Known(st2), x # b PROVE x \in Known(started)
    OBVIOUS
  <2>1. x \in Bases /\ x[3] < st2[x[1]]
    BY DEF Known
  <2>2. x[1] \in Parties /\ x[3] \in Nat /\ x = <<x[1], "ephemeral", x[3]>>
    BY <2>1 DEF Bases
  <2>3. CASE x[1] = p
    <3>1. started[p] \in Nat /\ st2[p] = started[p] + 1
      BY <1>2
    <3>2. x[3] # started[p]
      BY <2>2, <2>3
    <3>3. x[3] < started[p]
      BY <2>1, <2>2, <2>3, <3>1, <3>2
    <3> QED BY <2>1, <2>3, <3>3 DEF Known
  <2>4. CASE x[1] # p
    <3>1. st2[x[1]] = started[x[1]]
      BY <1>2, <2>2, <2>4
    <3> QED BY <2>1, <3>1 DEF Known
  <2> QED BY <2>3, <2>4
<1> HIDE DEF b, s, new, r, st2, rec
<1>10. record'[p] = r /\ record'[Peer(p)] = record[Peer(p)]
  <2>1. ByParty(record) /\ ChangedAt(record', record, p, r)
    BY <1>1, <1>2 DEF ChangedAt
  <2> QED BY <2>1, OnePartyChanges
<1>11. ratchets[p] \in Nat
  BY <1>2
<1>12. TagsOK(p, Tags(r, sent[p]), ratchets[p])
  <2> DEFINE T == Tags(rec, sent[p])
             T2 == Tags(r, sent[p])
  <2>1. TagsOK(p, T, ratchets[p])
    BY DEF DInv, rec
  <2>2. \A x \in T : x[2] # b
    <3>1. (\A c \in SessionsIn(rec) : c.base # b) /\ (\A m \in sent[p] : m.base # b)
      BY <1>3, NothingUnknown DEF rec
    <3>2. \A k, a : <<k, a>>[2] = a
      OBVIOUS
    <3> QED BY <3>1, <3>2 DEF Tags
  <2>3. \A x \in T2 : x \in T \/ x = <<new.ratchet.DHs, new.base>>
    BY <1>7, TagsMove
  <2>4. T2 \subseteq T \cup {<<b, b>>}
    BY <1>4, <1>5, <2>3
  <2> HIDE DEF T, T2
  <2> QED BY <1>3, <1>4, <1>11, <2>1, <2>2, <2>4, TagsStart DEF T2
<1>13. HeardOK(p, r, sent[Peer(p)])
  <2>1. HeardOK(p, rec, sent[Peer(p)])
    BY DEF DInv, rec
  <2>2. HeardOf(p, r.current.ratchet, r.current.base, sent[Peer(p)])
    BY <1>4, <1>5, <1>7 DEF HeardOf
  <2> QED BY <1>7, <2>1, <2>2, HeardMove
<1>14. ASSUME NEW x \in Known(started'), x \notin reopened'[p] \cup reopened'[Peer(p)]
       PROVE  \E y, z : ThreadOf(x, p, y, z, record', consumed', sent', accepted', ratchets')
  <2>1. CASE x = b
    <3>1. \A c \in SessionsIn(record'[p]) : c.base = b => c.ratchet = s
      <4>1. \A c \in SessionsIn(rec) : c.base # b
        BY <1>3, NothingUnknown DEF rec
      <4> QED BY <1>4, <1>7, <1>10, <4>1 DEF Moves, Shadow
    <3>2. \E y, z : ThreadOf(b, p, y, z, record', consumed, sent, accepted, ratchets)
      BY <1>3, <1>4, <1>8, <1>10, <3>1, NewThread
    <3> QED BY <1>1, <2>1, <3>2
  <2>2. CASE x # b
    <3>1. x \in Known(started)
      BY <1>1, <1>9, <2>2
    <3>2. PICK y, z : ThreadOf(x, p, y, z, record, consumed, sent, accepted, ratchets)
      BY <1>1, <1>14, <3>1 DEF DInv
    <3>3. Keeps(record'[p], record[p], x)
      BY <1>4, <1>7, <1>10, <2>2, MovesKeeps DEF rec
    <3>4. ratchets[p] <= ratchets[p]
      BY <1>11
    <3>5. ThreadOf(x, p, y, z, record', consumed, sent, accepted, ratchets)
      BY <1>2, <1>10, <3>2, <3>3, <3>4, ThreadKeeps
    <3> QED BY <1>1, <3>5
  <2> QED BY <2>1, <2>2
<1>15. RatchetSteps' <= MaxRatchets
  BY <1>1 DEF DInv, RatchetSteps
<1> QED BY <1>1, <1>10, <1>12, <1>13, <1>14, <1>15, ThreadStep

\* archiveSession() leaves all threads alone.
LEMMA ArchiveDelivers ==
  ASSUME IInv, DInv, NEW p \in Parties, ArchiveSession(p)
  PROVE  DInv'
<1> DEFINE rec == record[p]
           r == ArchiveCurrent(rec, NoSession)
<1>1. /\ record' = [record EXCEPT ![p] = r]
      /\ consumed' = consumed /\ ratchets' = ratchets /\ sent' = sent /\ accepted' = accepted
      /\ reopened' = reopened /\ started' = started
  BY DEF ArchiveSession
<1>2. ByParty(record) /\ ratchets \in [Parties -> Nat]
  BY DEF IInv
<1>3. RecordOK(p, rec, accepted[p], sent[p], consumed[p], reopened[p], started)
  BY OfParty DEF PartyOK
<1>4. r.current = NoSession /\ Moves(r, rec)
  BY <1>3, ArchiveMoves
<1> HIDE DEF r, rec
<1>5. record'[p] = r /\ record'[Peer(p)] = record[Peer(p)]
  <2>1. ByParty(record) /\ ChangedAt(record', record, p, r)
    BY <1>1, <1>2 DEF ChangedAt
  <2> QED BY <2>1, OnePartyChanges
<1>6. ratchets[p] \in Nat /\ ratchets[p] <= ratchets[p]
  BY <1>2
<1>7. TagsOK(p, Tags(r, sent[p]), ratchets[p])
  <2> DEFINE T == Tags(rec, sent[p])
             T2 == Tags(r, sent[p])
  <2>1. TagsOK(p, T, ratchets[p])
    BY DEF DInv, rec
  <2>2. T2 \subseteq T
    BY <1>4, TagsMove
  <2> HIDE DEF T, T2
  <2> QED BY <1>6, <2>1, <2>2, TagsStay DEF T2
<1>8. HeardOK(p, r, sent[Peer(p)])
  <2>1. HeardOK(p, rec, sent[Peer(p)])
    BY DEF DInv, rec
  <2> QED BY <1>4, <2>1, HeardMove
<1>9. ASSUME NEW x \in Known(started'), x \notin reopened'[p] \cup reopened'[Peer(p)]
      PROVE  \E y, z : ThreadOf(x, p, y, z, record', consumed', sent', accepted', ratchets')
  <2>1. PICK y, z : ThreadOf(x, p, y, z, record, consumed, sent, accepted, ratchets)
    BY <1>1, <1>9 DEF DInv
  <2>2. Keeps(record'[p], record[p], x)
    BY <1>4, <1>5, MovesKeeps DEF rec
  <2>3. ThreadOf(x, p, y, z, record', consumed, sent, accepted, ratchets)
    BY <1>2, <1>5, <1>6, <2>1, <2>2, ThreadKeeps
  <2> QED BY <1>1, <2>3
<1>10. RatchetSteps' <= MaxRatchets
  BY <1>1 DEF DInv, RatchetSteps
<1> QED BY <1>1, <1>5, <1>7, <1>8, <1>9, <1>10, ThreadStep

\* No device has generated more ratchet keys than both may.
LEMMA FewRatchets ==
  ASSUME IInv, DInv, NEW p \in Parties
  PROVE  ratchets[p] \in Nat /\ ratchets[p] <= MaxRatchets
<1>1. ratchets[Alice] \in Nat /\ ratchets[Bob] \in Nat /\ MaxRatchets \in Nat
  BY BoundsAssumption DEF IInv, Parties
<1>2. ratchets[Alice] + ratchets[Bob] <= MaxRatchets
  BY DEF DInv, RatchetSteps
<1>3. p = Alice \/ p = Bob
  BY DEF Parties
<1> QED BY <1>1, <1>2, <1>3

\* encrypt() adds a message to the thread of the current session.
LEMMA EncryptDelivers ==
  ASSUME RoomForAll, IInv, DInv, NEW p \in Parties, Encrypt(p)
  PROVE  DInv'
<1> DEFINE rec == record[p]
           c == rec.current
           b == c.base
           m == [prekey |-> c.unacked, base |-> c.base, body |-> MessageOf(c.ratchet)]
           u == AfterSend(Cleanup(c.ratchet, 0))
           c2 == [c EXCEPT !.ratchet = u]
           r == [rec EXCEPT !.current = c2]
           q == Peer(p)
           out2 == sent[p] \cup {m}
<1>1. /\ c # NoSession /\ CanSend(c.ratchet) /\ ~SendOverflows(c.ratchet)
      /\ sent' = [sent EXCEPT ![p] = out2]
      /\ consumed' = consumed /\ ratchets' = ratchets /\ accepted' = accepted
      /\ reopened' = reopened /\ started' = started
  BY DEF Encrypt
<1>2. record' = [record EXCEPT ![p] = r]
  <2>1. record' = [record EXCEPT ![p].current.ratchet = AfterSend(Cleanup(@, 0))]
    BY DEF Encrypt
  <2> QED BY <2>1
<1>3. ByParty(record) /\ ByParty(sent) /\ ratchets \in [Parties -> Nat]
  BY DEF IInv
<1>4. RecordOK(p, rec, accepted[p], sent[p], consumed[p], reopened[p], started)
  BY OfParty DEF PartyOK
<1>5. c \in SessionsIn(rec) /\ DOMAIN rec = {"current", "archived"}
  BY <1>1, <1>4 DEF SessionsIn, RecordOK
<1>6. /\ IsSession(c) /\ b \in Bases /\ WellFormed(c.ratchet, b)
      /\ Owner(b) # p => b \in consumed[p]
  BY <1>4, <1>5 DEF RecordOK, SessionOK, Established, Known
<1>7. \A a \in Range(rec.archived) : a.base = b => a.base \in reopened[p]
  BY <1>1, <1>4 DEF RecordOK
<1>8. m.base = b /\ m.body = MessageOf(c.ratchet) /\ m.body.rk = c.ratchet.DHs
  BY DEF MessageOf
<1>9. u.DHs = c.ratchet.DHs /\ Heard(u) \subseteq Heard(c.ratchet)
  <2> DEFINE s == c.ratchet
             d == Cleanup(s, 0)
  <2>1. WellFormed(s, b)
    BY <1>6
  <2> HIDE DEF s, b
  <2>2. SameRatchet(d, s)
    BY <1>6, <2>1, CleanupRemoves
  <2>3. d.processed \subseteq s.processed
    BY <2>1 DEF Cleanup, WellFormed, Fields
  <2> HIDE DEF d
  <2>4. AfterSend(d).processed = d.processed /\ AfterSend(d).DHr = d.DHr /\ AfterSend(d).DHs = d.DHs
    BY <2>2 DEF AfterSend, SameRatchet, Fields
  <2>5. AfterSend(d).DHs = s.DHs /\ Heard(AfterSend(d)) \subseteq Heard(s)
    BY <2>2, <2>3, <2>4 DEF Heard, SameRatchet
  <2> QED BY <2>5 DEF d, s
<1> HIDE DEF u, m, rec
<1>10. r.current = c2 /\ r.archived = rec.archived
  BY <1>5
<1>11. c2.base = b /\ c2.ratchet = u
  <2> HIDE DEF c
  <2> QED BY <1>6 DEF IsSession
<1> HIDE DEF r, c2, out2
<1>12. Moves(r, rec)
  <2>1. \A x \in Range(rec.archived) : Shadow(x, rec)
    BY DEF Shadow, SessionsIn
  <2> QED BY <1>10, <2>1 DEF Moves, SessionsIn
<1>13. record'[p] = r /\ record'[q] = record[q]
  <2>1. ByParty(record) /\ ChangedAt(record', record, p, r)
    BY <1>2, <1>3 DEF ChangedAt
  <2> QED BY <2>1, OnePartyChanges
<1>14. sent'[p] = out2 /\ sent'[q] = sent[q] /\ sent[p] \subseteq out2
  <2>1. ByParty(sent) /\ ChangedAt(sent', sent, p, out2)
    BY <1>1, <1>3 DEF ChangedAt
  <2>2. sent'[p] = out2 /\ sent'[q] = sent[q]
    BY <2>1, OnePartyChanges
  <2> QED BY <2>2 DEF out2
<1>15. ratchets[p] \in Nat /\ ratchets[p] <= ratchets[p] /\ ratchets[q] \in Nat /\ ratchets[q] <= MaxRatchets
  BY Peers, FewRatchets
<1>16. TagsOK(p, Tags(r, out2), ratchets[p])
  <2> DEFINE T == Tags(rec, sent[p])
             T2 == Tags(r, out2)
             z == <<c.ratchet.DHs, b>>
  <2>1. TagsOK(p, T, ratchets[p])
    BY DEF DInv, rec
  <2>2. z \in T
    BY <1>5 DEF Tags
  <2>3. \A x \in Tags(r, sent[p]) : x \in T \/ x = <<r.current.ratchet.DHs, r.current.base>>
    BY <1>12, TagsMove
  <2>4. \A x \in Tags(r, sent[p]) : x \in T
    BY <1>9, <1>10, <1>11, <2>2, <2>3
  <2>5. \A x \in T2 : x \in Tags(r, sent[p]) \/ x = <<m.body.rk, m.base>>
    BY DEF Tags, out2
  <2>6. T2 \subseteq T
    BY <1>8, <2>2, <2>4, <2>5
  <2> HIDE DEF T, T2
  <2> QED BY <1>15, <2>1, <2>6, TagsStay DEF T2
<1>17. HeardOK(p, r, sent[q])
  <2>1. HeardOK(p, rec, sent[q])
    BY DEF DInv, rec
  <2>2. HeardOf(p, c.ratchet, b, sent[q])
    BY <1>5, <2>1 DEF HeardOK
  <2>3. HeardOf(p, r.current.ratchet, r.current.base, sent[q])
    BY <1>9, <1>10, <1>11, <2>2 DEF HeardOf
  <2> QED BY <1>12, <2>1, <2>3, HeardMove
<1>18. ASSUME NEW x \in Known(started'), x \notin reopened'[p] \cup reopened'[q]
       PROVE  \E y, z : ThreadOf(x, p, y, z, record', consumed', sent', accepted', ratchets')
  <2>1. PICK s, t : ThreadOf(x, p, s, t, record, consumed, sent, accepted, ratchets)
    BY <1>1, <1>18 DEF DInv
  <2>2. CASE x # b
    <3>1. Keeps(record'[p], record[p], x)
      BY <1>10, <1>11, <1>12, <1>13, <2>2, MovesKeeps DEF rec
    <3>2. Of(sent'[p], x) = Of(sent[p], x)
      BY <1>8, <1>14, <2>2, OfKeeps DEF out2
    <3>3. ThreadOf(x, p, s, t, record', consumed, sent', accepted, ratchets)
      BY <1>3, <1>13, <1>14, <1>15, <2>1, <3>1, <3>2, ThreadKeeps
    <3> QED BY <1>1, <3>3
  <2>3. CASE x = b
    <3>1. /\ Leads(s, t) \/ Leads(t, s)
          /\ Half(p, b, s, t, rec, consumed[p], sent[q], accepted[p], ratchets[q])
          /\ Half(q, b, t, s, record[q], consumed[q], sent[p], accepted[q], ratchets[p])
      BY <2>1, <2>3 DEF ThreadOf, rec
    <3>2. c.ratchet = s
      BY <1>5, <3>1 DEF Half, OnlyState
    <3>3. OnlyState(r, b, u)
      <4>1. \A y \in Range(rec.archived) : y.base # b
        BY <1>1, <1>7, <1>18, <2>3
      <4> QED BY <1>10, <1>11, <4>1 DEF SessionsIn, OnlyState
    <3>4. SendsFrom(s, m, u, b)
      BY <1>1, <1>8, <3>2 DEF SendsFrom, u
    <3> HIDE DEF b
    <3>5. /\ Half(p, b, u, t, r, consumed[p], sent[q], accepted[p], ratchets[q])
          /\ Half(q, b, t, u, record[q], consumed[q], sent[p] \cup {m}, accepted[q], ratchets[p])
          /\ Leads(u, t) \/ Leads(t, u)
      BY <1>6, <1>15, <3>1, <3>3, <3>4, SendHalves
    <3>6. ThreadOf(b, p, u, t, record', consumed', sent', accepted', ratchets')
      BY <1>1, <1>13, <1>14, <3>5 DEF ThreadOf, out2
    <3> QED BY <2>3, <3>6
  <2> QED BY <2>2, <2>3
<1>19. RatchetSteps' <= MaxRatchets
  BY <1>1 DEF DInv, RatchetSteps
<1> QED BY <1>1, <1>13, <1>14, <1>16, <1>17, <1>18, <1>19, ThreadStep

\* A session that nothing was received with yet makes a DH ratchet step first.
LEMMA NewAttempt ==
  ASSUME NEW b \in Bases, NEW p \in Parties, NEW m \in Bodies, NEW fresh \in KeyPairs,
         NEW s,
         s = ResponderSession(Secret(b), SignedPreKey(p)),
         Receive(s, m, fresh, 0).result = "ok"
  PROVE  /\ Receive(s, m, fresh, 0).session.DHs = fresh
         /\ WellFormed(s, b) /\ Heard(s) = {}
<1> DEFINE d == DHRatchet(CloseChain(s, m, 0), m.rk, fresh)
<1>1. WellFormed(s, b)
  BY ResponderOK
<1>2. s.DHr = NoKey /\ s.keys = {} /\ s.processed = {} /\ DOMAIN s = Fields
  BY DEF ResponderSession, Fields
<1>3. CloseChain(s, m, 0) = s /\ Cleanup(s, 0) = s /\ SkippedKeys(s, m.rk, m.counter) = {}
  BY <1>2 DEF CloseChain, Cleanup, SkippedKeys, Stored
<1>4. Receive(s, m, fresh, 0) = ReceiveInChain(d, m, 0)
  BY <1>2, <1>3 DEF Receive, ReceiveWithRatchet
<1>5. d.DHs = fresh
  BY <1>2, <1>3 DEF DHRatchet, Fields
<1>6. WellFormed(d, b)
  <2>1. {} \in SUBSET Bodies /\ Erased(s, {})
    BY DEF Erased
  <2> QED BY <1>1, <2>1, RatchetIsFresh
<1> HIDE DEF d
<1>7. Receive(s, m, fresh, 0).session.DHs = fresh
  BY <1>4, <1>5, <1>6, ChainHeard
<1>8. Heard(s) = {}
  BY <1>2 DEF Heard
<1> QED BY <1>1, <1>7, <1>8

\* The attempt that opened a message: c is the session it began with.
AttemptFrom(p, c, m, a) ==
  /\ c.base = m.base /\ WellFormed(c.ratchet, m.base)
  /\ Receive(c.ratchet, m.body, FreshKey(p), 0).result = "ok"
  /\ a.base = m.base
  /\ a.ratchet = Receive(c.ratchet, m.body, FreshKey(p), 0).session
  /\ WellFormed(a.ratchet, m.base)

\* Whichever session opened the message, it has the base key of the message.
LEMMA DecryptAttempt ==
  ASSUME IInv, NEW p \in Parties, NEW m \in sent[Peer(p)], NEW c, NEW r,
         OpenedBy(p, c, m, record[p], r, consumed[p])
  PROVE  /\ AttemptFrom(p, c, m, r.current) /\ m.base \in Bases /\ m.body \in Bodies
         /\ m.prekey => Owner(m.base) # p
<1>1. /\ PartyOK(p, record[p], accepted[p], sent[p], sent[Peer(p)], consumed[p], reopened[p],
                 started)
      /\ Arriving(p, sent[Peer(p)], started) /\ ratchets[p] \in Nat
  BY OfParty
<1>2. m.base \in Bases /\ m.body \in Bodies /\ (m.prekey => Owner(m.base) # p)
  BY <1>1 DEF Arriving, Known
<1>3. c.base = m.base /\ WellFormed(c.ratchet, m.base)
  <2>1. CASE c \in SessionsIn(record[p])
    <3>1. Opens(p, c, m)
      BY DEF OpenedBy
    <3>2. AttemptResult(p, TrySession(p, c, m).session, c, m, accepted[p], sent[p], consumed[p],
                        started)
      BY <1>1, <2>1, <3>1, HeldAttempt
    <3>3. WellFormed(c.ratchet, c.base)
      BY <1>1, <2>1 DEF PartyOK, RecordOK, SessionOK, Established
    <3> QED BY <3>2, <3>3 DEF AttemptResult
  <2>2. CASE c = NewSession(p, m)
    <3>1. c.base = m.base /\ c.ratchet = ResponderSession(Secret(m.base), SignedPreKey(p))
      BY <2>2 DEF NewSession
    <3>2. WellFormed(ResponderSession(Secret(m.base), SignedPreKey(p)), m.base)
      BY <1>2, ResponderOK
    <3> QED BY <3>1, <3>2
  <2> QED BY <2>1, <2>2 DEF OpenedBy
<1>4. AttemptFrom(p, c, m, r.current)
  <2> DEFINE x == Receive(c.ratchet, m.body, FreshKey(p), 0)
  <2>1. TrySession(p, c, m).result = "ok" /\ r.current = TrySession(p, c, m).session
    BY DEF OpenedBy, Opens
  <2> HIDE DEF x
  <2>2. TrySession(p, c, m) = Attempted(c, m, x)
    BY DEF TrySession, x
  <2>3. x.result = "ok" /\ r.current.base = c.base /\ r.current.ratchet = x.session
    BY <2>1, <2>2 DEF Attempted
  <2>4. WellFormed(x.session, m.base)
    <3> DEFINE s == c.ratchet
               f == FreshKey(p)
    <3>1. f \in KeyPairs
      BY <1>1 DEF FreshKey, KeyPairs
    <3>2. {} \in SUBSET Bodies /\ Erased(s, {})
      BY DEF Erased
    <3>3. Receive(s, m.body, f, 0).result = "ok" /\ WellFormed(s, m.base)
      BY <1>3, <2>3 DEF x
    <3> HIDE DEF s, f
    <3>4. OpenedOnce(m.base, Receive(s, m.body, f, 0).session, {}, m.body)
      BY <1>2, <3>1, <3>2, <3>3, ReceiveOpensOnce
    <3> QED BY <3>4 DEF OpenedOnce, x, s, f
  <2> QED BY <1>3, <2>3, <2>4 DEF AttemptFrom, x
<1> QED BY <1>2, <1>4

\* The key pair of the session after the attempt, and what that session has heard.
LEMMA AttemptKeys ==
  ASSUME IInv, DInv, NEW p \in Parties, NEW m \in sent[Peer(p)], NEW c, NEW r,
         OpenedBy(p, c, m, record[p], r, consumed[p])
  PROVE  /\ r.current.ratchet.DHs # FreshKey(p) =>
              <<r.current.ratchet.DHs, r.current.base>> \in Tags(record[p], sent[p])
         /\ HeardOf(p, r.current.ratchet, r.current.base, sent[Peer(p)])
<1> DEFINE b == m.base
           s == c.ratchet
           a == r.current
           f == FreshKey(p)
           inn == sent[Peer(p)]
<1>1. AttemptFrom(p, c, m, a) /\ b \in Bases /\ m.body \in Bodies
  BY DecryptAttempt
<1>2. f \in KeyPairs
  BY OfParty DEF FreshKey, KeyPairs
<1>3. /\ c.base = b /\ WellFormed(s, b) /\ Receive(s, m.body, f, 0).result = "ok" /\ a.base = b
      /\ a.ratchet = Receive(s, m.body, f, 0).session
  BY <1>1 DEF AttemptFrom
<1>4. Heard(a.ratchet) \subseteq Heard(s) \cup {m.body.rk} /\ a.ratchet.DHs \in {s.DHs, f}
  <2> HIDE DEF s, f, b, a
  <2> QED BY <1>1, <1>2, <1>3, ReceiveHeard
<1>5. m \in Of(inn, b)
  BY DEF Of
<1>6. CASE c \in SessionsIn(record[p])
  <2>1. <<s.DHs, b>> \in Tags(record[p], sent[p])
    BY <1>3, <1>6 DEF Tags
  <2>2. HeardOf(p, s, b, inn)
    BY <1>3, <1>6 DEF DInv, HeardOK
  <2> HIDE DEF a, f
  <2>3. a.ratchet.DHs # f => <<a.ratchet.DHs, a.base>> \in Tags(record[p], sent[p])
    BY <1>3, <1>4, <2>1
  <2>4. HeardOf(p, a.ratchet, a.base, inn)
    BY <1>3, <1>4, <1>5, <2>2 DEF HeardOf
  <2> QED BY <2>3, <2>4 DEF a, f
<1>7. CASE c = NewSession(p, m)
  <2>1. s = ResponderSession(Secret(b), SignedPreKey(p))
    BY <1>7 DEF NewSession
  <2> HIDE DEF a, f, s, b
  <2>2. a.ratchet.DHs = f /\ Heard(s) = {}
    BY <1>1, <1>2, <1>3, <2>1, NewAttempt
  <2>3. HeardOf(p, a.ratchet, a.base, inn)
    BY <1>3, <1>4, <1>5, <2>2 DEF HeardOf
  <2> QED BY <2>2, <2>3 DEF a, f
<1> QED BY <1>6, <1>7 DEF OpenedBy

\* decrypt() moves the thread of the message on, and leaves the others alone.
LEMMA DecryptDelivers ==
  ASSUME RoomForAll, IInv, IInv', DInv, NEW p \in Parties, NEW m \in sent[Peer(p)],
         Decrypt(p, m)
  PROVE  DInv'
<1> DEFINE rec == record[p]
           o == DecryptOutcome(p, m)
           r == o.record
           q == Peer(p)
           f == FreshKey(p)
           b == m.base
           a == r.current
           isf == a.ratchet.DHs = f
           k == ratchets[p]
           k2 == IF isf THEN k + 1 ELSE k
           con2 == IF m.prekey /\ MatchingSessions(rec, m.base) = {}
                     THEN consumed[p] \cup {m.base} ELSE consumed[p]
           acc2 == accepted[p] \cup {m}
<1>1. /\ o.result = "ok"
      /\ record' = [record EXCEPT ![p] = r]
      /\ consumed' = [consumed EXCEPT ![p] = con2]
      /\ accepted' = [accepted EXCEPT ![p] = acc2]
      /\ reopened' = [reopened EXCEPT ![p] = reopened[p] \cup CopiesLeft(r)]
      /\ started' = started /\ sent' = sent
      /\ isf => RatchetSteps < MaxRatchets
      /\ ratchets' = [ratchets EXCEPT ![p] = k2]
  BY DEF Decrypt
<1>2. /\ ByParty(record) /\ ByParty(consumed) /\ ByParty(sent) /\ ByParty(accepted)
      /\ ByParty(reopened) /\ ratchets \in [Parties -> Nat]
  BY DEF IInv
<1>3. PICK c : OpenedBy(p, c, m, rec, r, consumed[p])
  BY <1>1, DecryptMoves
<1>4. consumed[p] \subseteq con2
  OBVIOUS
<1> HIDE DEF isf, con2, acc2, r, o
<1>5. record'[p] = r /\ record'[q] = record[q]
  <2>1. ByParty(record) /\ ChangedAt(record', record, p, r)
    BY <1>1, <1>2 DEF ChangedAt
  <2> QED BY <2>1, OnePartyChanges
<1>6. consumed'[p] = con2 /\ consumed'[q] = consumed[q]
  <2>1. ByParty(consumed) /\ ChangedAt(consumed', consumed, p, con2)
    BY <1>1, <1>2 DEF ChangedAt
  <2> QED BY <2>1, OnePartyChanges
<1>7. accepted'[p] = acc2 /\ accepted'[q] = accepted[q]
  <2>1. ByParty(accepted) /\ ChangedAt(accepted', accepted, p, acc2)
    BY <1>1, <1>2 DEF ChangedAt
  <2> QED BY <2>1, OnePartyChanges
<1>8. reopened'[p] = reopened[p] \cup CopiesLeft(r) /\ reopened'[q] = reopened[q]
  <2>1. ByParty(reopened) /\ ChangedAt(reopened', reopened, p, reopened[p] \cup CopiesLeft(r))
    BY <1>1, <1>2 DEF ChangedAt
  <2> QED BY <2>1, OnePartyChanges
<1>9. /\ q \in Parties /\ q # p
      /\ k \in Nat /\ k2 \in Nat /\ k <= k2 /\ ratchets[q] \in Nat /\ ratchets[q] <= MaxRatchets
      /\ (k2 = k + 1 /\ isf) \/ (k2 = k /\ ~isf)
      /\ ratchets'[p] = k2 /\ ratchets'[q] = ratchets[q] /\ ratchets' \in [Parties -> Nat]
  <2>1. q \in Parties /\ q # p
    BY Peers
  <2>2. k \in Nat /\ ratchets[q] \in Nat /\ ratchets[q] <= MaxRatchets
    BY <2>1, FewRatchets
  <2>3. k2 \in Nat /\ k <= k2 /\ ((k2 = k + 1 /\ isf) \/ (k2 = k /\ ~isf))
    BY <2>2
  <2> QED BY <1>1, <1>2, <2>1, <2>2, <2>3
<1>10. /\ PartyOK(p, r, acc2, sent[p], sent[q], con2, reopened'[p], started)
  <2>1. \A x \in Parties : PartyOK(x, record'[x], accepted'[x], sent'[x], sent'[Peer(x)], consumed'[x],
                                  reopened'[x], started')
    BY DEF IInv
  <2>2. PartyOK(p, record'[p], accepted'[p], sent'[p], sent'[q], consumed'[p], reopened'[p], started')
    BY <2>1
  <2> QED BY <1>1, <1>5, <1>6, <1>7, <2>2
<1>11. RecordOK(p, r, acc2, sent[p], con2, reopened'[p], started)
  BY <1>10 DEF PartyOK
<1>12. /\ AttemptFrom(p, c, m, a) /\ b \in Bases /\ m.body \in Bodies
       /\ m.prekey => Owner(b) # p
       /\ a.ratchet.DHs # f => <<a.ratchet.DHs, a.base>> \in Tags(rec, sent[p])
       /\ HeardOf(p, a.ratchet, a.base, sent[q])
  BY <1>3, DecryptAttempt, AttemptKeys
<1>13. Moves(r, rec) /\ a.base = b
  BY <1>3, <1>12 DEF OpenedBy, AttemptFrom
<1>14. /\ c.base = b /\ WellFormed(c.ratchet, b) /\ WellFormed(a.ratchet, b)
       /\ Receive(c.ratchet, m.body, f, 0).result = "ok"
       /\ a.ratchet = Receive(c.ratchet, m.body, f, 0).session
  BY <1>12 DEF AttemptFrom
<1>15. Owner(b) # p => b \in con2
  <2>1. m \in acc2
    BY DEF acc2
  <2> QED BY <1>10, <2>1 DEF PartyOK
<1>16. f = <<p, "ratchet", k + 1>>
  BY DEF FreshKey
<1> HIDE DEF k2
<1>17. TagsOK(p, Tags(r, sent[p]), k2)
  <2> DEFINE T == Tags(rec, sent[p])
             T2 == Tags(r, sent[p])
             z == <<a.ratchet.DHs, a.base>>
  <2>1. TagsOK(p, T, k)
    BY DEF DInv
  <2>2. \A x \in T2 : x \in T \/ x = z
    BY <1>13, TagsMove
  <2>3. a.ratchet.DHs # f => z \in T
    BY <1>12
  <2>4. z = <<a.ratchet.DHs, b>>
    BY <1>13
  <2> HIDE DEF T, T2, z
  <2>5. CASE a.ratchet.DHs = f
    <3>1. k2 = k + 1
      BY <1>9, <2>5 DEF isf
    <3>2. z = <<<<p, "ratchet", k + 1>>, b>>
      BY <1>16, <2>4, <2>5
    <3>3. T2 \subseteq T \cup {<<<<p, "ratchet", k + 1>>, b>>}
      BY <2>2, <3>2
    <3>4. TagsOK(p, T2, k + 1)
      BY <1>9, <1>12, <2>1, <3>3, TagsRatchet
    <3> QED BY <3>1, <3>4 DEF T2
  <2>6. CASE a.ratchet.DHs # f
    <3>1. T2 \subseteq T
      BY <2>2, <2>3, <2>6
    <3>2. TagsOK(p, T2, k2)
      BY <1>9, <2>1, <3>1, TagsStay
    <3> QED BY <3>2 DEF T2
  <2> QED BY <2>5, <2>6
<1>18. HeardOK(p, r, sent[q])
  <2>1. HeardOK(p, rec, sent[q])
    BY DEF DInv
  <2> QED BY <1>12, <1>13, <2>1, HeardMove
<1>19. RatchetSteps' <= MaxRatchets
  <2>1. RatchetSteps = k + ratchets[q] /\ RatchetSteps' = k2 + ratchets[q]
    <3>1. ratchets[Alice] \in Nat /\ ratchets[Bob] \in Nat
      BY <1>2 DEF Parties
    <3>2. CASE p = Alice
      <4>1. q = Bob
        BY <3>2 DEF Peer
      <4> QED BY <1>9, <3>1, <3>2, <4>1 DEF RatchetSteps
    <3>3. CASE p = Bob
      <4>1. q = Alice
        BY <3>3, CipherAssumption DEF Peer
      <4> QED BY <1>9, <3>1, <3>3, <4>1 DEF RatchetSteps
    <3> QED BY <3>2, <3>3 DEF Parties
  <2>2. RatchetSteps <= MaxRatchets /\ MaxRatchets \in Nat
    BY BoundsAssumption DEF DInv
  <2> QED BY <1>1, <1>9, <2>1, <2>2
<1>20. ASSUME NEW x \in Known(started'), x \notin reopened'[p] \cup reopened'[q]
       PROVE  \E y, z : ThreadOf(x, p, y, z, record', consumed', sent', accepted', ratchets')
  <2>0. x \in Known(started) /\ x \notin reopened[p] \cup reopened[q]
    BY <1>1, <1>8, <1>20
  <2>1. PICK s, t : ThreadOf(x, p, s, t, record, consumed, sent, accepted, ratchets)
    BY <2>0 DEF DInv
  <2>2. CASE x # b
    <3>1. Keeps(record'[p], record[p], x)
      <4>1. Keeps(r, rec, x)
        BY <1>13, <2>2, MovesKeeps
      <4> QED BY <1>5, <4>1
    <3>2. Of(accepted'[p], x) = Of(accepted[p], x)
      BY <1>7, <2>2, OfKeeps DEF acc2
    <3>3. ThreadOf(x, p, s, t, record', consumed', sent, accepted', ratchets')
      BY <1>2, <1>4, <1>5, <1>6, <1>7, <1>9, <2>1, <3>1, <3>2, ThreadKeeps
    <3> QED BY <1>1, <3>3
  <2>3. CASE x = b
    <3>1. /\ Leads(s, t) \/ Leads(t, s)
          /\ Half(p, b, s, t, rec, consumed[p], sent[q], accepted[p], ratchets[q])
          /\ Half(q, b, t, s, record[q], consumed[q], sent[p], accepted[q], k)
      BY <2>1, <2>3 DEF ThreadOf
    <3>2. c.ratchet = s
      <4>1. CASE c \in SessionsIn(rec)
        BY <1>14, <3>1, <4>1 DEF Half, OnlyState
      <4>2. CASE c = NewSession(p, m) /\ m.prekey /\ m.base \notin consumed[p]
        <5>1. s = ResponderSession(Secret(b), SignedPreKey(p))
          BY <1>12, <3>1, <4>2 DEF Half
        <5> QED BY <4>2, <5>1 DEF NewSession
      <4> QED BY <1>3, <4>1, <4>2 DEF OpenedBy
    <3>3. OnlyState(r, b, a.ratchet)
      <4>1. \A y \in Range(r.archived) : y.base # b
        BY <1>8, <1>13, <1>20, <2>3 DEF CopiesLeft
      <4> QED BY <4>1 DEF SessionsIn, OnlyState
    <3> DEFINE u == a.ratchet
    <3>4. OpensTo(s, m, <<p, "ratchet", k + 1>>, u, b)
      BY <1>13, <1>14, <1>16, <3>2 DEF OpensTo
    <3>5. Counts(k2, k, u, <<p, "ratchet", k + 1>>)
      BY <1>9, <1>16 DEF Counts, isf
    <3>a. OnlyState(r, b, u)
      BY <3>3
    <3>b. b \in Bases /\ k \in Nat /\ k2 \in Nat /\ ratchets[q] \in Nat /\ ratchets[q] <= MaxRatchets
      BY <1>9, <1>12
    <3> HIDE DEF b, u, a, rec, f, k
    <3>c. /\ Half(p, b, u, t, r, con2, sent[q], accepted[p] \cup {m}, ratchets[q])
          /\ Half(q, b, t, u, record[q], consumed[q], sent[p], accepted[q], k2)
          /\ Leads(u, t) \/ Leads(t, u)
      BY ONLY RoomForAll, p \in Parties, m \in sent[q], <1>15, <3>1, <3>4, <3>5, <3>a, <3>b,
              OpenHalves
    <3>6. /\ Half(p, b, u, t, r, con2, sent[q], acc2, ratchets[q])
          /\ Half(q, b, t, u, record[q], consumed[q], sent[p], accepted[q], k2)
          /\ Leads(u, t) \/ Leads(t, u)
      BY <3>c DEF acc2
    <3>7. ThreadOf(b, p, u, t, record', consumed', sent', accepted', ratchets')
      BY <1>1, <1>5, <1>6, <1>7, <1>9, <3>6 DEF ThreadOf
    <3> QED BY <2>3, <3>7
  <2> QED BY <2>2, <2>3
<1>21. sent[p] \subseteq sent'[p] /\ sent'[q] = sent[q]
  BY <1>1
<1>22. TagsOK(p, Tags(record'[p], sent'[p]), ratchets'[p]) /\ HeardOK(p, record'[p], sent[q])
  <2>1. sent'[p] = sent[p]
    BY <1>1
  <2> QED BY <1>5, <1>9, <1>17, <1>18, <2>1
<1> QED BY <1>5, <1>9, <1>19, <1>20, <1>21, <1>22, ThreadStep

\* Every step keeps the threads.
LEMMA NextDelivers ==
  ASSUME RoomForAll, IInv, IInv', DInv, [Next]_vars
  PROVE  DInv'
<1>1. ASSUME NEW p \in Parties, StartSession(p) PROVE DInv'
  BY <1>1, StartDelivers
<1>2. ASSUME NEW p \in Parties, Encrypt(p) PROVE DInv'
  BY <1>2, EncryptDelivers
<1>3. ASSUME NEW p \in Parties, NEW m \in sent[Peer(p)], Decrypt(p, m) PROVE DInv'
  BY <1>3, DecryptDelivers
<1>4. ASSUME NEW p \in Parties, ArchiveSession(p) PROVE DInv'
  BY <1>4, ArchiveDelivers
<1>5. CASE UNCHANGED vars
  BY <1>5 DEF vars, DInv, RatchetSteps
<1>6. ASSUME NEW p \in Parties, NEW m \in sent[Peer(p)], DecryptFails(p, m) PROVE DInv'
  BY <1>5, <1>6 DEF DecryptFails
<1> QED BY <1>1, <1>2, <1>3, <1>4, <1>5, <1>6 DEF Next

-----------------------------------------------------------------------------
(* What the threads say of decrypt().                                      *)

\* A message that p has not received opens in the state of its thread.
LEMMA ThreadOpens ==
  ASSUME RoomForAll, NEW p \in Parties, NEW b \in Bases, NEW s, NEW t, NEW rec, NEW con,
         NEW inn, NEW acc, NEW n \in Nat, n <= MaxRatchets,
         Half(p, b, s, t, rec, con, inn, acc, n), acc \subseteq inn,
         NEW m \in inn, m \notin acc, m.base = b, NEW fresh \in KeyPairs
  PROVE  Receive(s, m.body, fresh, 0).result = "ok"
<1> DEFINE K == KeysOf(Peer(p), b, n)
           out == BodiesOf(inn, b)
           in == BodiesOf(acc, b)
           x == m.body
<1>1. Ample(s, K, b)
  BY HalfAmple
<1>2. Link(s, t, out, in, K, b) /\ Early(s, t) /\ BoundedMessage(x)
  BY DEF Half
<1>3. x \in out
  BY DEF BodiesOf
<1>4. x \notin in
  <2> SUFFICES ASSUME NEW l \in acc, l.base = b, l.body = x PROVE FALSE
    BY DEF BodiesOf
  <2>1. l = m
    BY DEF Half
  <2> QED BY <2>1
<1> HIDE DEF K, out, in, x
<1>5. Pending(s, t, x)
  BY <1>2, <1>3, <1>4 DEF Link, Pair
<1>6. 0 \in 0 .. MaxKeyAge
  BY RatchetAssumption
<1>7. /\ MaxSkip \in Nat /\ MaxCounter \in Nat /\ MaxCounter <= MaxSkip + 1
      /\ x.counter \in Nat /\ x.previousCounter \in Nat /\ x.counter < MaxCounter
      /\ s.Nr \in Nat /\ t.PN \in Nat
  BY <1>2, <1>3, RatchetAssumption
     DEF RoomForAll, Link, Bodies, BoundedMessage, WellFormed, Sender
<1>8. InStore(s, x) \/ Bridged(s, x)
  <2>1. CASE Ahead(s, x)
    BY <1>7, <2>1 DEF Ahead, Bridged
  <2>2. CASE Leads(t, s) /\ x.rk = t.DHs
    <3>1. x.previousCounter = t.PN /\ t.DHs \notin Mentions(s)
      BY <1>2, <1>3, <2>2 DEF Link, Pair, Sender
    <3>2. s.DHr # x.rk
      BY <2>2, <3>1, <1>2, <1>3, NoKeyAssumption DEF Mentions, Link, Bodies
    <3>3. s.DHr # NoKey => x.previousCounter <= s.Nr + MaxSkip
      <4>1. CASE s.Nr = 0
        BY <1>2, <1>7, <3>1, <4>1 DEF Early
      <4>2. CASE s.Nr # 0
        BY <1>2, <1>7, <4>2 DEF BoundedMessage
      <4> QED BY <4>1, <4>2
    <3> QED BY <1>7, <3>2, <3>3 DEF Bridged
  <2> QED BY <1>5, <2>1, <2>2 DEF Pending
<1>9. Receive(s, x, fresh, 0).result = "ok"
  BY <1>1, <1>2, <1>3, <1>5, <1>6, <1>8, PendingOpens
<1> QED BY <1>9 DEF x

\* The result of one attempt is that of the ratchet.
LEMMA TryResult ==
  ASSUME NEW p, NEW rec, NEW i, NEW m
  PROVE  TryCandidate(p, rec, i, m).result =
           Receive(Candidates(rec)[i].ratchet, m.body, FreshKey(p), 0).result
  BY DEF TryCandidate, TrySession, Attempted, Committed, Outcome

\* A message that p has not received, with a base key that was not reopened.
Waiting(p, m) ==
  /\ m \in sent[Peer(p)] /\ m \notin accepted[p]
  /\ m.base \notin reopened[p] \cup reopened[Peer(p)]

\* It opens in every session of its base key, there is no other session that takes it
\* for a duplicate, and it opens in a new session while its prekeys are there.
LEMMA WaitingOpens ==
  ASSUME RoomForAll, IInv, DInv, NEW p \in Parties, NEW m, Waiting(p, m)
  PROVE  /\ \A c \in SessionsIn(record[p]) :
              Receive(c.ratchet, m.body, FreshKey(p), 0).result =
                IF c.base = m.base THEN "ok" ELSE "failed"
         /\ m.prekey /\ m.base \notin consumed[p] =>
              Receive(NewSession(p, m).ratchet, m.body, FreshKey(p), 0).result = "ok"
<1> DEFINE rec == record[p]
           q == Peer(p)
           b == m.base
           f == FreshKey(p)
<1>1. /\ PartyOK(p, rec, accepted[p], sent[p], sent[q], consumed[p], reopened[p], started)
      /\ Arriving(p, sent[q], started) /\ ratchets[p] \in Nat
  BY OfParty
<1>2. /\ m \in sent[q] /\ m \notin accepted[p] /\ b \in Known(started) /\ b \in Bases
      /\ m.body \in Bodies /\ (m.prekey => Owner(b) # p)
  BY <1>1 DEF Waiting, Arriving, Known
<1>3. f \in KeyPairs
  BY <1>1 DEF FreshKey, KeyPairs
<1>4. q \in Parties /\ ratchets[q] \in Nat /\ ratchets[q] <= MaxRatchets
  BY Peers, FewRatchets
<1>5. PICK s, t : ThreadOf(b, p, s, t, record, consumed, sent, accepted, ratchets)
  BY <1>2 DEF DInv, Waiting
<1>6. Half(p, b, s, t, rec, consumed[p], sent[q], accepted[p], ratchets[q])
  BY <1>5 DEF ThreadOf
<1>7. accepted[p] \subseteq sent[q]
  BY <1>1 DEF PartyOK
<1>8. Receive(s, m.body, f, 0).result = "ok"
  <2> HIDE DEF rec, q, b, f
  <2>1. m.base = b
    BY DEF b
  <2> QED BY <1>2, <1>3, <1>4, <1>6, <1>7, <2>1, ThreadOpens
<1>9. ASSUME NEW c \in SessionsIn(rec), c.base = b
      PROVE  Receive(c.ratchet, m.body, f, 0).result = "ok"
  <2>1. c.ratchet = s
    BY <1>6, <1>9 DEF Half, OnlyState
  <2> QED BY <1>8, <2>1
<1>10. ASSUME NEW c \in SessionsIn(rec), c.base # b
       PROVE  Receive(c.ratchet, m.body, f, 0).result = "failed"
  <2> DEFINE x == Receive(c.ratchet, m.body, f, 0)
  <2>1. WellFormed(c.ratchet, c.base) /\ c.base \in Bases
    BY <1>1 DEF PartyOK, RecordOK, SessionOK, Established, Known
  <2>2. HeardOK(p, rec, sent[q]) /\ TagsOK(Peer(p), Tags(record[q], sent[q]), ratchets[q])
    BY <1>4 DEF DInv
  <2>3. m.body.rk \notin Heard(c.ratchet)
    BY <1>2, <1>10, <2>2, OtherHeard
  <2>4. x.result # "duplicate"
    BY <1>2, <2>1, <2>3, NoDuplicate
  <2>5. x.result # "ok"
    <3> SUFFICES ASSUME x.result = "ok" PROVE FALSE
      OBVIOUS
    <3>1. Opens(p, c, m)
      BY DEF Opens, TrySession, Attempted
    <3>2. AttemptResult(p, TrySession(p, c, m).session, c, m, accepted[p], sent[p], consumed[p],
                        started)
      BY <1>1, <1>2, <3>1, HeldAttempt
    <3> QED BY <1>10, <3>2 DEF AttemptResult
  <2>6. x.result \in {"ok", "failed", "duplicate"}
    BY ReceiveResults
  <2> QED BY <2>4, <2>5, <2>6
<1>11. ASSUME m.prekey, b \notin consumed[p]
       PROVE  Receive(NewSession(p, m).ratchet, m.body, f, 0).result = "ok"
  <2>1. s = ResponderSession(Secret(b), SignedPreKey(p))
    BY <1>2, <1>6, <1>11 DEF Half
  <2>2. NewSession(p, m).ratchet = s
    BY <2>1 DEF NewSession
  <2> QED BY <1>8, <2>2
<1> QED BY <1>9, <1>10, <1>11

\* Either the session is forgotten, or decrypt() returns the message.
LEMMA WaitingReturned ==
  ASSUME RoomForAll, IInv, DInv, NEW p \in Parties, NEW m, Waiting(p, m), ~Forgotten(p, m)
  PROVE  DecryptOutcome(p, m).result = "ok"
<1> DEFINE rec == record[p]
           b == m.base
           C == Candidates(rec)
           D == DOMAIN Candidates(rec)
           o == DecryptOutcome(p, m)
           matching == MatchingSessions(rec, b)
<1>1. IsSeq(rec.archived)
  BY OfParty DEF PartyOK, RecordOK, ArchiveOK
<1>2. /\ D \subseteq Nat /\ \A i \in D : C[i] \in SessionsIn(rec)
      /\ rec.current # NoSession => 1 \in D
  <2>1. /\ D \subseteq Nat \ {0} /\ (rec.current # NoSession => 1 \in D)
        /\ \A i \in D : IF rec.current = NoSession \/ i > 1 THEN C[i] \in Range(rec.archived)
                        ELSE C[i] = rec.current
    BY <1>1, CandidatesAre
  <2> HIDE DEF C, D
  <2> QED BY <2>1 DEF SessionsIn
<1>3. \A i \in D : TryCandidate(p, rec, i, m).result = IF C[i].base = b THEN "ok" ELSE "failed"
  BY <1>2, TryResult, WaitingOpens
<1>4. matching = {i \in D : C[i].base = b}
  BY DEF MatchingSessions
<1>5. matching # {} => Min(matching) \in matching
  <2>1. matching \subseteq Nat
    BY <1>2, <1>4
  <2> HIDE DEF matching
  <2> QED BY <2>1, MinIn
<1>6. CASE ~m.prekey
  <2> DEFINE tries == [i \in D |-> TryCandidate(p, rec, i, m)]
             ends == {i \in DOMAIN tries : tries[i].result # "failed"}
  <2>1. o = FirstDecided(rec, tries)
    BY <1>6 DEF DecryptOutcome, DecryptRatchet
  <2>2. matching # {}
    BY <1>6 DEF Forgotten
  <2>3. ends # {} /\ ends \subseteq Nat /\ \A i \in ends : tries[i].result = "ok"
    BY <1>2, <1>3, <1>4, <2>2
  <2>4. o = tries[Min(ends)]
    BY <2>1, <2>3 DEF FirstDecided
  <2> HIDE DEF ends, tries
  <2>5. Min(ends) \in ends
    BY <2>3, MinIn
  <2> QED BY <2>3, <2>4, <2>5
<1>7. CASE m.prekey
  <2> DEFINE k == IF matching = {} THEN 1 ELSE Min(matching)
             first == IF matching = {} /\ rec.current = NoSession
                        THEN Outcome("failed", rec)
                        ELSE TryCandidate(p, rec, k, m)
             new == Establish(p, rec, m)
  <2>1. o = OrElse(first, matching # {}, new)
    BY <1>7 DEF DecryptOutcome, DecryptPreKey
  <2>2. CASE matching # {}
    <3>1. first = TryCandidate(p, rec, Min(matching), m)
      BY <2>2
    <3>2. first.result = "ok"
      <4>1. Min(matching) \in D /\ C[Min(matching)].base = b
        BY <1>4, <1>5, <2>2
      <4> HIDE DEF first, matching
      <4> QED BY <1>3, <3>1, <4>1
    <3> HIDE DEF first, new
    <3> QED BY <2>1, <2>2, <3>2 DEF OrElse
  <2>3. CASE matching = {}
    <3>1. first.result = "failed"
      <4>1. CASE rec.current = NoSession
        BY <2>3, <4>1 DEF Outcome
      <4>2. CASE rec.current # NoSession
        <5>1. 1 \in D /\ C[1].base # b /\ first = TryCandidate(p, rec, 1, m)
          BY <1>2, <1>4, <2>3, <4>2
        <5> HIDE DEF first, matching
        <5> QED BY <1>3, <5>1
      <4> QED BY <4>1, <4>2
    <3>2. b \notin consumed[p]
      BY <1>7, <2>3 DEF Forgotten
    <3>3. Receive(NewSession(p, m).ratchet, m.body, FreshKey(p), 0).result = "ok"
      BY <1>7, <3>2, WaitingOpens
    <3>4. TrySession(p, NewSession(p, m), m).result = "ok"
      BY <3>3 DEF TrySession, Attempted
    <3>5. new.result = "ok"
      BY <3>2, <3>4 DEF Establish, Committed, Outcome
    <3> HIDE DEF first, new
    <3> QED BY <2>1, <2>3, <3>1, <3>5 DEF OrElse
  <2> QED BY <2>2, <2>3
<1> QED BY <1>6, <1>7

\* Where the storage limits are not reached, the two states of every base key, one at
\* each device, stay linked in both directions, and no ratchet key is used in two
\* sessions of a device.
THEOREM DeliveryInvariance == ASSUME RoomForAll PROVE Spec => [](IInv /\ DInv)
<1>1. Init => IInv /\ DInv
  BY InitOK, InitDelivers
<1>2. IInv /\ DInv /\ [Next]_vars => IInv' /\ DInv'
  BY NextOK, NextDelivers
<1> QED BY <1>1, <1>2, PTL DEF Spec

\* Every message that was sent and not received is returned by decrypt(), whoever
\* starts, archives or promotes which session when, in whatever order the messages
\* arrive, unless the record has forgotten the session or a skipped key reopened it.
THEOREM MessagesOpen == ASSUME RoomForAll PROVE Spec => []EveryMessageOpens
<1>1. IInv /\ DInv => EveryMessageOpens
  <2> SUFFICES ASSUME IInv, DInv, NEW p \in Parties, NEW m \in sent[Peer(p)] \ accepted[p],
                      m.base \notin reopened[p] \cup reopened[Peer(p)], ~Forgotten(p, m)
               PROVE  DecryptOutcome(p, m).result = "ok"
    BY DEF EveryMessageOpens
  <2>1. Waiting(p, m)
    BY DEF Waiting
  <2> QED BY <2>1, WaitingReturned
<1> QED BY <1>1, DeliveryInvariance, PTL

=============================================================================
