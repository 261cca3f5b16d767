------------------------ MODULE SessionRatchetProofs ------------------------
(***************************************************************************)
(* What holds of one session for every value of the limits, any number of  *)
(* messages and any order, repetition or loss of them: a message key opens *)
(* one message and encrypts one message.                                   *)
(*                                                                         *)
(* The argument measures keys by the length of the root they come from.    *)
(* Everything a party stores or has used lies behind its receiving chain:  *)
(* it is an earlier number of that chain, or a number of a chain whose     *)
(* root is not longer than the present one.  A DH ratchet makes both new   *)
(* chains longer than anything before, so no old key can come back.        *)
(***************************************************************************)
EXTENDS SessionRatchet, InductionLemmas, TLAPS

\* What may be mixed into a root key.
Mixed == {"SK", "CK"} \cup SUBSET KeyPairs

Fields == {"DHs", "DHr", "RK", "CKs", "Ns", "CKr", "Nr", "PN", "chains", "keys", "processed"}

Messages == [rk : KeyPairs, counter : Nat, previousCounter : Nat, chain : Seq(Mixed)]

\* The key number n of chain c lies behind the receiving chain of s.
Behind(s, c, n) == Len(c) <= Len(s.RK) /\ (c = s.CKr => n < s.Nr)

\* The part of a session state that the stored keys do not touch.
SameRatchet(t, s) ==
  /\ DOMAIN t = Fields
  /\ t.DHs = s.DHs /\ t.DHr = s.DHr /\ t.RK = s.RK /\ t.CKs = s.CKs
  /\ t.Ns = s.Ns /\ t.CKr = s.CKr /\ t.Nr = s.Nr /\ t.PN = s.PN

WellFormed(s) ==
  /\ DOMAIN s = Fields
  /\ s.DHs \in KeyPairs
  /\ s.RK \in Seq(Mixed)
  /\ s.Ns \in Nat /\ s.Nr \in Nat /\ s.PN \in Nat
  /\ s.DHr # NoKey => s.CKs = s.RK /\ s.CKr \in Seq(Mixed) /\ Len(s.CKr) <= Len(s.RK)
  /\ \A k \in s.keys : k.chain \in Seq(Mixed) /\ k.index \in Nat /\ Behind(s, k.chain, k.index)
  /\ \A k \in s.keys : k.chain = s.CKr => k.rk = s.DHr
  /\ \A k, j \in s.keys : k.chain = j.chain => k.rk = j.rk

\* The messages of acc can be opened no more.
Erased(s, acc) ==
  \A m \in acc :
    /\ Behind(s, m.chain, m.counter)
    /\ \A k \in s.keys : ~(k.chain = m.chain /\ k.index = m.counter)

\* The messages of out use keys that the sending chain has left behind.
SentBehind(s, out) ==
  /\ out = {} \/ s.CKs = s.RK
  /\ \A m \in out : IF m.chain = s.RK THEN m.counter < s.Ns ELSE Len(m.chain) <= Len(s.RK)

IInv ==
  /\ session = [p \in Parties |-> session[p]]
  /\ ratchets \in [Parties -> Nat]
  /\ sent \in [Parties -> SUBSET Messages]
  /\ accepted \in [Parties -> SUBSET Messages]
  /\ \A p \in Parties :
       /\ WellFormed(session[p])
       /\ Erased(session[p], accepted[p])
       /\ SentBehind(session[p], sent[p])

-----------------------------------------------------------------------------
(* The operators on stored keys.                                           *)

\* cleanupExpiredKeys() only removes.
LEMMA CleanupRemoves ==
  ASSUME NEW s, NEW t, WellFormed(s)
  PROVE  /\ SameRatchet(Cleanup(s, t), s)
         /\ Cleanup(s, t).keys \subseteq s.keys
  BY DEF Cleanup, WellFormed, SameRatchet, Fields

\* getOrCreateReceiverChain() only removes.
LEMMA ReceiverChainRemoves ==
  ASSUME NEW s, NEW rk, WellFormed(s)
  PROVE  /\ SameRatchet(ReceiverChain(s, rk), s)
         /\ ReceiverChain(s, rk).keys \subseteq s.keys
  BY DEF ReceiverChain, AddChain, WellFormed, SameRatchet, Fields

\* The loop over storeMessageKeyInChain() adds numbers of the receiving chain
\* from Nr up to, and without, the given one.
LEMMA StoreKeysAdds ==
  ASSUME NEW s, NEW until \in Nat, NEW t, WellFormed(s)
  PROVE  /\ SameRatchet(StoreKeys(s, until, t), s)
         /\ \A k \in StoreKeys(s, until, t).keys :
              \/ k \in s.keys
              \/ k.rk = s.DHr /\ k.chain = s.CKr /\ k.index \in s.Nr .. until - 1
<1>1. CASE until <= s.Nr
  BY <1>1 DEF StoreKeys, WellFormed, SameRatchet, Fields
<1>2. CASE ~(until <= s.Nr)
  <2> DEFINE c == ReceiverChain(s, s.DHr)
             new == {[rk |-> s.DHr, index |-> i, chain |-> s.CKr, at |-> t] :
                       i \in {j \in s.Nr .. until - 1 : SkippedKeys(c, s.DHr, j) = {}}}
             kept == KeepHighest(Stored(c, s.DHr) \cup new)
             r == [c EXCEPT !.keys = (@ \ Stored(c, s.DHr)) \cup kept]
  <2>1. SameRatchet(c, s) /\ c.keys \subseteq s.keys
    BY ReceiverChainRemoves
  <2>2. StoreKeys(s, until, t) = r
    BY <1>2 DEF StoreKeys
  <2>3. kept \subseteq Stored(c, s.DHr) \cup new
    BY DEF KeepHighest
  <2>4. SameRatchet(r, s) /\ r.keys = (c.keys \ Stored(c, s.DHr)) \cup kept
    BY <2>1 DEF SameRatchet, Fields
  <2>5. \A k \in new : k.rk = s.DHr /\ k.chain = s.CKr /\ k.index \in s.Nr .. until - 1
    OBVIOUS
  <2>6. Stored(c, s.DHr) \subseteq c.keys
    BY DEF Stored
  <2> HIDE DEF c, new, kept, r
  <2> QED BY <2>1, <2>2, <2>3, <2>4, <2>5, <2>6
<1> QED BY <1>1, <1>2

-----------------------------------------------------------------------------
(* What each path of Receive() does to a well-formed session.  In all of   *)
(* them acc is the set of the messages opened before.                      *)

\* A state that only lost stored keys keeps everything.
LEMMA LosingKeys ==
  ASSUME NEW s, NEW t, NEW acc, WellFormed(s), Erased(s, acc),
         SameRatchet(t, s), t.keys \subseteq s.keys
  PROVE  WellFormed(t) /\ Erased(t, acc)
  BY DEF WellFormed, Erased, SameRatchet, Behind

\* trySkippedMessageKeys(): the key is among the stored ones, and leaves them.
LEMMA SkippedOpensOnce ==
  ASSUME NEW s, NEW acc \in SUBSET Messages, NEW m \in Messages,
         WellFormed(s), Erased(s, acc), ReceiveSkipped(s, m).result = "ok"
  PROVE  LET t == ReceiveSkipped(s, m).session IN
         /\ m \notin acc
         /\ WellFormed(t) /\ Erased(t, acc \cup {m})
         /\ SameRatchet(t, s)
<1> DEFINE t == ConsumeSkipped(s, m.rk, m.counter)
<1>1. PICK k \in SkippedKeys(s, m.rk, m.counter) : k.chain = m.chain
  BY DEF ReceiveSkipped, Refused
<1>2. ReceiveSkipped(s, m).session = t
  BY <1>1 DEF ReceiveSkipped, Accepted
<1>3. k \in s.keys /\ k.rk = m.rk /\ k.index = m.counter
  BY <1>1 DEF SkippedKeys, Stored
<1>4. SameRatchet(t, s) /\ t.keys = s.keys \ SkippedKeys(s, m.rk, m.counter)
  BY DEF ConsumeSkipped, WellFormed, SameRatchet, Fields
<1>5. m \notin acc
  BY <1>1, <1>3 DEF Erased
<1>6. WellFormed(t) /\ Erased(t, acc)
  BY <1>4, LosingKeys
<1>7. \A j \in t.keys : ~(j.chain = m.chain /\ j.index = m.counter)
  BY <1>1, <1>3, <1>4 DEF WellFormed, SkippedKeys, Stored
<1>8. Behind(t, m.chain, m.counter)
  BY <1>1, <1>3, <1>4 DEF WellFormed, Behind, SameRatchet
<1> QED BY <1>2, <1>4, <1>5, <1>6, <1>7, <1>8 DEF Erased

\* storeSkippedKeys() and deriveReceivingKey(): the chain moves past the message.
LEMMA ChainOpensOnce ==
  ASSUME NEW s, NEW acc \in SUBSET Messages, NEW m \in Messages, NEW t,
         WellFormed(s), Erased(s, acc), s.CKr \in Seq(Mixed), Len(s.CKr) <= Len(s.RK),
         ReceiveInChain(s, m, t).result = "ok"
  PROVE  LET r == ReceiveInChain(s, m, t).session IN
         /\ m \notin acc /\ m.chain = s.CKr
         /\ WellFormed(r) /\ Erased(r, acc \cup {m})
         /\ r.RK = s.RK /\ r.CKs = s.CKs /\ r.Ns = s.Ns /\ r.DHr = s.DHr
<1> USE RatchetAssumption
<1> DEFINE u == StoreKeys(s, m.counter, t)
           r == [u EXCEPT !.Nr = m.counter + 1]
<1>0. m.counter \in Nat /\ s.Nr \in Nat
  BY DEF Messages, WellFormed
<1>1. /\ ReceiveInChain(s, m, t).session = r
      /\ s.Nr <= m.counter
      /\ m.chain = s.CKr
  BY <1>0 DEF ReceiveInChain, Refused, Accepted
<1>2. m \notin acc
  BY <1>0, <1>1 DEF Erased, Behind
<1>3. /\ SameRatchet(u, s)
      /\ \A k \in u.keys :
           \/ k \in s.keys
           \/ k.rk = s.DHr /\ k.chain = s.CKr /\ k.index \in s.Nr .. m.counter - 1
  BY <1>0, StoreKeysAdds
<1>4. /\ DOMAIN r = Fields /\ r.keys = u.keys /\ r.Nr = m.counter + 1
      /\ r.DHs = s.DHs /\ r.DHr = s.DHr /\ r.RK = s.RK /\ r.CKs = s.CKs
      /\ r.Ns = s.Ns /\ r.CKr = s.CKr /\ r.PN = s.PN
  BY <1>3 DEF SameRatchet, Fields
<1> HIDE DEF u, r
<1>5. \A k \in r.keys : k.chain \in Seq(Mixed) /\ k.index \in Nat /\ Behind(r, k.chain, k.index)
  BY <1>0, <1>1, <1>3, <1>4 DEF WellFormed, Behind
<1>6. \A k \in r.keys : k.chain = r.CKr => k.rk = r.DHr
  BY <1>3, <1>4 DEF WellFormed
<1>7. \A k, j \in r.keys : k.chain = j.chain => k.rk = j.rk
  BY <1>3, <1>4 DEF WellFormed
<1>8. WellFormed(r)
  BY <1>0, <1>4, <1>5, <1>6, <1>7 DEF WellFormed
<1>9. Erased(r, acc \cup {m})
  <2> SUFFICES ASSUME NEW a \in acc \cup {m}
               PROVE  /\ Behind(r, a.chain, a.counter)
                      /\ \A k \in r.keys : ~(k.chain = a.chain /\ k.index = a.counter)
    BY DEF Erased
  <2>1. a.counter \in Nat
    BY DEF Messages
  <2>2. CASE a = m
    BY <2>2, <1>0, <1>1, <1>3, <1>4 DEF Behind, WellFormed
  <2>3. CASE a \in acc
    BY <2>1, <2>3, <1>0, <1>1, <1>3, <1>4 DEF Behind, Erased
  <2> QED BY <2>2, <2>3
<1> QED BY <1>1, <1>2, <1>4, <1>8, <1>9

\* Storing the keys of the chain that ends keeps everything but the numbers
\* between Nr and previousCounter, which the present chain will never reach.
LEMMA CloseChainAdds ==
  ASSUME NEW s, NEW m \in Messages, NEW t, WellFormed(s)
  PROVE  LET c == CloseChain(s, m, t) IN
         /\ SameRatchet(c, s)
         /\ \A k \in c.keys :
              \/ k \in s.keys
              \/ /\ s.DHr # NoKey
                 /\ k.rk = s.DHr /\ k.chain = s.CKr /\ k.index \in Nat /\ k.index >= s.Nr
<1>0. m.previousCounter \in Nat /\ s.Nr \in Nat
  BY DEF Messages, WellFormed
<1>1. CASE s.DHr = NoKey \/ m.previousCounter = 0 \/ s.CKr = NoKey
  BY <1>1 DEF CloseChain, SameRatchet, WellFormed
<1>2. CASE ~(s.DHr = NoKey \/ m.previousCounter = 0 \/ s.CKr = NoKey)
  <2> DEFINE u == StoreKeys(s, m.previousCounter, t)
             c == [u EXCEPT !.processed =
                     {q \in @ : q.rk # s.DHr} \cup {[rk |-> s.DHr, at |-> t]}]
  <2>1. CloseChain(s, m, t) = c
    BY <1>2 DEF CloseChain
  <2>2. /\ SameRatchet(u, s)
        /\ \A k \in u.keys :
             \/ k \in s.keys
             \/ k.rk = s.DHr /\ k.chain = s.CKr /\ k.index \in s.Nr .. m.previousCounter - 1
    BY <1>0, StoreKeysAdds
  <2>3. SameRatchet(c, s) /\ c.keys = u.keys
    BY <2>2 DEF SameRatchet, Fields
  <2> HIDE DEF u, c
  <2> QED BY <1>0, <1>2, <2>1, <2>2, <2>3
<1> QED BY <1>1, <1>2

\* performDHRatchetStep(): the new receiving chain is longer than every chain
\* that the party has seen.
LEMMA RatchetIsFresh ==
  ASSUME NEW s, NEW acc \in SUBSET Messages, NEW m \in Messages, NEW t,
         NEW fresh \in KeyPairs, WellFormed(s), Erased(s, acc)
  PROVE  LET d == DHRatchet(CloseChain(s, m, t), m.rk, fresh) IN
         /\ WellFormed(d) /\ Erased(d, acc)
         /\ d.CKr \in Seq(Mixed) /\ Len(d.CKr) = Len(s.RK) + 1
         /\ d.RK \in Seq(Mixed) /\ Len(d.RK) = Len(s.RK) + 2 /\ d.CKs = d.RK
<1> DEFINE c == CloseChain(s, m, t)
           receiving == KdfRootKey(c.RK, DH(c.DHs, m.rk))
           sending == KdfRootKey(receiving, DH(fresh, m.rk))
           d == [c EXCEPT !.PN = c.Ns, !.Ns = 0, !.Nr = 0, !.DHr = m.rk, !.DHs = fresh,
                          !.CKr = receiving, !.CKs = sending, !.RK = sending]
<1>1. /\ SameRatchet(c, s)
      /\ \A k \in c.keys :
           \/ k \in s.keys
           \/ /\ s.DHr # NoKey
              /\ k.rk = s.DHr /\ k.chain = s.CKr /\ k.index \in Nat /\ k.index >= s.Nr
  BY CloseChainAdds
<1>2. DHRatchet(c, m.rk, fresh) = d
  BY DEF DHRatchet
<1>3. c.DHs \in KeyPairs /\ m.rk \in KeyPairs /\ c.RK \in Seq(Mixed) /\ c.RK = s.RK
  BY <1>1 DEF SameRatchet, WellFormed, Messages
<1>4. DH(c.DHs, m.rk) \in Mixed /\ DH(fresh, m.rk) \in Mixed
  BY <1>3 DEF DH, Mixed
<1>5. receiving \in Seq(Mixed) /\ Len(receiving) = Len(s.RK) + 1
  BY <1>3, <1>4 DEF KdfRootKey
<1>6. sending \in Seq(Mixed) /\ Len(sending) = Len(s.RK) + 2
  BY <1>3, <1>4, <1>5 DEF KdfRootKey
<1>7. /\ DOMAIN d = Fields /\ d.keys = c.keys /\ d.PN = s.Ns /\ d.Ns = 0 /\ d.Nr = 0
      /\ d.DHr = m.rk /\ d.DHs = fresh /\ d.CKr = receiving /\ d.CKs = sending
      /\ d.RK = sending
  BY <1>1 DEF SameRatchet, Fields
<1> HIDE DEF c, receiving, sending, d
<1>8. \A k \in d.keys : /\ k.chain \in Seq(Mixed) /\ k.index \in Nat
                        /\ Len(k.chain) <= Len(s.RK)
  BY <1>1, <1>7 DEF WellFormed, Behind
<1>9. \A k \in d.keys : k.chain # d.CKr /\ Behind(d, k.chain, k.index)
  BY <1>3, <1>5, <1>6, <1>7, <1>8 DEF Behind
<1>10. \A k, j \in d.keys : k.chain = j.chain => k.rk = j.rk
  BY <1>1, <1>7 DEF WellFormed
<1>11. s.Ns \in Nat
  BY DEF WellFormed
<1>12. WellFormed(d)
  BY <1>3, <1>5, <1>6, <1>7, <1>8, <1>9, <1>10, <1>11 DEF WellFormed
<1>13. \A a \in acc : Len(a.chain) <= Len(s.RK)
  BY DEF Erased, Behind
<1>14. Erased(d, acc)
  <2> SUFFICES ASSUME NEW a \in acc
               PROVE  /\ Behind(d, a.chain, a.counter)
                      /\ \A k \in d.keys : ~(k.chain = a.chain /\ k.index = a.counter)
    BY DEF Erased
  <2>1. a.counter \in Nat /\ a.chain \in Seq(Mixed) /\ s.Nr \in Nat
    BY DEF Messages, WellFormed
  <2>2. Behind(d, a.chain, a.counter)
    BY <1>3, <1>5, <1>6, <1>7, <1>13, <2>1 DEF Behind
  <2>3. \A k \in d.keys : ~(k.chain = a.chain /\ k.index = a.counter)
    BY <1>1, <1>7, <2>1 DEF Erased, Behind
  <2> QED BY <2>2, <2>3
<1> QED BY <1>2, <1>5, <1>6, <1>7, <1>12, <1>14 DEF c

\* How an attempt changes the sending side: not at all, or by a DH ratchet that
\* makes the root longer.
SendingSide(t, s) ==
  \/ t.RK = s.RK /\ t.CKs = s.CKs /\ t.Ns = s.Ns
  \/ /\ t.RK \in Seq(Mixed) /\ Len(t.RK) = Len(s.RK) + 2
     /\ t.CKs = t.RK /\ t.Ns \in Nat

\* decrypt() on the DH ratchet path.
LEMMA RatchetOpensOnce ==
  ASSUME NEW s, NEW acc \in SUBSET Messages, NEW m \in Messages, NEW t,
         NEW fresh \in KeyPairs, WellFormed(s), Erased(s, acc),
         ReceiveWithRatchet(s, m, fresh, t).result = "ok"
  PROVE  LET r == ReceiveWithRatchet(s, m, fresh, t).session IN
         /\ m \notin acc
         /\ WellFormed(r) /\ Erased(r, acc \cup {m}) /\ SendingSide(r, s)
<1> DEFINE d == DHRatchet(CloseChain(s, m, t), m.rk, fresh)
           r == ReceiveInChain(d, m, t)
<1>1. ReceiveWithRatchet(s, m, fresh, t) = r
  BY DEF ReceiveWithRatchet, Refused
<1>2. /\ WellFormed(d) /\ Erased(d, acc)
      /\ d.CKr \in Seq(Mixed) /\ Len(d.CKr) = Len(s.RK) + 1
      /\ d.RK \in Seq(Mixed) /\ Len(d.RK) = Len(s.RK) + 2 /\ d.CKs = d.RK
  BY RatchetIsFresh
<1>3. s.RK \in Seq(Mixed) /\ d.Ns \in Nat
  BY <1>2 DEF WellFormed
<1> HIDE DEF d
<1>4. /\ m \notin acc /\ WellFormed(r.session) /\ Erased(r.session, acc \cup {m})
      /\ r.session.RK = d.RK /\ r.session.CKs = d.CKs /\ r.session.Ns = d.Ns
  <2>1. Len(d.CKr) <= Len(d.RK)
    BY <1>2, <1>3
  <2>2. ReceiveInChain(d, m, t).result = "ok"
    BY <1>1
  <2> HIDE DEF r
  <2>3. LET q == ReceiveInChain(d, m, t).session IN
        /\ m \notin acc /\ m.chain = d.CKr
        /\ WellFormed(q) /\ Erased(q, acc \cup {m})
        /\ q.RK = d.RK /\ q.CKs = d.CKs /\ q.Ns = d.Ns /\ q.DHr = d.DHr
    BY <1>2, <2>1, <2>2, ChainOpensOnce
  <2> QED BY <2>3 DEF r
<1> QED BY <1>1, <1>2, <1>3, <1>4 DEF SendingSide

\* One attempt of decrypt(): it opens nothing that was opened before, and what
\* it opens it cannot open again.
LEMMA ReceiveOpensOnce ==
  ASSUME NEW s, NEW acc \in SUBSET Messages, NEW m \in Messages, NEW t,
         NEW fresh \in KeyPairs, WellFormed(s), Erased(s, acc),
         Receive(s, m, fresh, t).result = "ok"
  PROVE  LET r == Receive(s, m, fresh, t).session IN
         /\ m \notin acc
         /\ WellFormed(r) /\ Erased(r, acc \cup {m}) /\ SendingSide(r, s)
<1> DEFINE c == Cleanup(s, t)
<1>1. SameRatchet(c, s) /\ c.keys \subseteq s.keys
  BY CleanupRemoves
<1>2. WellFormed(c) /\ Erased(c, acc)
  BY <1>1, LosingKeys
<1>3. \A r : SendingSide(r, c) => SendingSide(r, s)
  BY <1>1 DEF SendingSide, SameRatchet
<1> HIDE DEF c
<1>4. CASE SkippedKeys(c, m.rk, m.counter) # {}
  <2>1. Receive(s, m, fresh, t) = ReceiveSkipped(c, m)
    BY <1>4 DEF Receive, c
  <2>2. LET q == ReceiveSkipped(c, m).session IN
        /\ m \notin acc
        /\ WellFormed(q) /\ Erased(q, acc \cup {m})
        /\ SameRatchet(q, c)
    BY <1>2, <2>1, SkippedOpensOnce
  <2>3. SendingSide(ReceiveSkipped(c, m).session, c)
    BY <2>2 DEF SendingSide, SameRatchet
  <2> QED BY <1>3, <2>1, <2>2, <2>3
<1>5. CASE SkippedKeys(c, m.rk, m.counter) = {} /\ c.DHr # NoKey /\ c.DHr = m.rk
  <2>1. Receive(s, m, fresh, t) = ReceiveInChain(c, m, t)
    BY <1>5 DEF Receive, c
  <2>2. c.CKr \in Seq(Mixed) /\ Len(c.CKr) <= Len(c.RK)
    BY <1>2, <1>5 DEF WellFormed
  <2>3. LET q == ReceiveInChain(c, m, t).session IN
        /\ m \notin acc /\ m.chain = c.CKr
        /\ WellFormed(q) /\ Erased(q, acc \cup {m})
        /\ q.RK = c.RK /\ q.CKs = c.CKs /\ q.Ns = c.Ns /\ q.DHr = c.DHr
    <3>1. ReceiveInChain(c, m, t).result = "ok"
      BY <2>1
    <3> QED BY <1>2, <2>2, <3>1, ChainOpensOnce
  <2>4. SendingSide(ReceiveInChain(c, m, t).session, c)
    BY <2>3 DEF SendingSide
  <2> QED BY <1>3, <2>1, <2>3, <2>4
<1>6. CASE /\ SkippedKeys(c, m.rk, m.counter) = {}
           /\ c.DHr = NoKey \/ (c.DHr # m.rk /\ ~ProcessedChain(c, m.rk))
  <2>1. Receive(s, m, fresh, t) = ReceiveWithRatchet(c, m, fresh, t)
    BY <1>6 DEF Receive, c
  <2> QED BY <1>2, <1>3, <2>1, RatchetOpensOnce
<1>7. CASE /\ SkippedKeys(c, m.rk, m.counter) = {}
           /\ c.DHr # NoKey /\ c.DHr # m.rk /\ ProcessedChain(c, m.rk)
  BY <1>7 DEF Receive, c, Refused
<1> QED BY <1>4, <1>5, <1>6, <1>7

-----------------------------------------------------------------------------
(* The invariant.                                                          *)

\* createInitiatorSession() makes a session that has used no key.
LEMMA InitiatorWellFormed ==
  ASSUME NEW a \in KeyPairs, NEW b \in KeyPairs
  PROVE  WellFormed(InitiatorSession("SK", a, b))
<1> DEFINE x == InitiatorSession("SK", a, b)
           root == Append(<<"SK">>, DH(a, b))
           ck == <<"SK", "CK">>
<1>1. DH(a, b) \in Mixed /\ "SK" \in Mixed /\ "CK" \in Mixed
  BY DEF DH, Mixed
<1>2. root \in Seq(Mixed) /\ Len(root) = 2
  BY <1>1
<1>3. ck \in Seq(Mixed) /\ Len(ck) = 2
  BY <1>1
<1>4. DOMAIN x = Fields
  BY DEF InitiatorSession, Fields
<1>5. /\ x.DHs = a /\ x.RK = root /\ x.CKs = root /\ x.Ns = 0 /\ x.Nr = 0 /\ x.PN = 0
      /\ x.CKr = ck /\ x.keys = {}
  BY DEF InitiatorSession, KdfRootKey
<1> HIDE DEF x, root, ck
<1>6. WellFormed(x)
  BY <1>2, <1>3, <1>4, <1>5 DEF WellFormed
<1> QED BY <1>6 DEF x

\* createResponderSession() makes a session that has used no key.
LEMMA ResponderWellFormed ==
  ASSUME NEW b \in KeyPairs
  PROVE  WellFormed(ResponderSession("SK", b))
<1> DEFINE x == ResponderSession("SK", b)
<1>1. <<"SK">> \in Seq(Mixed)
  BY DEF Mixed
<1>2. DOMAIN x = Fields
  BY DEF ResponderSession, Fields
<1>3. /\ x.DHs = b /\ x.DHr = NoKey /\ x.RK = <<"SK">> /\ x.Ns = 0 /\ x.Nr = 0 /\ x.PN = 0
      /\ x.keys = {}
  BY DEF ResponderSession
<1> HIDE DEF x
<1>4. WellFormed(x)
  BY <1>1, <1>2, <1>3 DEF WellFormed
<1> QED BY <1>4 DEF x

\* Both sessions start with nothing sent and nothing opened.
LEMMA InitIInv == Init => IInv
<1> SUFFICES ASSUME Init PROVE IInv
  OBVIOUS
<1>1. <<Alice, 0>> \in KeyPairs /\ <<Bob, 0>> \in KeyPairs
  BY DEF KeyPairs, Parties
<1>2. /\ session[Alice] = InitiatorSession("SK", <<Alice, 0>>, <<Bob, 0>>)
      /\ session[Bob] = ResponderSession("SK", <<Bob, 0>>)
  BY PartiesDiffer DEF Parties, Init
<1>3. \A p \in Parties : WellFormed(session[p])
  BY <1>1, <1>2, InitiatorWellFormed, ResponderWellFormed DEF Parties
<1>4. \A p \in Parties : Erased(session[p], accepted[p]) /\ SentBehind(session[p], sent[p])
  BY DEF Erased, SentBehind, Init
<1>5. session = [p \in Parties |-> session[p]]
  BY DEF Init
<1> QED BY <1>3, <1>4, <1>5 DEF IInv, Init

\* encrypt() keeps the invariant: the key it uses falls behind at once.
LEMMA EncryptIInv ==
  ASSUME IInv, NEW p \in Parties, Encrypt(p)
  PROVE  IInv'
<1> DEFINE s == session[p]
           c == Cleanup(s, now)
           m == MessageOf(c)
           t == AfterSend(c)
<1>1. /\ WellFormed(s) /\ Erased(s, accepted[p]) /\ SentBehind(s, sent[p])
      /\ accepted[p] \in SUBSET Messages /\ sent[p] \in SUBSET Messages
  BY DEF IInv
<1>2. SameRatchet(c, s) /\ c.keys \subseteq s.keys
  BY <1>1, CleanupRemoves
<1>3. WellFormed(c) /\ Erased(c, accepted[p])
  BY <1>1, <1>2, LosingKeys
<1>4. /\ CanSend(s)
      /\ sent' = [sent EXCEPT ![p] = @ \cup {m}]
      /\ session' = [session EXCEPT ![p] = t]
      /\ accepted' = accepted /\ ratchets' = ratchets
  BY DEF Encrypt
<1> HIDE DEF s, c
<1>5. /\ DOMAIN t = Fields /\ t.keys = c.keys /\ t.Ns = c.Ns + 1
      /\ t.DHs = c.DHs /\ t.DHr = c.DHr /\ t.RK = c.RK /\ t.CKs = c.CKs
      /\ t.CKr = c.CKr /\ t.Nr = c.Nr /\ t.PN = c.PN
  BY <1>3 DEF AfterSend, WellFormed, Fields
<1>6. c.CKs = c.RK
  BY <1>2, <1>3, <1>4 DEF CanSend, WellFormed, SameRatchet
<1>7. m.chain = c.RK /\ m.counter = c.Ns
  BY <1>6 DEF MessageOf
<1>8. m \in Messages
  <2>1. c.DHs \in KeyPairs /\ c.Ns \in Nat /\ c.PN \in Nat /\ c.CKs \in Seq(Mixed)
    BY <1>3, <1>6 DEF WellFormed
  <2> QED BY <2>1 DEF MessageOf, Messages
<1> HIDE DEF m, t
<1>9. WellFormed(t) /\ Erased(t, accepted[p])
  BY <1>3, <1>5 DEF WellFormed, Erased, Behind
<1>10. SentBehind(t, sent[p] \cup {m})
  <2>1. c.RK = s.RK /\ c.Ns = s.Ns /\ c.Ns \in Nat /\ c.RK \in Seq(Mixed)
    BY <1>2, <1>3 DEF SameRatchet, WellFormed
  <2>2. \A q \in sent[p] : q.counter \in Nat
    BY <1>1 DEF Messages
  <2> QED BY <1>1, <1>5, <1>6, <1>7, <2>1, <2>2 DEF SentBehind
<1>11. \A q \in Parties :
         /\ session'[q] = IF q = p THEN t ELSE session[q]
         /\ sent'[q] = IF q = p THEN sent[p] \cup {m} ELSE sent[q]
         /\ accepted'[q] = accepted[q]
  BY <1>4 DEF IInv
<1>12. /\ session' = [q \in Parties |-> session'[q]]
       /\ sent' \in [Parties -> SUBSET Messages]
  BY <1>1, <1>4, <1>8 DEF IInv
<1> QED BY <1>4, <1>9, <1>10, <1>11, <1>12 DEF IInv

\* decrypt() keeps the invariant.
LEMMA DecryptIInv ==
  ASSUME IInv, NEW p \in Parties, NEW m \in sent[Peer(p)], Decrypt(p, m)
  PROVE  IInv'
<1> DEFINE s == session[p]
           t == Attempt(p, m).session
<1>1. /\ WellFormed(s) /\ Erased(s, accepted[p]) /\ SentBehind(s, sent[p])
      /\ accepted[p] \in SUBSET Messages /\ sent[p] \in SUBSET Messages
      /\ ratchets[p] \in Nat
  BY DEF IInv
<1>2. m \in Messages
  BY DEF IInv, Peer, Parties
<1>3. FreshKey(p) \in KeyPairs
  BY <1>1 DEF FreshKey, KeyPairs
<1>4. /\ Receive(s, m, FreshKey(p), now).result = "ok"
      /\ session' = [session EXCEPT ![p] = t]
      /\ accepted' = [accepted EXCEPT ![p] = @ \cup {m}]
      /\ sent' = sent
  BY DEF Decrypt, Attempt
<1>5. ratchets' \in [Parties -> Nat]
  BY DEF Decrypt, IInv
<1>6. WellFormed(t) /\ Erased(t, accepted[p] \cup {m}) /\ SendingSide(t, s)
  <2> HIDE DEF s, t
  <2>1. LET r == Receive(s, m, FreshKey(p), now).session IN
        /\ WellFormed(r) /\ Erased(r, accepted[p] \cup {m}) /\ SendingSide(r, s)
    BY <1>1, <1>2, <1>3, <1>4, ReceiveOpensOnce
  <2> QED BY <2>1 DEF t, s, Attempt
<1> HIDE DEF s, t
<1>7. SentBehind(t, sent[p])
  <2>1. /\ s.RK \in Seq(Mixed)
        /\ \A q \in sent[p] : q.chain \in Seq(Mixed) /\ q.counter \in Nat
    BY <1>1 DEF WellFormed, Messages
  <2> QED BY <1>1, <1>6, <2>1 DEF SentBehind, SendingSide
<1>8. \A q \in Parties :
        /\ session'[q] = IF q = p THEN t ELSE session[q]
        /\ accepted'[q] = IF q = p THEN accepted[p] \cup {m} ELSE accepted[q]
        /\ sent'[q] = sent[q]
  BY <1>4 DEF IInv
<1>9. /\ session' = [q \in Parties |-> session'[q]]
      /\ accepted' \in [Parties -> SUBSET Messages]
      /\ sent' \in [Parties -> SUBSET Messages]
  BY <1>1, <1>2, <1>4 DEF IInv
<1> QED BY <1>5, <1>6, <1>7, <1>8, <1>9 DEF IInv

\* Every step keeps the invariant: encrypt(), decrypt(), a refusal, the clock.
LEMMA NextIInv == IInv /\ [Next]_vars => IInv'
<1> SUFFICES ASSUME IInv, [Next]_vars PROVE IInv'
  OBVIOUS
<1>1. ASSUME NEW p \in Parties, Encrypt(p) PROVE IInv'
  BY <1>1, EncryptIInv
<1>2. ASSUME NEW p \in Parties, NEW m \in sent[Peer(p)], Decrypt(p, m) PROVE IInv'
  BY <1>2, DecryptIInv
<1>3. CASE UNCHANGED <<session, ratchets, sent, accepted>>
  BY <1>3 DEF IInv
<1> QED BY <1>1, <1>2, <1>3 DEF Next, DecryptFails, Tick, vars

\* Everything that a session state stores and has used stays behind its chains.
THEOREM Invariance == Spec => []IInv
  BY InitIInv, NextIInv, PTL DEF Spec

\* The key that opened a message is not stored and cannot be derived any more,
\* for every limit and every behaviour of the transport.
THEOREM KeysAreErased == Spec => []KeyErased
<1>1. IInv => KeyErased
  BY DEF IInv, Erased, Behind, KeyErased, StoredKeys
<1> QED BY <1>1, Invariance, PTL

\* decrypt() returns each message at most once.
THEOREM ReplaysAreRefused == Spec => []ReplayRefused
<1>1. IInv => ReplayRefused
  <2> SUFFICES ASSUME IInv, NEW p \in Parties, NEW m \in accepted[p],
                      Attempt(p, m).result = "ok"
               PROVE  FALSE
    BY DEF ReplayRefused
  <2>1. /\ WellFormed(session[p]) /\ Erased(session[p], accepted[p])
        /\ accepted[p] \in SUBSET Messages /\ ratchets[p] \in Nat
    BY DEF IInv
  <2>2. FreshKey(p) \in KeyPairs
    BY <2>1 DEF FreshKey, KeyPairs
  <2>3. m \in Messages
    BY <2>1
  <2>4. Receive(session[p], m, FreshKey(p), now).result = "ok"
    BY DEF Attempt
  <2> QED BY <2>1, <2>2, <2>3, <2>4, ReceiveOpensOnce
<1> QED BY <1>1, Invariance, PTL

\* encrypt() uses each message key at most once.
THEOREM SendKeysAreFresh == Spec => []SendKeyFresh
<1>1. IInv => SendKeyFresh
  <2> SUFFICES ASSUME IInv, NEW p \in Parties, NEW m \in sent[p]
               PROVE  ~(m.chain = session[p].CKs /\ m.counter = session[p].Ns)
    BY DEF SendKeyFresh
  <2>1. session[p].Ns \in Nat /\ m.counter \in Nat
    BY DEF IInv, WellFormed, Messages
  <2> QED BY <2>1 DEF IInv, SentBehind
<1> QED BY <1>1, Invariance, PTL

-----------------------------------------------------------------------------
(* The type invariant: the counters of a session and of everything stored  *)
(* in it respect MAX_MESSAGE_COUNTER.                                      *)

Bounded(s) ==
  /\ s.DHr \in KeyPairs \cup {NoKey}
  /\ s.Ns <= MaxCounter /\ s.Nr <= MaxCounter /\ s.PN <= MaxCounter
  /\ \A k \in s.keys : k.rk \in KeyPairs /\ k.index < MaxCounter

BoundedMessage(m) == m.counter < MaxCounter /\ m.previousCounter <= MaxCounter

TInv ==
  /\ IInv
  /\ now \in 0 .. MaxTime
  /\ RatchetSteps <= MaxRatchets
  /\ \A p \in Parties :
       Bounded(session[p]) /\ (\A m \in sent[p] : BoundedMessage(m))

\* storeSkippedKeys() and deriveReceivingKey() pass no counter limit.
LEMMA ChainBounded ==
  ASSUME NEW s, NEW m \in Messages, NEW t, WellFormed(s), Bounded(s), s.DHr \in KeyPairs,
         ReceiveInChain(s, m, t).result = "ok"
  PROVE  Bounded(ReceiveInChain(s, m, t).session)
<1> USE RatchetAssumption
<1> DEFINE u == StoreKeys(s, m.counter, t)
           r == [u EXCEPT !.Nr = m.counter + 1]
<1>0. m.counter \in Nat /\ s.Nr \in Nat
  BY DEF Messages, WellFormed
<1>1. ReceiveInChain(s, m, t).session = r /\ m.counter < MaxCounter
  BY <1>0 DEF ReceiveInChain, Refused, Accepted
<1>2. /\ SameRatchet(u, s)
      /\ \A k \in u.keys :
           \/ k \in s.keys
           \/ k.rk = s.DHr /\ k.chain = s.CKr /\ k.index \in s.Nr .. m.counter - 1
  BY <1>0, StoreKeysAdds
<1>3. /\ r.keys = u.keys /\ r.Nr = m.counter + 1
      /\ r.DHr = s.DHr /\ r.Ns = s.Ns /\ r.PN = s.PN
  BY <1>2 DEF SameRatchet, Fields
<1> HIDE DEF u, r
<1>4. \A k \in r.keys : k.rk \in KeyPairs /\ k.index < MaxCounter
  BY <1>0, <1>1, <1>2, <1>3 DEF Bounded
<1>5. Bounded(r)
  BY <1>0, <1>1, <1>3, <1>4 DEF Bounded
<1> QED BY <1>1, <1>5

\* performDHRatchetStep() passes no counter limit: PN takes over Ns.
LEMMA RatchetBounded ==
  ASSUME NEW s, NEW m \in Messages, NEW t, NEW fresh \in KeyPairs,
         WellFormed(s), Bounded(s), BoundedMessage(m)
  PROVE  LET d == DHRatchet(CloseChain(s, m, t), m.rk, fresh) IN
         Bounded(d) /\ d.DHr \in KeyPairs
<1> USE RatchetAssumption
<1> DEFINE c == CloseChain(s, m, t)
           d == DHRatchet(c, m.rk, fresh)
<1>0. m.previousCounter \in Nat /\ s.Nr \in Nat /\ m.rk \in KeyPairs
  BY DEF Messages, WellFormed
<1>1. SameRatchet(c, s)
  BY CloseChainAdds
<1>2. \A k \in c.keys : k.rk \in KeyPairs /\ k.index < MaxCounter
  <2>1. CASE s.DHr = NoKey \/ m.previousCounter = 0 \/ s.CKr = NoKey
    BY <2>1 DEF CloseChain, Bounded
  <2>2. CASE ~(s.DHr = NoKey \/ m.previousCounter = 0 \/ s.CKr = NoKey)
    <3> DEFINE u == StoreKeys(s, m.previousCounter, t)
    <3>1. /\ SameRatchet(u, s)
          /\ \A k \in u.keys :
               \/ k \in s.keys
               \/ k.rk = s.DHr /\ k.chain = s.CKr /\ k.index \in s.Nr .. m.previousCounter - 1
      BY <1>0, StoreKeysAdds
    <3>2. c.keys = u.keys
      BY <2>2, <3>1 DEF CloseChain, SameRatchet, Fields
    <3> HIDE DEF u, c
    <3> QED BY <1>0, <2>2, <3>1, <3>2 DEF Bounded, BoundedMessage
  <2> QED BY <2>1, <2>2
<1> HIDE DEF c
<1>3. /\ d.keys = c.keys /\ d.PN = s.Ns /\ d.Ns = 0 /\ d.Nr = 0 /\ d.DHr = m.rk
  BY <1>1 DEF DHRatchet, SameRatchet, Fields
<1> HIDE DEF d
<1>4. Bounded(d) /\ d.DHr \in KeyPairs
  BY <1>0, <1>2, <1>3 DEF Bounded
<1> QED BY <1>4 DEF d, c

\* An attempt of decrypt() passes no counter limit.
LEMMA ReceiveBounded ==
  ASSUME NEW s, NEW m \in Messages, NEW t, NEW fresh \in KeyPairs,
         WellFormed(s), Bounded(s), BoundedMessage(m), Receive(s, m, fresh, t).result = "ok"
  PROVE  Bounded(Receive(s, m, fresh, t).session)
<1> DEFINE c == Cleanup(s, t)
<1>1. SameRatchet(c, s) /\ c.keys \subseteq s.keys
  BY CleanupRemoves
<1>2. WellFormed(c)
  <2>1. Erased(s, {})
    BY DEF Erased
  <2> QED BY <1>1, <2>1, LosingKeys
<1>3. Bounded(c)
  BY <1>1 DEF Bounded, SameRatchet
<1> HIDE DEF c
<1>4. CASE SkippedKeys(c, m.rk, m.counter) # {}
  <2> DEFINE r == ConsumeSkipped(c, m.rk, m.counter)
  <2>1. Receive(s, m, fresh, t).session = r
    BY <1>4 DEF Receive, c, ReceiveSkipped, Accepted, Refused
  <2>2. r.keys \subseteq c.keys /\ SameRatchet(r, c)
    BY <1>2 DEF ConsumeSkipped, WellFormed, SameRatchet, Fields
  <2> HIDE DEF r
  <2> QED BY <1>3, <2>1, <2>2 DEF Bounded, SameRatchet
<1>5. CASE SkippedKeys(c, m.rk, m.counter) = {} /\ c.DHr # NoKey /\ c.DHr = m.rk
  <2>1. Receive(s, m, fresh, t) = ReceiveInChain(c, m, t)
    BY <1>5 DEF Receive, c
  <2>2. ReceiveInChain(c, m, t).result = "ok" /\ c.DHr \in KeyPairs
    BY <1>5, <2>1 DEF Messages
  <2> QED BY <1>2, <1>3, <2>1, <2>2, ChainBounded
<1>6. CASE /\ SkippedKeys(c, m.rk, m.counter) = {}
           /\ c.DHr = NoKey \/ (c.DHr # m.rk /\ ~ProcessedChain(c, m.rk))
  <2> DEFINE d == DHRatchet(CloseChain(c, m, t), m.rk, fresh)
  <2>1. Receive(s, m, fresh, t) = ReceiveInChain(d, m, t)
    BY <1>6 DEF Receive, c, ReceiveWithRatchet, Refused
  <2>2. Bounded(d) /\ d.DHr \in KeyPairs
    BY <1>2, <1>3, RatchetBounded
  <2>3. WellFormed(d)
    <3>1. Erased(c, {}) /\ {} \in SUBSET Messages
      BY DEF Erased
    <3> QED BY <1>2, <3>1, RatchetIsFresh
  <2> HIDE DEF d
  <2>4. ReceiveInChain(d, m, t).result = "ok"
    BY <2>1
  <2> QED BY <2>1, <2>2, <2>3, <2>4, ChainBounded
<1>7. CASE /\ SkippedKeys(c, m.rk, m.counter) = {}
           /\ c.DHr # NoKey /\ c.DHr # m.rk /\ ProcessedChain(c, m.rk)
  BY <1>7 DEF Receive, c, Refused
<1> QED BY <1>4, <1>5, <1>6, <1>7

\* The first states respect the limits.
LEMMA InitTInv == Init => TInv
<1> SUFFICES ASSUME Init PROVE TInv
  OBVIOUS
<1> USE RatchetAssumption, BoundsAssumption
<1>1. IInv
  BY InitIInv
<1>2. now \in 0 .. MaxTime /\ RatchetSteps <= MaxRatchets
  BY DEF Init, RatchetSteps, Parties
<1>3. <<Bob, 0>> \in KeyPairs
  BY DEF KeyPairs, Parties
<1>4. Bounded(InitiatorSession("SK", <<Alice, 0>>, <<Bob, 0>>))
  BY <1>3 DEF InitiatorSession, Bounded
<1>5. Bounded(ResponderSession("SK", <<Bob, 0>>))
  BY DEF ResponderSession, Bounded
<1>6. \A p \in Parties : Bounded(session[p]) /\ sent[p] = {}
  BY <1>4, <1>5 DEF Init
<1> QED BY <1>1, <1>2, <1>6 DEF TInv

\* Every step keeps the limits of the counters and of the sent headers.
LEMMA NextTInv == TInv /\ [Next]_vars => TInv'
<1> SUFFICES ASSUME TInv, [Next]_vars PROVE TInv'
  OBVIOUS
<1> USE RatchetAssumption, BoundsAssumption
<1>1. IInv /\ IInv'
  BY NextIInv DEF TInv
<1>2. ASSUME NEW p \in Parties, Encrypt(p) PROVE TInv'
  <2> DEFINE c == Cleanup(session[p], now)
             m == MessageOf(c)
             t == AfterSend(c)
  <2>1. /\ sent' = [sent EXCEPT ![p] = @ \cup {m}]
        /\ session' = [session EXCEPT ![p] = t]
        /\ ratchets' = ratchets /\ now' = now /\ ~(c.Ns >= MaxCounter)
    BY <1>2 DEF Encrypt, SendOverflows
  <2>2. WellFormed(session[p]) /\ Bounded(session[p])
    BY <1>1 DEF IInv, TInv
  <2>3. SameRatchet(c, session[p]) /\ c.keys \subseteq session[p].keys
    BY <2>2, CleanupRemoves
  <2>4. c.Ns \in Nat /\ c.PN <= MaxCounter /\ c.Nr <= MaxCounter
    BY <2>2, <2>3 DEF WellFormed, Bounded, SameRatchet
  <2> HIDE DEF c
  <2>5. /\ t.keys = c.keys /\ t.Ns = c.Ns + 1 /\ t.DHr = c.DHr /\ t.Nr = c.Nr /\ t.PN = c.PN
    BY <2>3 DEF AfterSend, SameRatchet, Fields
  <2>6. BoundedMessage(m)
    BY <2>1, <2>4 DEF MessageOf, BoundedMessage
  <2> HIDE DEF m, t
  <2>7. Bounded(t)
    BY <2>1, <2>2, <2>3, <2>4, <2>5 DEF Bounded, SameRatchet
  <2>8. \A q \in Parties :
          /\ session'[q] = IF q = p THEN t ELSE session[q]
          /\ sent'[q] = IF q = p THEN sent[p] \cup {m} ELSE sent[q]
    BY <1>1, <2>1 DEF IInv
  <2>9. (RatchetSteps <= MaxRatchets)' /\ now' \in 0 .. MaxTime
    BY <2>1 DEF RatchetSteps, TInv
  <2> QED BY <1>1, <2>6, <2>7, <2>8, <2>9 DEF TInv
<1>3. ASSUME NEW p \in Parties, NEW m \in sent[Peer(p)], Decrypt(p, m) PROVE TInv'
  <2> DEFINE t == Attempt(p, m).session
  <2>1. /\ Receive(session[p], m, FreshKey(p), now).result = "ok"
        /\ session' = [session EXCEPT ![p] = t]
        /\ sent' = sent /\ now' = now
        /\ ratchets' = [ratchets EXCEPT ![p] = IF t.DHs = session[p].DHs THEN @ ELSE @ + 1]
        /\ t.DHs # session[p].DHs => RatchetSteps < MaxRatchets
    BY <1>3 DEF Decrypt, Attempt
  <2>2. /\ WellFormed(session[p]) /\ Bounded(session[p]) /\ ratchets[p] \in Nat
        /\ m \in Messages /\ BoundedMessage(m)
    BY <1>1 DEF IInv, TInv, Peer, Parties
  <2>3. FreshKey(p) \in KeyPairs
    BY <2>2 DEF FreshKey, KeyPairs
  <2>4. Bounded(t)
    BY <2>1, <2>2, <2>3, ReceiveBounded DEF Attempt
  <2> HIDE DEF t
  <2>5. \A q \in Parties : /\ session'[q] = IF q = p THEN t ELSE session[q]
                           /\ sent'[q] = sent[q]
    BY <1>1, <2>1 DEF IInv
  <2>6. RatchetSteps' <= MaxRatchets
    <3>1. ratchets \in [Parties -> Nat] /\ RatchetSteps <= MaxRatchets
      BY <1>1 DEF IInv, TInv
    <3> QED BY <2>1, <3>1, PartiesDiffer DEF RatchetSteps, Parties
  <2> QED BY <1>1, <2>1, <2>4, <2>5, <2>6 DEF TInv
<1>4. CASE Tick
  BY <1>1, <1>4 DEF Tick, TInv, RatchetSteps
<1>5. CASE UNCHANGED vars
  BY <1>1, <1>5 DEF vars, TInv, RatchetSteps
<1> QED BY <1>2, <1>3, <1>4, <1>5 DEF Next, DecryptFails

\* No counter of a session or of a stored key passes its limit.
THEOREM TypeCorrect == Spec => []TypeOK
<1>1. TInv => TypeOK
  <2> SUFFICES ASSUME TInv PROVE TypeOK
    OBVIOUS
  <2> USE RatchetAssumption, BoundsAssumption
  <2>1. ratchets \in [Parties -> 0 .. MaxRatchets]
    <3>1. ratchets \in [Parties -> Nat] /\ ratchets[Alice] + ratchets[Bob] <= MaxRatchets
      BY DEF TInv, IInv, RatchetSteps
    <3> QED BY <3>1 DEF Parties
  <2>2. ASSUME NEW p \in Parties
        PROVE  LET s == session[p] IN
               /\ s.DHs \in KeyPairs /\ s.DHr \in KeyPairs \cup {NoKey}
               /\ s.Ns \in 0 .. MaxCounter /\ s.Nr \in 0 .. MaxCounter /\ s.PN \in 0 .. MaxCounter
               /\ \A k \in s.keys : k.rk \in KeyPairs /\ k.index \in 0 .. MaxCounter - 1
    BY DEF TInv, IInv, WellFormed, Bounded
  <2> QED BY <2>1, <2>2 DEF TypeOK, TInv
<1> QED BY <1>1, InitTInv, NextTInv, PTL DEF Spec

-----------------------------------------------------------------------------
(* The two roots.  A party can ratchet only with a message on a chain one  *)
(* step beyond its own root, and the only such chain that the peer has     *)
(* sent on is the peer's present one.                                      *)

\* Root b is one step beyond root a.
OneBeyond(b, a) == Len(b) = Len(a) + 1 /\ SubSeq(b, 1, Len(a)) = a

\* What was sent is on the present root, or on an earlier and shorter one.
SentOlder(s, out) == \A m \in out : m.chain = s.RK \/ Len(m.chain) < Len(s.RK)

RInv ==
  /\ IInv
  /\ RootsInStep
  /\ \A p \in Parties : SentOlder(session[p], sent[p])

\* How an attempt changes the root: not at all, or by two steps of which the
\* message is on the first.
RootMoves(r, s, m) ==
  \/ r.RK = s.RK
  \/ \E x, y \in Mixed : m.chain = Append(s.RK, x) /\ r.RK = Append(m.chain, y)

\* A message received moves the root by no step, or by the two of a ratchet.
LEMMA ReceiveMovesRoot ==
  ASSUME NEW s, NEW m \in Messages, NEW t, NEW fresh \in KeyPairs,
         WellFormed(s), Receive(s, m, fresh, t).result = "ok"
  PROVE  RootMoves(Receive(s, m, fresh, t).session, s, m)
<1> DEFINE c == Cleanup(s, t)
<1>0. m.counter \in Nat /\ m.rk \in KeyPairs
  BY DEF Messages
<1>1. SameRatchet(c, s) /\ c.keys \subseteq s.keys
  BY CleanupRemoves
<1>2. WellFormed(c)
  <2>1. Erased(s, {})
    BY DEF Erased
  <2> QED BY <1>1, <2>1, LosingKeys
<1> HIDE DEF c
<1>3. ASSUME NEW u, WellFormed(u), ReceiveInChain(u, m, t).result = "ok"
      PROVE  ReceiveInChain(u, m, t).session.RK = u.RK /\ m.chain = u.CKr
  <2> DEFINE k == StoreKeys(u, m.counter, t)
  <2>1. SameRatchet(k, u)
    BY <1>0, <1>3, StoreKeysAdds
  <2>2. m.chain = u.CKr /\ ReceiveInChain(u, m, t).session = [k EXCEPT !.Nr = m.counter + 1]
    BY <1>3 DEF ReceiveInChain, Refused, Accepted
  <2> HIDE DEF k
  <2>3. [k EXCEPT !.Nr = m.counter + 1].RK = u.RK
    BY <2>1 DEF SameRatchet, Fields
  <2> QED BY <2>2, <2>3
<1>4. CASE SkippedKeys(c, m.rk, m.counter) # {}
  <2> DEFINE r == ConsumeSkipped(c, m.rk, m.counter)
  <2>1. Receive(s, m, fresh, t).session = r
    BY <1>4 DEF Receive, c, ReceiveSkipped, Accepted, Refused
  <2>2. SameRatchet(r, c)
    BY <1>2 DEF ConsumeSkipped, WellFormed, SameRatchet, Fields
  <2> HIDE DEF r
  <2> QED BY <1>1, <2>1, <2>2 DEF RootMoves, SameRatchet
<1>5. CASE SkippedKeys(c, m.rk, m.counter) = {} /\ c.DHr # NoKey /\ c.DHr = m.rk
  <2>1. Receive(s, m, fresh, t) = ReceiveInChain(c, m, t)
    BY <1>5 DEF Receive, c
  <2>2. ReceiveInChain(c, m, t).session.RK = c.RK
    BY <1>2, <1>3, <2>1
  <2> QED BY <1>1, <2>1, <2>2 DEF RootMoves, SameRatchet
<1>6. CASE /\ SkippedKeys(c, m.rk, m.counter) = {}
           /\ c.DHr = NoKey \/ (c.DHr # m.rk /\ ~ProcessedChain(c, m.rk))
  <2> DEFINE e == CloseChain(c, m, t)
             d == DHRatchet(e, m.rk, fresh)
             x == DH(e.DHs, m.rk)
             y == DH(fresh, m.rk)
  <2>1. Receive(s, m, fresh, t) = ReceiveInChain(d, m, t)
    BY <1>6 DEF Receive, c, ReceiveWithRatchet, Refused
  <2>2. WellFormed(d)
    <3>1. Erased(c, {}) /\ {} \in SUBSET Messages
      BY DEF Erased
    <3> QED BY <1>2, <3>1, RatchetIsFresh
  <2>3. SameRatchet(e, c)
    BY <1>2, CloseChainAdds
  <2>4. e.RK = s.RK /\ e.DHs \in KeyPairs
    BY <1>1, <1>2, <2>3 DEF SameRatchet, WellFormed
  <2>5. x \in Mixed /\ y \in Mixed
    BY <1>0, <2>4 DEF DH, Mixed
  <2> HIDE DEF e, x, y
  <2>6. d.CKr = Append(e.RK, x) /\ d.RK = Append(Append(e.RK, x), y)
    BY <2>3 DEF DHRatchet, KdfRootKey, SameRatchet, Fields, x, y
  <2> HIDE DEF d
  <2>7. ReceiveInChain(d, m, t).session.RK = d.RK /\ m.chain = d.CKr
    BY <1>3, <2>1, <2>2
  <2> QED BY <2>1, <2>4, <2>5, <2>6, <2>7 DEF RootMoves
<1>7. CASE /\ SkippedKeys(c, m.rk, m.counter) = {}
           /\ c.DHr # NoKey /\ c.DHr # m.rk /\ ProcessedChain(c, m.rk)
  BY <1>7 DEF Receive, c, Refused
<1> QED BY <1>4, <1>5, <1>6, <1>7

\* A ratchet of the party with root a, with a message of the peer on chain c.
LEMMA RatchetTakesTheLead ==
  ASSUME NEW a \in Seq(Mixed), NEW b \in Seq(Mixed), OneBeyond(a, b) \/ OneBeyond(b, a),
         NEW c, c = b \/ Len(c) < Len(b),
         NEW x \in Mixed, NEW y \in Mixed, c = Append(a, x)
  PROVE  OneBeyond(Append(c, y), b)
<1>1. Len(c) = Len(a) + 1 /\ Len(a) \in Nat /\ Len(b) \in Nat /\ c \in Seq(Mixed)
  OBVIOUS
<1>2. ~OneBeyond(a, b)
  BY <1>1 DEF OneBeyond
<1>3. c = b
  BY <1>1, <1>2 DEF OneBeyond
<1>4. Len(Append(b, y)) = Len(b) + 1 /\ SubSeq(Append(b, y), 1, Len(b)) = b
  OBVIOUS
<1> QED BY <1>3, <1>4 DEF OneBeyond

\* Alice's root is one step beyond Bob's.
LEMMA InitRInv == Init => RInv
<1> SUFFICES ASSUME Init PROVE RInv
  OBVIOUS
<1>1. IInv
  BY InitIInv
<1>2. /\ session[Alice] = InitiatorSession("SK", <<Alice, 0>>, <<Bob, 0>>)
      /\ session[Bob] = ResponderSession("SK", <<Bob, 0>>)
  BY PartiesDiffer DEF Parties, Init
<1> DEFINE x == DH(<<Alice, 0>>, <<Bob, 0>>)
<1>3. session[Alice].RK = Append(<<"SK">>, x) /\ session[Bob].RK = <<"SK">>
  BY <1>2 DEF InitiatorSession, ResponderSession, KdfRootKey
<1> DEFINE b == <<"SK">>
<1>4. b \in Seq(Mixed) /\ x \in Mixed
  BY DEF Mixed, DH, KeyPairs, Parties
<1> HIDE DEF b, x
<1>5. Len(Append(b, x)) = Len(b) + 1 /\ SubSeq(Append(b, x), 1, Len(b)) = b
  BY <1>4
<1>6. RootsInStep
  BY <1>3, <1>5 DEF RootsInStep, b
<1> QED BY <1>1, <1>6 DEF RInv, SentOlder, Init

\* The roots stay in step at every send and every receive.
LEMMA NextRInv == RInv /\ [Next]_vars => RInv'
<1> SUFFICES ASSUME RInv, [Next]_vars PROVE RInv'
  OBVIOUS
<1>1. IInv /\ IInv'
  BY NextIInv DEF RInv
<1>2. ASSUME NEW p \in Parties, Encrypt(p) PROVE RInv'
  <2> DEFINE c == Cleanup(session[p], now)
             m == MessageOf(c)
             t == AfterSend(c)
  <2>1. /\ CanSend(session[p])
        /\ sent' = [sent EXCEPT ![p] = @ \cup {m}]
        /\ session' = [session EXCEPT ![p] = t]
    BY <1>2 DEF Encrypt
  <2>2. WellFormed(session[p]) /\ SentOlder(session[p], sent[p])
    BY <1>1 DEF IInv, RInv
  <2>3. SameRatchet(c, session[p])
    BY <2>2, CleanupRemoves
  <2>4. c.CKs = session[p].RK
    BY <2>1, <2>2, <2>3 DEF CanSend, WellFormed, SameRatchet
  <2> HIDE DEF c
  <2>5. t.RK = session[p].RK
    BY <2>3 DEF AfterSend, SameRatchet, Fields
  <2>6. m.chain = session[p].RK
    BY <2>4 DEF MessageOf
  <2> HIDE DEF m, t
  <2>7. \A q \in Parties :
          /\ session'[q].RK = session[q].RK
          /\ sent'[q] = IF q = p THEN sent[p] \cup {m} ELSE sent[q]
    BY <1>1, <2>1, <2>5 DEF IInv
  <2>8. \A q \in Parties : SentOlder(session[q], sent[q])'
    BY <2>6, <2>7 DEF SentOlder, RInv
  <2>9. RootsInStep'
    BY <2>7 DEF RootsInStep, RInv, Parties
  <2> QED BY <1>1, <2>8, <2>9 DEF RInv
<1>3. ASSUME NEW p \in Parties, NEW m \in sent[Peer(p)], Decrypt(p, m) PROVE RInv'
  <2> DEFINE t == Attempt(p, m).session
             s == session[p]
             o == session[Peer(p)]
  <2>1. /\ Receive(s, m, FreshKey(p), now).result = "ok"
        /\ session' = [session EXCEPT ![p] = t]
        /\ sent' = sent
    BY <1>3 DEF Decrypt, Attempt
  <2>2. /\ Peer(p) \in Parties /\ Peer(p) # p
        /\ \A q \in Parties : q = p \/ q = Peer(p)
    BY PartiesDiffer DEF Peer, Parties
  <2>3. /\ WellFormed(s) /\ s.RK \in Seq(Mixed) /\ o.RK \in Seq(Mixed)
        /\ ratchets[p] \in Nat /\ m \in Messages
    BY <1>1, <2>2 DEF IInv, WellFormed
  <2>4. FreshKey(p) \in KeyPairs
    BY <2>3 DEF FreshKey, KeyPairs
  <2>5. RootMoves(t, s, m)
    BY <2>1, <2>3, <2>4, ReceiveMovesRoot DEF Attempt
  <2>6. m.chain = o.RK \/ Len(m.chain) < Len(o.RK)
    BY <2>2 DEF RInv, SentOlder
  <2>7. OneBeyond(s.RK, o.RK) \/ OneBeyond(o.RK, s.RK)
    BY PartiesDiffer DEF RInv, RootsInStep, OneBeyond, Peer, Parties
  <2> HIDE DEF t
  <2>8. session'[p] = t /\ session'[Peer(p)] = o
    BY <1>1, <2>1, <2>2 DEF IInv
  <2>9. SentOlder(session'[Peer(p)], sent[Peer(p)]) /\ SentOlder(s, sent[p])
    BY <2>2, <2>8 DEF RInv
  <2> HIDE DEF s, o
  <2>10. /\ SentOlder(t, sent[p])
         /\ OneBeyond(t.RK, o.RK) \/ OneBeyond(o.RK, t.RK)
    <3>1. CASE t.RK = s.RK
      BY <2>7, <2>9, <3>1 DEF SentOlder
    <3>2. CASE t.RK # s.RK
      <4>1. PICK x, y \in Mixed : m.chain = Append(s.RK, x) /\ t.RK = Append(m.chain, y)
        BY <2>5, <3>2 DEF RootMoves
      <4>2. OneBeyond(t.RK, o.RK)
        BY <2>3, <2>6, <2>7, <4>1, RatchetTakesTheLead
      <4>3. Len(t.RK) = Len(s.RK) + 2 /\ Len(s.RK) \in Nat
        BY <2>3, <4>1
      <4>4. \A q \in sent[p] : q.chain \in Seq(Mixed)
        BY <1>1 DEF IInv, Messages
      <4>5. SentOlder(t, sent[p])
        BY <2>9, <4>3, <4>4 DEF SentOlder
      <4> QED BY <4>2, <4>5
    <3> QED BY <3>1, <3>2
  <2>11. \A q \in Parties : SentOlder(session[q], sent[q])'
    BY <2>1, <2>2, <2>8, <2>9, <2>10 DEF SentOlder
  <2>12. RootsInStep'
    BY <2>2, <2>8, <2>10, PartiesDiffer DEF RootsInStep, OneBeyond, Peer, Parties
  <2> QED BY <1>1, <2>11, <2>12 DEF RInv
<1>4. CASE UNCHANGED <<session, sent>>
  BY <1>1, <1>4 DEF RInv, RootsInStep, SentOlder
<1> QED BY <1>2, <1>3, <1>4 DEF Next, DecryptFails, Tick, vars

\* The parties never leave the common ratchet, whatever late or repeated headers
\* arrive.
THEOREM RootsStayInStep == Spec => []RootsInStep
<1>1. RInv => RootsInStep
  BY DEF RInv
<1> QED BY <1>1, InitRInv, NextRInv, PTL DEF Spec

-----------------------------------------------------------------------------
(* The storage limits.  An array of chains keeps its places 0, 1, 2, ...   *)
(* through every removal, because the place of a chain is the number of    *)
(* chains before it; so a full array has a first chain, and shifting that  *)
(* one out makes room.  The keys of a chain are told apart by their index, *)
(* so at most as many as the limit have fewer than that many above them.   *)

\* The chains of an array are numbered without gaps.
Numbered(c) ==
  /\ IsFiniteSet(DOMAIN c)
  /\ OneToOne(DOMAIN c, c)
  /\ {c[rk] : rk \in DOMAIN c} = 0 .. (Cardinality(DOMAIN c) - 1)

\* A chain has at most one key of an index.
Distinct(ks) ==
  /\ IsFiniteSet(ks)
  /\ \A k \in ks : k.index \in Nat
  /\ \A k, j \in ks : k.rk = j.rk /\ k.index = j.index => k = j

WithinLimits(s) ==
  /\ Numbered(s.chains)
  /\ Cardinality(DOMAIN s.chains) <= MaxReceiverChains
  /\ Distinct(s.keys)
  /\ \A k \in s.keys : k.rk \in DOMAIN s.chains
  /\ \A rk \in DOMAIN s.chains : Cardinality(Stored(s, rk)) <= MaxMessageKeys

SInv == IInv /\ \A p \in Parties : WithinLimits(session[p])

\* Dropping chains from the array leaves no gap.
LEMMA ChainsInNumbered ==
  ASSUME NEW c, Numbered(c), NEW rks, rks \subseteq DOMAIN c
  PROVE  /\ Numbered(ChainsIn(c, rks))
         /\ DOMAIN ChainsIn(c, rks) = rks
         /\ IsFiniteSet(rks) /\ Cardinality(rks) <= Cardinality(DOMAIN c)
<1> DEFINE v == [q \in rks |-> c[q]]
           d == ChainsIn(c, rks)
<1>1. IsFiniteSet(rks) /\ Cardinality(rks) <= Cardinality(DOMAIN c)
  BY FS_Subset DEF Numbered
<1>2. OneToOne(rks, v)
  BY DEF Numbered, OneToOne
<1>3. DOMAIN d = rks /\ d = [rk \in rks |-> d[rk]]
  BY DEF ChainsIn
<1>4. \A rk \in rks : d[rk] = Rank(rks, v, rk)
  <2> TAKE rk \in rks
  <2>1. {q \in rks : c[q] < c[rk]} = Lower(rks, v, rk)
    BY DEF Lower
  <2> QED BY <2>1 DEF ChainsIn, Rank
<1> HIDE DEF v, d
<1>5. \A rk \in rks : d[rk] \in Int
  BY <1>1, <1>2, <1>4, RankBounds
<1>6. \A x, y \in rks : d[x] = d[y] => x = y
  BY <1>1, <1>2, <1>4, RankInjective
<1>7. OneToOne(DOMAIN d, d)
  BY <1>3, <1>5, <1>6 DEF OneToOne
<1>8. {d[rk] : rk \in rks} = {Rank(rks, v, rk) : rk \in rks}
  BY <1>4
<1>9. {d[rk] : rk \in DOMAIN d} = 0 .. (Cardinality(DOMAIN d) - 1)
  <2>1. {Rank(rks, v, rk) : rk \in rks} = 0 .. (Cardinality(rks) - 1)
    BY <1>1, <1>2, RankOnto, Zenon
  <2> QED BY <1>3, <1>8, <2>1, Zenon
<1> QED BY <1>1, <1>3, <1>7, <1>9 DEF Numbered, d

\* A chain pushed at the end has the next number.
LEMMA PushChainNumbered ==
  ASSUME NEW c, Numbered(c), NEW rk, rk \notin DOMAIN c
  PROVE  /\ Numbered(PushChain(c, rk))
         /\ DOMAIN PushChain(c, rk) = DOMAIN c \cup {rk}
         /\ Cardinality(DOMAIN c \cup {rk}) = Cardinality(DOMAIN c) + 1
<1> DEFINE D == DOMAIN c
           n == Cardinality(D)
           d == PushChain(c, rk)
<1>1. n \in Nat /\ IsFiniteSet(D) /\ IsFiniteSet(D \cup {rk})
      /\ Cardinality(D \cup {rk}) = n + 1
  BY FS_CardinalityType, FS_AddElement DEF Numbered
<1>2. DOMAIN d = D \cup {rk} /\ d = [q \in D \cup {rk} |-> d[q]]
  BY DEF PushChain
<1>3. d[rk] = n /\ \A q \in D : d[q] = c[q]
  BY DEF PushChain
<1>4. {c[q] : q \in D} = 0 .. (n - 1) /\ OneToOne(D, c)
  BY DEF Numbered
<1> HIDE DEF D, n, d
<1>5. \A q \in D : c[q] \in 0 .. (n - 1)
  BY <1>4
<1>6. OneToOne(DOMAIN d, d)
  <2>1. \A q \in D \cup {rk} : d[q] \in Int
    BY <1>1, <1>3, <1>5
  <2>2. \A x, y \in D \cup {rk} : d[x] = d[y] => x = y
    BY <1>1, <1>3, <1>4, <1>5 DEF OneToOne
  <2> QED BY <1>2, <2>1, <2>2 DEF OneToOne
<1>7. {d[q] : q \in DOMAIN d} = 0 .. n
  <2>1. \A q \in DOMAIN d : d[q] \in 0 .. n
    BY <1>1, <1>2, <1>3, <1>5
  <2>2. ASSUME NEW i \in 0 .. n PROVE \E q \in DOMAIN d : d[q] = i
    <3>1. CASE i = n
      BY <1>2, <1>3, <3>1
    <3>2. CASE i # n
      <4>0. i \in 0 .. (n - 1)
        BY <1>1, <3>2
      <4>1. i \in {c[q] : q \in D}
        BY <1>4, <4>0, Zenon
      <4>2. PICK q \in D : c[q] = i
        BY <4>1
      <4> QED BY <1>2, <1>3, <4>2
    <3> QED BY <3>1, <3>2
  <2> QED BY <2>1, <2>2
<1>8. 0 .. n = 0 .. (Cardinality(DOMAIN d) - 1)
  BY <1>1, <1>2
<1>9. Numbered(d)
  BY <1>1, <1>2, <1>6, <1>7, <1>8 DEF Numbered
<1> QED BY <1>1, <1>2, <1>9 DEF D, d, n

\* Removing keys keeps the limits of every chain.
LEMMA FewerKeys ==
  ASSUME NEW s, WithinLimits(s), NEW ks, ks \subseteq s.keys
  PROVE  /\ Distinct(ks)
         /\ \A rk \in DOMAIN s.chains : Cardinality({k \in ks : k.rk = rk}) <= MaxMessageKeys
<1>1. Distinct(ks)
  BY FS_Subset DEF WithinLimits, Distinct
<1>2. ASSUME NEW rk \in DOMAIN s.chains
      PROVE  Cardinality({k \in ks : k.rk = rk}) <= MaxMessageKeys
  <2> DEFINE A == {k \in ks : k.rk = rk}
             B == Stored(s, rk)
  <2>1. A \subseteq B /\ B \subseteq s.keys /\ IsFiniteSet(s.keys) /\ Cardinality(B) <= MaxMessageKeys
    BY DEF Stored, WithinLimits, Distinct
  <2> HIDE DEF A, B
  <2>2. IsFiniteSet(B)
    BY <2>1, FS_Subset
  <2>3. IsFiniteSet(A) /\ Cardinality(A) <= Cardinality(B)
    BY <2>1, <2>2, FS_Subset
  <2>4. Cardinality(A) \in Nat /\ Cardinality(B) \in Nat
    BY <2>2, <2>3, FS_CardinalityType
  <2>5. Cardinality(A) <= MaxMessageKeys
    BY <2>1, <2>3, <2>4, RatchetAssumption
  <2> QED BY <2>5 DEF A
<1> QED BY <1>1, <1>2

\* cleanupExpiredKeys() keeps the limits.
LEMMA CleanupLimits ==
  ASSUME NEW s, NEW t, WellFormed(s), WithinLimits(s)
  PROVE  WithinLimits(Cleanup(s, t))
<1>1. CASE s.DHr = NoKey
  BY <1>1 DEF Cleanup
<1>2. CASE s.DHr # NoKey
  <2> DEFINE live == {k \in s.keys : t - k.at <= MaxKeyAge}
             rks == {rk \in DOMAIN s.chains : \E k \in live : k.rk = rk}
             r == Cleanup(s, t)
  <2>1. r.keys = live /\ r.chains = ChainsIn(s.chains, rks)
    BY <1>2 DEF Cleanup, WellFormed, Fields
  <2>2. live \subseteq s.keys /\ rks \subseteq DOMAIN s.chains
    OBVIOUS
  <2>3. \A k \in live : k.rk \in rks
    BY DEF WithinLimits
  <2> HIDE DEF live, rks, r
  <2>4. /\ Numbered(r.chains) /\ DOMAIN r.chains = rks
        /\ IsFiniteSet(rks) /\ Cardinality(rks) <= Cardinality(DOMAIN s.chains)
    BY <2>1, <2>2, ChainsInNumbered DEF WithinLimits
  <2>5. Cardinality(rks) <= MaxReceiverChains
    <3>1. Cardinality(rks) \in Nat /\ Cardinality(DOMAIN s.chains) \in Nat
          /\ Cardinality(DOMAIN s.chains) <= MaxReceiverChains
      BY <2>4, FS_CardinalityType DEF WithinLimits, Numbered
    <3> QED BY <2>4, <3>1, RatchetAssumption
  <2>6. Distinct(r.keys)
        /\ \A rk \in DOMAIN s.chains : Cardinality({k \in live : k.rk = rk}) <= MaxMessageKeys
    BY <2>1, <2>2, FewerKeys
  <2>7. \A rk \in rks : Cardinality(Stored(r, rk)) <= MaxMessageKeys
    BY <2>1, <2>2, <2>6 DEF Stored
  <2>8. WithinLimits(r)
    BY <2>1, <2>3, <2>4, <2>5, <2>6, <2>7 DEF WithinLimits
  <2> QED BY <2>8 DEF r
<1> QED BY <1>1, <1>2

\* getOrCreateReceiverChain() makes room in a full array, by the first chain.
LEMMA ReceiverChainLimits ==
  ASSUME NEW s, NEW rk, WellFormed(s), WithinLimits(s)
  PROVE  WithinLimits(ReceiverChain(s, rk)) /\ rk \in DOMAIN ReceiverChain(s, rk).chains
<1>1. CASE rk \in DOMAIN s.chains
  BY <1>1 DEF ReceiverChain
<1>2. CASE rk \notin DOMAIN s.chains
  <2> DEFINE c == s.chains
             old == DOMAIN c
             n == Cardinality(old)
             kept == IF n >= MaxReceiverChains THEN {q \in old : c[q] # 0} ELSE old
             r == ReceiverChain(s, rk)
             d == ChainsIn(c, kept)
             ks == {k \in s.keys : k.rk \notin old \ kept}
  <2>1. r.chains = PushChain(d, rk) /\ r.keys = ks
    BY <1>2 DEF ReceiverChain, AddChain, WellFormed, Fields
  <2>2. /\ Numbered(c) /\ IsFiniteSet(old) /\ n \in Nat /\ n <= MaxReceiverChains
        /\ {c[q] : q \in old} = 0 .. (n - 1)
    BY FS_CardinalityType DEF WithinLimits, Numbered
  <2>3. kept \subseteq old /\ rk \notin kept /\ ks \subseteq s.keys
    BY <1>2
  <2>4. /\ Numbered(d) /\ DOMAIN d = kept /\ IsFiniteSet(kept)
        /\ Cardinality(kept) <= n
    <3> HIDE DEF d, kept
    <3> QED BY <2>2, <2>3, ChainsInNumbered DEF d
  <2>5. Cardinality(kept) \in Nat
    BY <2>4, FS_CardinalityType
  <2>6. Cardinality(kept) + 1 <= MaxReceiverChains
    <3>1. CASE n >= MaxReceiverChains
      <4> HIDE DEF n
      <4>1. 0 \in 0 .. (n - 1)
        BY <2>2, <3>1, RatchetAssumption
      <4>2. PICK q \in old : c[q] = 0
        BY <2>2, <4>1, Zenon
      <4>3. q \notin kept
        BY <3>1, <4>2
      <4>4. Cardinality(kept) # n
        BY <2>2, <2>3, <4>2, <4>3, FS_Subset DEF n
      <4> HIDE DEF kept
      <4> QED BY <2>2, <2>4, <2>5, <4>4, RatchetAssumption
    <3>2. CASE ~(n >= MaxReceiverChains)
      <4> HIDE DEF n, kept
      <4> QED BY <2>2, <2>4, <2>5, <3>2, RatchetAssumption
    <3> QED BY <3>1, <3>2
  <2>7. \A k \in ks : k.rk \in kept
    BY DEF WithinLimits
  <2> HIDE DEF kept, d, ks, n, r
  <2>8. /\ Numbered(r.chains) /\ DOMAIN r.chains = kept \cup {rk}
        /\ Cardinality(kept \cup {rk}) = Cardinality(kept) + 1
    BY <2>1, <2>3, <2>4, PushChainNumbered
  <2>9. Distinct(ks) /\ \A q \in old : Cardinality({k \in ks : k.rk = q}) <= MaxMessageKeys
    BY <2>3, FewerKeys
  <2>10. {k \in ks : k.rk = rk} = {}
    BY <2>3, <2>7
  <2>11. \A q \in kept \cup {rk} : Cardinality(Stored(r, q)) <= MaxMessageKeys
    <3> TAKE q \in kept \cup {rk}
    <3>1. CASE q \in kept
      BY <2>1, <2>3, <2>9, <3>1 DEF Stored
    <3>2. CASE q = rk
      <4>1. Stored(r, q) = {}
        BY <2>1, <2>10, <3>2 DEF Stored
      <4> QED BY <4>1, FS_EmptySet, RatchetAssumption
    <3> QED BY <3>1, <3>2
  <2>12. WithinLimits(r)
    BY <2>1, <2>6, <2>7, <2>8, <2>9, <2>11 DEF WithinLimits
  <2> QED BY <2>8, <2>12 DEF r
<1> QED BY <1>1, <1>2

\* evictLowestIndex() leaves no more keys of a chain than the limit.
LEMMA KeepHighestLimits ==
  ASSUME NEW ks, Distinct(ks), NEW rk, \A k \in ks : k.rk = rk
  PROVE  Cardinality(KeepHighest(ks)) <= MaxMessageKeys
<1> DEFINE v == [k \in ks |-> 0 - k.index]
<1>1. OneToOne(ks, v)
  <2>1. \A k \in ks : v[k] \in Int
    BY DEF Distinct
  <2>2. \A k, j \in ks : v[k] = v[j] => k = j
    BY DEF Distinct
  <2> HIDE DEF v
  <2>3. v = [k \in ks |-> v[k]]
    BY DEF v
  <2> QED BY <2>1, <2>2, <2>3 DEF OneToOne
<1>2. \A k \in ks : {j \in ks : j.index > k.index} = Lower(ks, v, k)
  BY DEF Lower, Distinct
<1> HIDE DEF v
<1>3. KeepHighest(ks) = {k \in ks : Rank(ks, v, k) < MaxMessageKeys}
  BY <1>2 DEF KeepHighest, Rank
<1>4. IsFiniteSet(ks) /\ MaxMessageKeys \in Nat
  BY RatchetAssumption DEF Distinct
<1> QED BY <1>1, <1>3, <1>4, RankedBelow

\* The loop over storeMessageKeyInChain() keeps the limits.
LEMMA StoreKeysLimits ==
  ASSUME NEW s, NEW until \in Nat, NEW t, WellFormed(s), WithinLimits(s)
  PROVE  WithinLimits(StoreKeys(s, until, t))
<1>1. CASE until <= s.Nr
  BY <1>1 DEF StoreKeys
<1>2. CASE ~(until <= s.Nr)
  <2> DEFINE c == ReceiverChain(s, s.DHr)
             I == {j \in s.Nr .. until - 1 : SkippedKeys(c, s.DHr, j) = {}}
             new == {[rk |-> s.DHr, index |-> i, chain |-> s.CKr, at |-> t] : i \in I}
             own == Stored(c, s.DHr)
             kept == KeepHighest(own \cup new)
             r == StoreKeys(s, until, t)
  <2>1. SameRatchet(c, s)
    BY ReceiverChainRemoves
  <2>2. WithinLimits(c) /\ s.DHr \in DOMAIN c.chains
    BY ReceiverChainLimits
  <2>3. r.keys = (c.keys \ own) \cup kept /\ r.chains = c.chains
    <3>1. r = [c EXCEPT !.keys = (@ \ own) \cup kept]
      BY <1>2 DEF StoreKeys
    <3> HIDE DEF c, own, kept, r
    <3> QED BY <2>1, <3>1 DEF SameRatchet, Fields
  <2>4. IsFiniteSet(new)
    <3>1. s.Nr \in Int /\ until - 1 \in Int
      BY DEF WellFormed
    <3>2. IsFiniteSet(s.Nr .. until - 1)
      BY <3>1, FS_Interval
    <3>3. IsFiniteSet(I)
      BY <3>2, FS_Subset
    <3> HIDE DEF I
    <3> DEFINE f == [i \in I |-> [rk |-> s.DHr, index |-> i, chain |-> s.CKr, at |-> t]]
    <3>4. f \in Surjection(I, new)
      BY Zenon DEF Surjection
    <3> HIDE DEF f, new
    <3> QED BY <3>3, <3>4, FS_Surjection, Zenon
  <2>5. own \subseteq c.keys /\ IsFiniteSet(c.keys) /\ IsFiniteSet(own)
    BY <2>2, FS_Subset DEF Stored, WithinLimits, Distinct
  <2>6. IsFiniteSet(own \cup new)
    BY <2>4, <2>5, FS_Union
  <2>7. /\ \A k \in new : k.rk = s.DHr /\ k.index \in I
        /\ \A k, j \in new : k.index = j.index => k = j
    OBVIOUS
  <2>8. \A i \in I : i \in Nat /\ \A k \in own : k.index # i
    BY DEF SkippedKeys, WellFormed
  <2>9. \A k \in own : k \in c.keys /\ k.rk = s.DHr
    BY DEF Stored
  <2>10. Distinct(c.keys)
    BY <2>2 DEF WithinLimits
  <2> HIDE DEF c, I, new, own
  <2>11. Distinct(own \cup new) /\ \A k \in own \cup new : k.rk = s.DHr
    BY <2>6, <2>7, <2>8, <2>9, <2>10 DEF Distinct
  <2>12. Cardinality(kept) <= MaxMessageKeys
    BY <2>11, KeepHighestLimits
  <2>13. kept \subseteq own \cup new
    BY DEF KeepHighest
  <2> HIDE DEF kept, r
  <2>14. \A k \in c.keys \ own : k.rk # s.DHr
    BY DEF own, Stored
  <2>15. Distinct(r.keys)
    <3>1. IsFiniteSet(kept)
      BY <2>6, <2>13, FS_Subset
    <3>2. IsFiniteSet(c.keys \ own)
      BY <2>5, FS_Subset
    <3>3. IsFiniteSet(r.keys)
      BY <2>3, <3>1, <3>2, FS_Union
    <3>4. \A k \in r.keys :
            (k \in c.keys /\ k.rk # s.DHr) \/ (k \in own \cup new /\ k.rk = s.DHr)
      BY <2>3, <2>11, <2>13, <2>14
    <3> QED BY <2>10, <2>11, <3>3, <3>4 DEF Distinct
  <2>16. \A k \in r.keys : k.rk \in DOMAIN r.chains
    BY <2>2, <2>3, <2>11, <2>13 DEF WithinLimits
  <2>17. ASSUME NEW q \in DOMAIN r.chains PROVE Cardinality(Stored(r, q)) <= MaxMessageKeys
    <3>1. CASE q = s.DHr
      <4>1. Stored(r, q) = kept
        BY <2>3, <2>11, <2>13, <2>14, <3>1 DEF Stored
      <4> QED BY <2>12, <4>1
    <3>2. CASE q # s.DHr
      <4>1. Stored(r, q) = Stored(c, q)
        BY <2>3, <2>9, <2>11, <2>13, <3>2 DEF Stored
      <4> QED BY <2>2, <2>3, <4>1 DEF WithinLimits
    <3> QED BY <3>1, <3>2
  <2>18. WithinLimits(r)
    BY <2>2, <2>3, <2>15, <2>16, <2>17 DEF WithinLimits
  <2> QED BY <2>18 DEF r
<1> QED BY <1>1, <1>2

\* decrypt() before a DH ratchet keeps the limits.
LEMMA CloseChainLimits ==
  ASSUME NEW s, NEW m \in Messages, NEW t, WellFormed(s), WithinLimits(s)
  PROVE  WithinLimits(CloseChain(s, m, t))
<1>1. CASE s.DHr = NoKey \/ m.previousCounter = 0 \/ s.CKr = NoKey
  BY <1>1 DEF CloseChain
<1>2. CASE ~(s.DHr = NoKey \/ m.previousCounter = 0 \/ s.CKr = NoKey)
  <2> DEFINE u == StoreKeys(s, m.previousCounter, t)
             r == CloseChain(s, m, t)
  <2>1. m.previousCounter \in Nat
    BY DEF Messages
  <2>2. SameRatchet(u, s) /\ WithinLimits(u)
    BY <2>1, StoreKeysAdds, StoreKeysLimits
  <2>3. r.keys = u.keys /\ r.chains = u.chains
    BY <1>2, <2>2 DEF CloseChain, SameRatchet, Fields
  <2> HIDE DEF u, r
  <2>4. WithinLimits(r)
    BY <2>2, <2>3 DEF WithinLimits, Stored
  <2> QED BY <2>4 DEF r
<1> QED BY <1>1, <1>2

\* storeSkippedKeys() and deriveReceivingKey() keep the limits.
LEMMA ChainLimits ==
  ASSUME NEW s, NEW m \in Messages, NEW t, WellFormed(s), WithinLimits(s),
         ReceiveInChain(s, m, t).result = "ok"
  PROVE  WithinLimits(ReceiveInChain(s, m, t).session)
<1> DEFINE u == StoreKeys(s, m.counter, t)
           r == [u EXCEPT !.Nr = m.counter + 1]
<1>0. m.counter \in Nat
  BY DEF Messages
<1>1. ReceiveInChain(s, m, t).session = r
  BY DEF ReceiveInChain, Refused, Accepted
<1>2. SameRatchet(u, s) /\ WithinLimits(u)
  BY <1>0, StoreKeysAdds, StoreKeysLimits
<1> HIDE DEF u
<1>3. r.keys = u.keys /\ r.chains = u.chains
  BY <1>2 DEF SameRatchet, Fields
<1> HIDE DEF r
<1> QED BY <1>1, <1>2, <1>3 DEF WithinLimits, Stored

\* An attempt of decrypt() keeps the limits.
LEMMA ReceiveLimits ==
  ASSUME NEW s, NEW m \in Messages, NEW t, NEW fresh \in KeyPairs,
         WellFormed(s), WithinLimits(s), Receive(s, m, fresh, t).result = "ok"
  PROVE  WithinLimits(Receive(s, m, fresh, t).session)
<1> DEFINE c == Cleanup(s, t)
<1>1. SameRatchet(c, s) /\ c.keys \subseteq s.keys
  BY CleanupRemoves
<1>2. WellFormed(c) /\ WithinLimits(c)
  <2>1. Erased(s, {})
    BY DEF Erased
  <2> QED BY <1>1, <2>1, LosingKeys, CleanupLimits
<1> HIDE DEF c
<1>4. CASE SkippedKeys(c, m.rk, m.counter) # {}
  <2> DEFINE r == ConsumeSkipped(c, m.rk, m.counter)
  <2>1. Receive(s, m, fresh, t).session = r
    BY <1>4 DEF Receive, c, ReceiveSkipped, Accepted, Refused
  <2>2. r.keys \subseteq c.keys /\ r.chains = c.chains
    BY <1>2 DEF ConsumeSkipped, WellFormed, Fields
  <2> HIDE DEF r
  <2>3. /\ Distinct(r.keys)
        /\ \A rk \in DOMAIN c.chains : Cardinality({k \in r.keys : k.rk = rk}) <= MaxMessageKeys
    BY <1>2, <2>2, FewerKeys
  <2> QED BY <1>2, <2>1, <2>2, <2>3 DEF WithinLimits, Stored
<1>5. CASE SkippedKeys(c, m.rk, m.counter) = {} /\ c.DHr # NoKey /\ c.DHr = m.rk
  <2>1. Receive(s, m, fresh, t) = ReceiveInChain(c, m, t)
    BY <1>5 DEF Receive, c
  <2> QED BY <1>2, <2>1, ChainLimits
<1>6. CASE /\ SkippedKeys(c, m.rk, m.counter) = {}
           /\ c.DHr = NoKey \/ (c.DHr # m.rk /\ ~ProcessedChain(c, m.rk))
  <2> DEFINE e == CloseChain(c, m, t)
             d == DHRatchet(e, m.rk, fresh)
  <2>1. Receive(s, m, fresh, t) = ReceiveInChain(d, m, t)
    BY <1>6 DEF Receive, c, ReceiveWithRatchet, Refused
  <2>2. SameRatchet(e, c) /\ WithinLimits(e)
    BY <1>2, CloseChainAdds, CloseChainLimits
  <2>3. WellFormed(d)
    <3>1. Erased(c, {}) /\ {} \in SUBSET Messages
      BY DEF Erased
    <3> QED BY <1>2, <3>1, RatchetIsFresh
  <2> HIDE DEF e
  <2>4. d.keys = e.keys /\ d.chains = e.chains
    BY <2>2 DEF DHRatchet, SameRatchet, Fields
  <2> HIDE DEF d
  <2>5. WithinLimits(d)
    BY <2>2, <2>4 DEF WithinLimits, Stored
  <2> QED BY <2>1, <2>3, <2>5, ChainLimits
<1>7. CASE /\ SkippedKeys(c, m.rk, m.counter) = {}
           /\ c.DHr # NoKey /\ c.DHr # m.rk /\ ProcessedChain(c, m.rk)
  BY <1>7 DEF Receive, c, Refused
<1> QED BY <1>4, <1>5, <1>6, <1>7

\* A session starts with nothing stored.
LEMMA InitSInv == Init => SInv
<1> SUFFICES ASSUME Init PROVE SInv
  OBVIOUS
<1>1. IInv
  BY InitIInv
<1>2. /\ DOMAIN NoChains = {} /\ NoChains \in [{} -> Int]
      /\ {NoChains[rk] : rk \in {}} = {}
  BY DEF NoChains
<1>3. IsFiniteSet({}) /\ Cardinality({}) = 0
  BY FS_EmptySet
<1>4. 0 .. (0 - 1) = {}
  OBVIOUS
<1>5. Numbered(NoChains)
  BY <1>2, <1>3, <1>4 DEF Numbered, OneToOne
<1>6. ASSUME NEW p \in Parties PROVE WithinLimits(session[p])
  <2>1. session[p].chains = NoChains /\ session[p].keys = {}
    BY DEF Init, InitiatorSession, ResponderSession
  <2> QED BY <1>2, <1>3, <1>5, <2>1, RatchetAssumption DEF WithinLimits, Distinct
<1> QED BY <1>1, <1>6 DEF SInv

\* Every session stays within its limits at every step.
LEMMA NextSInv == SInv /\ [Next]_vars => SInv'
<1> SUFFICES ASSUME SInv, [Next]_vars PROVE SInv'
  OBVIOUS
<1>1. IInv /\ IInv'
  BY NextIInv DEF SInv
<1>2. ASSUME NEW p \in Parties, NEW t, session' = [session EXCEPT ![p] = t], WithinLimits(t)
      PROVE  SInv'
  <2>1. \A q \in Parties : session'[q] = IF q = p THEN t ELSE session[q]
    BY <1>1, <1>2 DEF IInv
  <2> QED BY <1>1, <1>2, <2>1 DEF SInv
<1>3. ASSUME NEW p \in Parties, Encrypt(p) PROVE SInv'
  <2> DEFINE c == Cleanup(session[p], now)
             t == AfterSend(c)
  <2>1. WellFormed(session[p]) /\ WithinLimits(session[p])
    BY <1>1 DEF IInv, SInv
  <2>2. SameRatchet(c, session[p]) /\ WithinLimits(c)
    BY <2>1, CleanupRemoves, CleanupLimits
  <2>3. session' = [session EXCEPT ![p] = t]
    BY <1>3 DEF Encrypt
  <2> HIDE DEF c
  <2>4. t.keys = c.keys /\ t.chains = c.chains
    BY <2>2 DEF AfterSend, SameRatchet, Fields
  <2> HIDE DEF t
  <2>5. WithinLimits(t)
    BY <2>2, <2>4 DEF WithinLimits, Stored
  <2> QED BY <1>2, <2>3, <2>5
<1>4. ASSUME NEW p \in Parties, NEW m \in sent[Peer(p)], Decrypt(p, m) PROVE SInv'
  <2> DEFINE t == Attempt(p, m).session
  <2>1. /\ Receive(session[p], m, FreshKey(p), now).result = "ok"
        /\ session' = [session EXCEPT ![p] = t]
    BY <1>4 DEF Decrypt, Attempt
  <2>2. /\ WellFormed(session[p]) /\ WithinLimits(session[p])
        /\ ratchets[p] \in Nat /\ m \in Messages
    BY <1>1 DEF IInv, SInv, Peer, Parties
  <2>3. FreshKey(p) \in KeyPairs
    BY <2>2 DEF FreshKey, KeyPairs
  <2>4. WithinLimits(t)
    BY <2>1, <2>2, <2>3, ReceiveLimits DEF Attempt
  <2> HIDE DEF t
  <2> QED BY <1>2, <2>1, <2>4
<1>5. CASE UNCHANGED session
  BY <1>1, <1>5 DEF SInv
<1> QED BY <1>3, <1>4, <1>5 DEF Next, DecryptFails, Tick, vars

\* The places of the receiver chains have no gaps, and every stored key has its
\* chain, through every eviction and cleanup.
THEOREM ChainsAndKeysMatch == Spec => []ChainsMatchKeys
<1>1. SInv => ChainsMatchKeys
  BY DEF SInv, WithinLimits, Numbered, ChainsMatchKeys
<1> QED BY <1>1, InitSInv, NextSInv, PTL DEF Spec

\* MAX_RECEIVER_CHAINS and maxMessageKeysStored are never passed, whatever the
\* gaps in what arrives.
THEOREM StorageIsBounded == Spec => []SkippedKeysBounded
<1>1. SInv => SkippedKeysBounded
  BY DEF SInv, WithinLimits, SkippedKeysBounded
<1> QED BY <1>1, InitSInv, NextSInv, PTL DEF Spec

-----------------------------------------------------------------------------
(* Delivery.  Where the storage limits are not reached, a message that was *)
(* sent and not received is in one of three places: its key is stored, or  *)
(* it is ahead on the receiving chain, or it is on the chain that the      *)
(* receiver's next DH ratchet step derives.                                *)

\* The ratchet keys of the peer that a session state mentions.
Known(s) ==
  {k.rk : k \in s.keys} \cup {c.rk : c \in s.processed} \cup DOMAIN s.chains
    \cup ({s.DHr} \ {NoKey})

\* What s stores is not old enough to expire, and there is a place in its array
\* for a chain of every ratchet key of K.
Room(s, K) ==
  /\ IsFiniteSet(K) /\ Cardinality(K) <= MaxReceiverChains
  /\ Known(s) \subseteq K
  /\ \A k \in s.keys : k.at \in Nat
  /\ \A c \in s.processed : c.at \in Nat

Ample(s, K) == WellFormed(s) /\ Bounded(s) /\ WithinLimits(s) /\ Room(s, K)

SameStore(u, s) ==
  /\ u.keys = s.keys /\ u.processed = s.processed
  /\ DOMAIN u.chains \subseteq DOMAIN s.chains

\* cleanupExpiredKeys() removes no key.
LEMMA CleanupKeeps ==
  ASSUME RoomForAll, NEW s, NEW K, NEW t \in 0 .. MaxTime, Ample(s, K)
  PROVE  SameRatchet(Cleanup(s, t), s) /\ SameStore(Cleanup(s, t), s)
<1>1. SameRatchet(Cleanup(s, t), s)
  BY CleanupRemoves DEF Ample
<1>2. CASE s.DHr = NoKey
  BY <1>1, <1>2 DEF Cleanup, SameStore
<1>3. CASE s.DHr # NoKey
  <2> DEFINE live == {k \in s.keys : t - k.at <= MaxKeyAge}
             proc == {c \in s.processed : t - c.at <= MaxKeyAge}
             rks == {rk \in DOMAIN s.chains : \E k \in live : k.rk = rk}
  <2>1. live = s.keys /\ proc = s.processed
    BY RatchetAssumption, BoundsAssumption DEF Ample, Room, RoomForAll
  <2>2. /\ Cleanup(s, t).keys = live /\ Cleanup(s, t).processed = proc
        /\ Cleanup(s, t).chains = ChainsIn(s.chains, rks)
    BY <1>3 DEF Cleanup, Ample, WellFormed, Fields
  <2>3. DOMAIN ChainsIn(s.chains, rks) = rks /\ rks \subseteq DOMAIN s.chains
    BY DEF ChainsIn
  <2> HIDE DEF live, proc, rks
  <2> QED BY <1>1, <2>1, <2>2, <2>3 DEF SameStore
<1> QED BY <1>2, <1>3

\* getOrCreateReceiverChain() shifts no chain out of the array.
LEMMA ReceiverChainKeeps ==
  ASSUME NEW s, NEW K, NEW rk \in K, Ample(s, K)
  PROVE  LET c == ReceiverChain(s, rk) IN
         /\ c.keys = s.keys /\ c.processed = s.processed
         /\ DOMAIN c.chains \subseteq DOMAIN s.chains \cup {rk}
<1>1. CASE rk \in DOMAIN s.chains
  BY <1>1 DEF ReceiverChain
<1>2. CASE rk \notin DOMAIN s.chains
  <2> DEFINE old == DOMAIN s.chains
             kept == IF Cardinality(old) >= MaxReceiverChains
                       THEN {q \in old : s.chains[q] # 0} ELSE old
             c == ReceiverChain(s, rk)
  <2>1. old \subseteq K /\ rk \notin old /\ IsFiniteSet(K) /\ Cardinality(K) <= MaxReceiverChains
    BY <1>2 DEF Ample, Room, Known
  <2>2. /\ IsFiniteSet(old) /\ Cardinality(old) <= Cardinality(K)
        /\ Cardinality(old) = Cardinality(K) => old = K
    BY <2>1, FS_Subset
  <2>3. Cardinality(old) \in Nat /\ Cardinality(K) \in Nat
    BY <2>1, <2>2, FS_CardinalityType
  <2>4. old # K
    BY <2>1
  <2>5. ~(Cardinality(old) >= MaxReceiverChains)
    <3> HIDE DEF old
    <3> QED BY <2>1, <2>2, <2>3, <2>4, RatchetAssumption
  <2>6. kept = old
    BY <2>5
  <2>7. c = [s EXCEPT !.chains = PushChain(ChainsIn(@, kept), rk),
                      !.keys = {k \in @ : k.rk \notin old \ kept}]
    BY <1>2 DEF ReceiverChain, AddChain
  <2>8. /\ c.keys = {k \in s.keys : k.rk \notin old \ kept} /\ c.processed = s.processed
        /\ c.chains = PushChain(ChainsIn(s.chains, kept), rk)
    BY <2>7 DEF Ample, WellFormed, Fields
  <2>9. DOMAIN c.chains = kept \cup {rk}
    BY <2>8 DEF PushChain, ChainsIn
  <2> HIDE DEF c, kept
  <2>10. c.keys = s.keys
    BY <2>6, <2>8
  <2> QED BY <2>6, <2>8, <2>9, <2>10 DEF c
<1> QED BY <1>1, <1>2

\* evictLowestIndex() evicts nothing from the keys of one chain.
LEMMA KeepHighestKeeps ==
  ASSUME RoomForAll, NEW ks, Distinct(ks), NEW rk,
         \A k \in ks : k.rk = rk /\ k.index < MaxCounter
  PROVE  KeepHighest(ks) = ks
<1>1. SUFFICES ASSUME NEW k \in ks
               PROVE  Cardinality({j \in ks : j.index > k.index}) < MaxMessageKeys
  BY DEF KeepHighest
<1> DEFINE A == {j \in ks : j.index > k.index}
           T == 1 .. (MaxCounter - 1)
           f == [j \in A |-> j.index]
<1>2. k.index \in Nat /\ k.index < MaxCounter /\ MaxCounter \in Nat
  BY RatchetAssumption DEF Distinct
<1>3. IsFiniteSet(T) /\ Cardinality(T) = MaxCounter - 1
  <2>1. MaxCounter - 1 \in Int /\ MaxCounter - 1 >= 0
    BY <1>2
  <2>2. Cardinality(T) = IF 1 > MaxCounter - 1 THEN 0 ELSE (MaxCounter - 1) - 1 + 1
    BY <2>1, FS_Interval
  <2> QED BY <2>1, <2>2, FS_Interval
<1>4. \A j \in A : f[j] \in T
  BY <1>2 DEF Distinct
<1>5. \A i, j \in A : f[i] = f[j] => i = j
  BY DEF Distinct
<1>6. f \in Injection(A, T)
  <2> HIDE DEF T, A
  <2>1. f \in [A -> T]
    BY <1>4
  <2> HIDE DEF f
  <2> QED BY <1>5, <2>1 DEF Injection, IsInjective
<1> HIDE DEF T, f
<1>7. Cardinality(A) <= Cardinality(T) /\ IsFiniteSet(A)
  BY <1>3, <1>6, FS_Injection
<1>8. Cardinality(A) \in Nat
  BY <1>7, FS_CardinalityType
<1> HIDE DEF A
<1>9. Cardinality(A) < MaxMessageKeys
  BY <1>2, <1>3, <1>7, <1>8, RatchetAssumption DEF RoomForAll
<1> QED BY <1>9 DEF A


\* What u has beyond s are all keys of the receiving chain from Nr on and before
\* the given number, stored at time t.
Fills(u, s, until, t) ==
  /\ s.keys \subseteq u.keys
  /\ \A k \in u.keys : k \in s.keys \/ (k.rk = s.DHr /\ k.chain = s.CKr /\ k.at = t)
  /\ \A i \in s.Nr .. until - 1 : \E k \in u.keys : k.rk = s.DHr /\ k.index = i
  /\ DOMAIN u.chains \subseteq DOMAIN s.chains \cup {s.DHr}

\* The loop over storeMessageKeyInChain() stores the key of every skipped message.
LEMMA StoreKeysFills ==
  ASSUME RoomForAll, NEW s, NEW K, NEW until \in 0 .. MaxCounter, NEW t,
         Ample(s, K), s.DHr \in K
  PROVE  /\ Fills(StoreKeys(s, until, t), s, until, t)
         /\ StoreKeys(s, until, t).processed = s.processed
<1>0. s.Nr \in Nat /\ until \in Nat
  BY RatchetAssumption DEF Ample, WellFormed
<1>1. CASE until <= s.Nr
  BY <1>0, <1>1 DEF StoreKeys, Fills
<1>2. CASE ~(until <= s.Nr)
  <2> DEFINE c == ReceiverChain(s, s.DHr)
             I == {j \in s.Nr .. until - 1 : SkippedKeys(c, s.DHr, j) = {}}
             new == {[rk |-> s.DHr, index |-> i, chain |-> s.CKr, at |-> t] : i \in I}
             own == Stored(c, s.DHr)
             r == StoreKeys(s, until, t)
  <2>1. SameRatchet(c, s) /\ WithinLimits(c)
    BY ReceiverChainRemoves, ReceiverChainLimits DEF Ample
  <2>2. /\ c.keys = s.keys /\ c.processed = s.processed
        /\ DOMAIN c.chains \subseteq DOMAIN s.chains \cup {s.DHr}
    BY ReceiverChainKeeps
  <2>3. /\ r.keys = (c.keys \ own) \cup KeepHighest(own \cup new)
        /\ r.chains = c.chains /\ r.processed = c.processed
    <3>1. r = [c EXCEPT !.keys = (@ \ own) \cup KeepHighest(own \cup new)]
      BY <1>2 DEF StoreKeys
    <3> HIDE DEF c, own, new, r
    <3> QED BY <2>1, <3>1 DEF SameRatchet, Fields
  <2>4. IsFiniteSet(new)
    <3>1. s.Nr \in Int /\ until - 1 \in Int
      BY <1>0
    <3>2. IsFiniteSet(s.Nr .. until - 1)
      BY <3>1, FS_Interval
    <3>3. IsFiniteSet(I)
      BY <3>2, FS_Subset
    <3> HIDE DEF I
    <3> DEFINE f == [i \in I |-> [rk |-> s.DHr, index |-> i, chain |-> s.CKr, at |-> t]]
    <3>4. f \in Surjection(I, new)
      BY Zenon DEF Surjection
    <3> HIDE DEF f, new
    <3> QED BY <3>3, <3>4, FS_Surjection, Zenon
  <2>5. own \subseteq c.keys /\ IsFiniteSet(own)
    BY <2>1, FS_Subset DEF Stored, WithinLimits, Distinct
  <2>6. IsFiniteSet(own \cup new)
    BY <2>4, <2>5, FS_Union
  <2>7. /\ \A k \in new : /\ k.rk = s.DHr /\ k.chain = s.CKr /\ k.at = t
                          /\ k.index \in I
        /\ \A k, j \in new : k.index = j.index => k = j
        /\ \A i \in I : \E k \in new : k.index = i
    <3>1. \A i \in I : [rk |-> s.DHr, index |-> i, chain |-> s.CKr, at |-> t] \in new
      OBVIOUS
    <3>2. \A i \in I : [rk |-> s.DHr, index |-> i, chain |-> s.CKr, at |-> t].index = i
      OBVIOUS
    <3>3. \A k \in new : \E i \in I : k = [rk |-> s.DHr, index |-> i, chain |-> s.CKr, at |-> t]
      OBVIOUS
    <3> HIDE DEF I, new
    <3>4. \A i \in I : \E k \in new : k.index = i
      BY <3>1, <3>2, Zenon
    <3>5. \A k \in new : k.rk = s.DHr /\ k.chain = s.CKr /\ k.at = t /\ k.index \in I
      BY <3>3
    <3>6. \A k, j \in new : k.index = j.index => k = j
      BY <3>3
    <3> QED BY <3>4, <3>5, <3>6
  <2>8. \A i \in I : /\ i \in Nat /\ i < MaxCounter
                     /\ \A k \in own : k.index # i
    BY <1>0, RatchetAssumption DEF SkippedKeys
  <2>9. \A k \in own : k \in c.keys /\ k.rk = s.DHr
    BY DEF Stored
  <2>10. Distinct(c.keys) /\ \A k \in c.keys : k.index < MaxCounter
    BY <2>1, <2>2 DEF WithinLimits, Ample, Bounded
  <2>11. \A i \in s.Nr .. until - 1 : i \in I \/ \E k \in own : k.index = i
    BY DEF SkippedKeys
  <2> HIDE DEF c, I, new, own, r
  <2>12. Distinct(own \cup new) /\ \A k \in own \cup new : k.rk = s.DHr /\ k.index < MaxCounter
    BY <2>6, <2>7, <2>8, <2>9, <2>10 DEF Distinct
  <2>13. KeepHighest(own \cup new) = own \cup new
    BY <2>12, KeepHighestKeeps
  <2>14. r.keys = c.keys \cup new
    BY <2>3, <2>5, <2>13
  <2>15. \A i \in s.Nr .. until - 1 : \E k \in r.keys : k.rk = s.DHr /\ k.index = i
    BY <2>7, <2>9, <2>11, <2>14, Zenon
  <2>16. Fills(r, s, until, t)
    BY <2>2, <2>3, <2>7, <2>14, <2>15 DEF Fills
  <2> QED BY <2>2, <2>3, <2>16 DEF r
<1> QED BY <1>1, <1>2

SameButNr(r, s) ==
  /\ r.DHs = s.DHs /\ r.DHr = s.DHr /\ r.RK = s.RK /\ r.CKs = s.CKs
  /\ r.Ns = s.Ns /\ r.CKr = s.CKr /\ r.PN = s.PN

\* The receiving chain of s opened m, and moved past it.
ByChain(r, s, m, t) ==
  /\ m.chain = s.CKr /\ s.Nr <= m.counter /\ r.Nr = m.counter + 1
  /\ SameButNr(r, s)
  /\ Fills(r, s, m.counter, t) /\ r.processed = s.processed

\* storeSkippedKeys() and deriveReceivingKey() lose nothing.
LEMMA ChainDelivers ==
  ASSUME RoomForAll, NEW s, NEW K, NEW m \in Messages, NEW t, BoundedMessage(m),
         Ample(s, K), s.DHr \in K, ReceiveInChain(s, m, t).result = "ok"
  PROVE  ByChain(ReceiveInChain(s, m, t).session, s, m, t)
<1> DEFINE u == StoreKeys(s, m.counter, t)
           r == [u EXCEPT !.Nr = m.counter + 1]
<1>0. m.counter \in Nat /\ m.counter \in 0 .. MaxCounter /\ s.Nr \in Nat
  BY RatchetAssumption DEF Messages, BoundedMessage, Ample, WellFormed
<1>1. /\ ReceiveInChain(s, m, t).session = r
      /\ m.chain = s.CKr /\ ~(m.counter < s.Nr)
  BY DEF ReceiveInChain, Refused, Accepted
<1>2. SameRatchet(u, s)
  BY <1>0, StoreKeysAdds DEF Ample
<1>3. Fills(u, s, m.counter, t) /\ u.processed = s.processed
  BY <1>0, StoreKeysFills
<1> HIDE DEF u
<1>4. /\ r.keys = u.keys /\ r.chains = u.chains /\ r.processed = u.processed
      /\ r.Nr = m.counter + 1
  BY <1>2 DEF SameRatchet, Fields
<1>5. SameButNr(r, s)
  BY <1>2 DEF SameRatchet, Fields, SameButNr
<1> HIDE DEF r
<1>6. Fills(r, s, m.counter, t)
  BY <1>3, <1>4 DEF Fills
<1> QED BY <1>0, <1>1, <1>3, <1>4, <1>5, <1>6 DEF ByChain

\* The chain that ends is stored up to previousCounter, and counts as processed.
Closes(c, s, m, t) ==
  /\ SameRatchet(c, s)
  /\ s.keys \subseteq c.keys
  /\ \A k \in c.keys :
       k \in s.keys \/ (s.DHr # NoKey /\ k.rk = s.DHr /\ k.chain = s.CKr /\ k.at = t)
  /\ s.DHr # NoKey =>
       \A i \in s.Nr .. m.previousCounter - 1 : \E k \in c.keys : k.rk = s.DHr /\ k.index = i
  /\ \A x \in c.processed :
       x \in s.processed \/ (s.DHr # NoKey /\ x.rk = s.DHr /\ x.at = t)
  /\ DOMAIN c.chains \subseteq DOMAIN s.chains \cup ({s.DHr} \ {NoKey})

\* decrypt() before a DH ratchet loses nothing.
LEMMA CloseChainDelivers ==
  ASSUME RoomForAll, NEW s, NEW K, NEW m \in Messages, NEW t, BoundedMessage(m), Ample(s, K)
  PROVE  Closes(CloseChain(s, m, t), s, m, t)
<1>0. /\ m.previousCounter \in Nat /\ m.previousCounter \in 0 .. MaxCounter
      /\ s.Nr \in Nat /\ DOMAIN s = Fields
  BY RatchetAssumption DEF Messages, BoundedMessage, Ample, WellFormed
<1>1. s.DHr # NoKey => s.CKr # NoKey /\ s.DHr \in K
  <2>1. s.DHr # NoKey => s.CKr \in Seq(Mixed)
    BY DEF Ample, WellFormed
  <2>2. NoKey \notin Seq(Mixed)
    BY NoKeyAssumption DEF Mixed, KeyPairs
  <2>3. s.DHr # NoKey => s.DHr \in K
    BY DEF Ample, Room, Known
  <2> QED BY <2>1, <2>2, <2>3
<1>2. CASE s.DHr = NoKey \/ m.previousCounter = 0
  <2>1. CloseChain(s, m, t) = s
    BY <1>2 DEF CloseChain
  <2>2. SameRatchet(s, s)
    BY <1>0 DEF SameRatchet
  <2>3. s.DHr # NoKey => s.Nr .. m.previousCounter - 1 = {}
    BY <1>0, <1>2
  <2> QED BY <2>1, <2>2, <2>3 DEF Closes
<1>3. CASE s.DHr # NoKey /\ m.previousCounter # 0
  <2> DEFINE u == StoreKeys(s, m.previousCounter, t)
             proc == {q \in u.processed : q.rk # s.DHr} \cup {[rk |-> s.DHr, at |-> t]}
             c == [u EXCEPT !.processed = proc]
  <2>1. CloseChain(s, m, t) = c
    BY <1>1, <1>3 DEF CloseChain
  <2>2. SameRatchet(u, s)
    BY <1>0, StoreKeysAdds DEF Ample
  <2>3. Fills(u, s, m.previousCounter, t) /\ u.processed = s.processed
    BY <1>0, <1>1, <1>3, StoreKeysFills
  <2>4. \A x \in proc : x \in u.processed \/ (x.rk = s.DHr /\ x.at = t)
    OBVIOUS
  <2> HIDE DEF u, proc
  <2>5. /\ SameRatchet(c, s) /\ c.keys = u.keys /\ c.chains = u.chains
        /\ c.processed = proc
    BY <2>2 DEF SameRatchet, Fields
  <2> HIDE DEF c
  <2> QED BY <1>3, <2>1, <2>3, <2>4, <2>5 DEF Closes, Fills
<1> QED BY <1>2, <1>3

\* performDHRatchetStep() for the header of m, and then the new receiving chain of
\* s opened m: the keys that are left of both chains are stored.
ByRatchet(r, s, m, fresh, t) ==
  /\ m.chain = Append(s.RK, DH(s.DHs, m.rk))
  /\ r.DHs = fresh /\ r.DHr = m.rk /\ r.CKr = m.chain
  /\ r.RK = Append(m.chain, DH(fresh, m.rk)) /\ r.CKs = r.RK
  /\ r.Ns = 0 /\ r.PN = s.Ns /\ r.Nr = m.counter + 1
  /\ s.keys \subseteq r.keys
  /\ \A k \in r.keys :
       \/ k \in s.keys
       \/ k.at = t /\ s.DHr # NoKey /\ k.rk = s.DHr /\ k.chain = s.CKr
       \/ k.at = t /\ k.rk = m.rk /\ k.chain = m.chain
  /\ s.DHr # NoKey =>
       \A i \in s.Nr .. m.previousCounter - 1 : \E k \in r.keys : k.rk = s.DHr /\ k.index = i
  /\ \A i \in 0 .. m.counter - 1 :
       \E k \in r.keys : k.rk = m.rk /\ k.index = i
  /\ \A x \in r.processed :
       x \in s.processed \/ (s.DHr # NoKey /\ x.rk = s.DHr /\ x.at = t)
  /\ DOMAIN r.chains \subseteq DOMAIN s.chains \cup ({s.DHr} \ {NoKey}) \cup {m.rk}

\* The state between the DH ratchet step and the message.
Ratchets(d, s, m, fresh, t) ==
  /\ d.DHs = fresh /\ d.DHr = m.rk /\ d.CKr = Append(s.RK, DH(s.DHs, m.rk))
  /\ d.RK = Append(d.CKr, DH(fresh, m.rk)) /\ d.CKs = d.RK
  /\ d.Ns = 0 /\ d.PN = s.Ns /\ d.Nr = 0
  /\ \E c : /\ Closes(c, s, m, t)
            /\ d.keys = c.keys /\ d.processed = c.processed /\ d.chains = c.chains

\* A ratchet step keeps every key that the receiver still needs, as long as the storage
\* has room for all of them.
LEMMA RatchetDelivers ==
  ASSUME RoomForAll, NEW s, NEW K, NEW m \in Messages, NEW t \in Nat, NEW fresh \in KeyPairs,
         BoundedMessage(m), Ample(s, K), m.rk \in K
  PROVE  LET d == DHRatchet(CloseChain(s, m, t), m.rk, fresh) IN
         Ratchets(d, s, m, fresh, t) /\ Ample(d, K)
<1> DEFINE c == CloseChain(s, m, t)
           receiving == KdfRootKey(c.RK, DH(c.DHs, m.rk))
           sending == KdfRootKey(receiving, DH(fresh, m.rk))
           d == DHRatchet(c, m.rk, fresh)
<1>1. Closes(c, s, m, t)
  BY CloseChainDelivers
<1>2. WellFormed(s) /\ Bounded(s) /\ WithinLimits(s) /\ Room(s, K)
  BY DEF Ample
<1>3. WellFormed(d) /\ Bounded(d)
  <2>1. Erased(s, {})
    BY DEF Erased
  <2>2. {} \in SUBSET Messages
    OBVIOUS
  <2> HIDE DEF d
  <2> QED BY <1>2, <2>1, <2>2, RatchetIsFresh, RatchetBounded DEF d
<1>4. WithinLimits(c)
  BY <1>2, CloseChainLimits
<1> HIDE DEF c
<1>5. /\ d.keys = c.keys /\ d.PN = c.Ns /\ d.Ns = 0 /\ d.Nr = 0
      /\ d.processed = c.processed /\ d.chains = c.chains
      /\ d.DHr = m.rk /\ d.DHs = fresh /\ d.CKr = receiving /\ d.CKs = sending
      /\ d.RK = sending
  BY <1>1 DEF Closes, SameRatchet, Fields, DHRatchet
<1>6. c.RK = s.RK /\ c.DHs = s.DHs /\ c.Ns = s.Ns
  BY <1>1 DEF Closes, SameRatchet
<1> HIDE DEF d
<1>7. Ratchets(d, s, m, fresh, t)
  BY <1>1, <1>5, <1>6 DEF Ratchets, KdfRootKey
<1>8. WithinLimits(d)
  BY <1>4, <1>5 DEF WithinLimits, Stored
<1>9. Room(d, K)
  <2>1. s.DHr # NoKey => s.DHr \in K
    BY <1>2 DEF Room, Known
  <2>2. /\ \A k \in s.keys : k.rk \in K /\ k.at \in Nat
        /\ \A x \in s.processed : x.rk \in K /\ x.at \in Nat
        /\ DOMAIN s.chains \subseteq K
    BY <1>2 DEF Room, Known
  <2>3. \A k \in c.keys : k.rk \in K /\ k.at \in Nat
    BY <1>1, <2>1, <2>2 DEF Closes
  <2>4. \A x \in c.processed : x.rk \in K /\ x.at \in Nat
    BY <1>1, <2>1, <2>2 DEF Closes
  <2>5. DOMAIN c.chains \subseteq K
    BY <1>1, <2>1, <2>2 DEF Closes
  <2>6. Known(d) \subseteq K
    BY <1>5, <2>3, <2>4, <2>5 DEF Known
  <2> QED BY <1>2, <1>5, <2>3, <2>4, <2>6 DEF Room
<1> QED BY <1>3, <1>7, <1>8, <1>9 DEF Ample, c, d

\* decrypt() on the DH ratchet path loses nothing.
LEMMA RatchetOpens ==
  ASSUME RoomForAll, NEW s, NEW K, NEW m \in Messages, NEW t \in Nat, NEW fresh \in KeyPairs,
         BoundedMessage(m), Ample(s, K), m.rk \in K,
         ReceiveWithRatchet(s, m, fresh, t).result = "ok"
  PROVE  ByRatchet(ReceiveWithRatchet(s, m, fresh, t).session, s, m, fresh, t)
<1> DEFINE d == DHRatchet(CloseChain(s, m, t), m.rk, fresh)
           r == ReceiveInChain(d, m, t).session
<1>1. ReceiveWithRatchet(s, m, fresh, t) = ReceiveInChain(d, m, t)
  BY DEF ReceiveWithRatchet, Refused
<1>2. Ratchets(d, s, m, fresh, t) /\ Ample(d, K)
  BY RatchetDelivers
<1> HIDE DEF d
<1>3. d.DHr \in K
  BY <1>2 DEF Ratchets
<1>4. ByChain(r, d, m, t)
  BY <1>1, <1>2, <1>3, ChainDelivers
<1> HIDE DEF r
<1>5. PICK c : /\ Closes(c, s, m, t)
               /\ d.keys = c.keys /\ d.processed = c.processed /\ d.chains = c.chains
  BY <1>2 DEF Ratchets
<1>6. /\ d.DHs = fresh /\ d.DHr = m.rk /\ d.CKr = Append(s.RK, DH(s.DHs, m.rk))
      /\ d.RK = Append(d.CKr, DH(fresh, m.rk)) /\ d.CKs = d.RK
      /\ d.Ns = 0 /\ d.PN = s.Ns /\ d.Nr = 0
  BY <1>2 DEF Ratchets
<1>7. /\ m.chain = d.CKr /\ r.Nr = m.counter + 1 /\ SameButNr(r, d)
      /\ Fills(r, d, m.counter, t) /\ r.processed = d.processed
  BY <1>4 DEF ByChain
<1>8. /\ r.DHs = fresh /\ r.DHr = m.rk /\ r.CKr = m.chain
      /\ r.RK = Append(m.chain, DH(fresh, m.rk)) /\ r.CKs = r.RK
      /\ r.Ns = 0 /\ r.PN = s.Ns
  BY <1>6, <1>7 DEF SameButNr
<1>9. s.keys \subseteq r.keys
  BY <1>5, <1>7 DEF Closes, Fills
<1>10. \A k \in r.keys :
         \/ k \in s.keys
         \/ k.at = t /\ s.DHr # NoKey /\ k.rk = s.DHr /\ k.chain = s.CKr
         \/ k.at = t /\ k.rk = m.rk /\ k.chain = m.chain
  BY <1>5, <1>6, <1>7 DEF Closes, Fills
<1>11. s.DHr # NoKey =>
         \A i \in s.Nr .. m.previousCounter - 1 : \E k \in r.keys : k.rk = s.DHr /\ k.index = i
  BY <1>5, <1>7 DEF Closes, Fills
<1>12. \A i \in 0 .. m.counter - 1 : \E k \in r.keys : k.rk = m.rk /\ k.index = i
  BY <1>6, <1>7 DEF Fills
<1>13. \A x \in r.processed :
         x \in s.processed \/ (s.DHr # NoKey /\ x.rk = s.DHr /\ x.at = t)
  BY <1>5, <1>7 DEF Closes
<1>14. DOMAIN r.chains \subseteq DOMAIN s.chains \cup ({s.DHr} \ {NoKey}) \cup {m.rk}
  BY <1>5, <1>6, <1>7 DEF Closes, Fills
<1>15. ByRatchet(r, s, m, fresh, t)
  BY <1>6, <1>7, <1>8, <1>9, <1>10, <1>11, <1>12, <1>13, <1>14 DEF ByRatchet
<1> QED BY <1>1, <1>15 DEF r

\* The key of m is stored.
InStore(s, m) == \E k \in s.keys : k.rk = m.rk /\ k.index = m.counter /\ k.chain = m.chain

\* A stored key of s opened m, and is gone.
BySkipped(r, s, m) ==
  /\ InStore(s, m) /\ SameRatchet(r, s)
  /\ r.keys = s.keys \ SkippedKeys(s, m.rk, m.counter)
  /\ r.processed = s.processed /\ DOMAIN r.chains \subseteq DOMAIN s.chains

Opened(r, s, m, fresh, t) ==
  \/ BySkipped(r, s, m)
  \/ m.rk = s.DHr /\ ByChain(r, s, m, t)
  \/ m.rk # s.DHr /\ ByRatchet(r, s, m, fresh, t)

\* A state with fewer chains without keys is as ample as before.
LEMMA SameStoreAmple ==
  ASSUME NEW s, NEW c, NEW K, Ample(s, K), WithinLimits(c), SameRatchet(c, s), SameStore(c, s)
  PROVE  Ample(c, K)
<1>1. c.keys = s.keys /\ c.processed = s.processed /\ DOMAIN c.chains \subseteq DOMAIN s.chains
  BY DEF SameStore
<1>2. WellFormed(c)
  <2>1. Erased(s, {}) /\ WellFormed(s) /\ c.keys \subseteq s.keys
    BY <1>1 DEF Erased, Ample
  <2> QED BY <2>1, LosingKeys
<1>3. Bounded(c)
  BY <1>1 DEF Bounded, SameRatchet, Ample
<1>4. Known(c) \subseteq Known(s)
  BY <1>1 DEF Known, SameRatchet
<1>5. Room(c, K)
  BY <1>1, <1>4 DEF Room, Ample
<1> QED BY <1>2, <1>3, <1>5 DEF Ample

\* decrypt() loses nothing but the key that it uses.
LEMMA ReceiveDelivers ==
  ASSUME RoomForAll, NEW s, NEW K, NEW m \in Messages, NEW t \in 0 .. MaxTime,
         NEW fresh \in KeyPairs, BoundedMessage(m), Ample(s, K), m.rk \in K,
         Receive(s, m, fresh, t).result = "ok"
  PROVE  Opened(Receive(s, m, fresh, t).session, s, m, fresh, t)
<1> DEFINE c == Cleanup(s, t)
           r == Receive(s, m, fresh, t).session
<1>0. t \in Nat /\ m.rk # NoKey
  BY BoundsAssumption, NoKeyAssumption DEF Messages, KeyPairs
<1>1. SameRatchet(c, s) /\ SameStore(c, s)
  BY CleanupKeeps
<1>2. WithinLimits(c)
  BY CleanupLimits DEF Ample
<1>3. Ample(c, K)
  BY <1>1, <1>2, SameStoreAmple
<1>4. /\ c.DHs = s.DHs /\ c.DHr = s.DHr /\ c.RK = s.RK /\ c.CKs = s.CKs /\ c.Ns = s.Ns
      /\ c.CKr = s.CKr /\ c.Nr = s.Nr /\ c.PN = s.PN /\ DOMAIN c = Fields
      /\ c.keys = s.keys /\ c.processed = s.processed
      /\ DOMAIN c.chains \subseteq DOMAIN s.chains
  BY <1>1 DEF SameRatchet, SameStore
<1> HIDE DEF c
<1>5. CASE SkippedKeys(c, m.rk, m.counter) # {}
  <2>1. Receive(s, m, fresh, t) = ReceiveSkipped(c, m)
    BY <1>5 DEF Receive, c
  <2>2. /\ \E k \in SkippedKeys(c, m.rk, m.counter) : k.chain = m.chain
        /\ r = ConsumeSkipped(c, m.rk, m.counter)
    BY <2>1 DEF ReceiveSkipped, Refused, Accepted
  <2>3. InStore(s, m)
    BY <1>4, <2>2 DEF SkippedKeys, Stored, InStore
  <2>4. /\ SameRatchet(r, s) /\ r.keys = c.keys \ SkippedKeys(c, m.rk, m.counter)
        /\ r.processed = c.processed /\ r.chains = c.chains
    BY <1>4, <2>2 DEF ConsumeSkipped, SameRatchet, Fields
  <2>5. SkippedKeys(c, m.rk, m.counter) = SkippedKeys(s, m.rk, m.counter)
    BY <1>4 DEF SkippedKeys, Stored
  <2> HIDE DEF r
  <2>6. BySkipped(r, s, m)
    BY <1>4, <2>3, <2>4, <2>5 DEF BySkipped
  <2> QED BY <2>6 DEF Opened, r
<1>6. CASE SkippedKeys(c, m.rk, m.counter) = {} /\ c.DHr = m.rk
  <2>1. Receive(s, m, fresh, t) = ReceiveInChain(c, m, t)
    BY <1>0, <1>6 DEF Receive, c
  <2>2. ByChain(r, c, m, t)
    BY <1>3, <1>6, <2>1, ChainDelivers
  <2> HIDE DEF r
  <2>3. Fills(r, s, m.counter, t) /\ SameButNr(r, s)
    BY <1>4, <2>2 DEF ByChain, Fills, SameButNr
  <2>4. ByChain(r, s, m, t)
    BY <1>4, <2>2, <2>3 DEF ByChain
  <2> QED BY <1>4, <1>6, <2>4 DEF Opened, r
<1>7. CASE /\ SkippedKeys(c, m.rk, m.counter) = {} /\ c.DHr # m.rk
           /\ c.DHr = NoKey \/ ~ProcessedChain(c, m.rk)
  <2>1. Receive(s, m, fresh, t) = ReceiveWithRatchet(c, m, fresh, t)
    BY <1>7 DEF Receive, c
  <2>2. ByRatchet(r, c, m, fresh, t)
    BY <1>0, <1>3, <2>1, RatchetOpens
  <2> HIDE DEF r
  <2>3. ByRatchet(r, s, m, fresh, t)
    BY <1>4, <2>2 DEF ByRatchet
  <2> QED BY <1>4, <1>7, <2>3 DEF Opened, r
<1>8. CASE /\ SkippedKeys(c, m.rk, m.counter) = {}
           /\ c.DHr # NoKey /\ c.DHr # m.rk /\ ProcessedChain(c, m.rk)
  BY <1>8 DEF Receive, c, Refused
<1> QED BY <1>5, <1>6, <1>7, <1>8

KeysUpTo(q, n) == {q} \X (0 .. n)

\* The receiving chain of s still comes to m.
Ahead(s, m) == s.DHr = m.rk /\ s.CKr = m.chain /\ s.Nr <= m.counter

\* t made the last DH ratchet step, with the key of s that it has: the next one of
\* s derives the sending chain of t, and t receives on the sending chain of s.
Leads(t, s) ==
  /\ t.DHr = s.DHs
  /\ t.RK = Append(s.RK, DH(s.DHs, t.DHs))
  /\ s.CKs = s.RK => t.CKr = s.RK

\* Party q, which has generated n ratchet keys, has sent out and is in state t.
Sender(t, out, q, n) ==
  /\ t.DHs = <<q, n>>
  /\ \A m \in out :
       /\ m.rk \in KeysUpTo(q, n)
       /\ m.chain = t.RK <=> m.rk = t.DHs
       /\ m.rk = t.DHs => m.previousCounter = t.PN /\ m.counter < t.Ns
  /\ \A m, l \in out : m.rk = l.rk /\ m.counter = l.counter => m = l

\* The state s knows keys of party q only, and the keys of its receiving chain
\* belong to the ratchet key of that chain.
Receiver(s, q, n) ==
  /\ Known(s) \subseteq KeysUpTo(q, n)
  /\ \A k \in s.keys : k.at \in Nat /\ (k.rk = s.DHr => k.chain = s.CKr)
  /\ \A c \in s.processed : c.at \in Nat /\ c.rk # s.DHr

\* Where a message of t that s has not received is.
Pending(s, t, m) == InStore(s, m) \/ Ahead(s, m) \/ (Leads(t, s) /\ m.rk = t.DHs)

Pair(s, t, out, acc) ==
  /\ Leads(t, s) => /\ t.DHs \notin Known(s)
                    /\ \A m \in out : m.rk = s.DHr => m.counter < t.PN
  /\ Leads(s, t) => s.Nr <= t.Ns
  /\ \A m \in out \ acc : Pending(s, t, m)

\* The direction from party q with state t to the state s of its peer.
Link(s, t, out, acc, q, n) ==
  /\ out \subseteq Messages /\ n \in Nat
  /\ WellFormed(s) /\ WellFormed(t) /\ SentOlder(t, out)
  /\ Sender(t, out, q, n) /\ Receiver(s, q, n) /\ Pair(s, t, out, acc)

\* One party is a DH ratchet step ahead, and only one.
LEMMA OneLeads ==
  ASSUME NEW s, NEW t, WellFormed(s), WellFormed(t), Leads(t, s)
  PROVE  ~Leads(s, t) /\ Len(t.RK) = Len(s.RK) + 1 /\ Len(s.RK) \in Nat
<1>1. /\ s.RK \in Seq(Mixed) /\ t.RK \in Seq(Mixed)
      /\ DH(s.DHs, t.DHs) \in Mixed /\ DH(t.DHs, s.DHs) \in Mixed
  BY DEF WellFormed, DH, Mixed
<1>2. t.RK = Append(s.RK, DH(s.DHs, t.DHs))
  BY DEF Leads
<1>3. Len(t.RK) = Len(s.RK) + 1 /\ Len(s.RK) \in Nat /\ Len(t.RK) \in Nat
  BY <1>1, <1>2
<1>4. ASSUME Leads(s, t) PROVE FALSE
  <2>1. s.RK = Append(t.RK, DH(t.DHs, s.DHs))
    BY <1>4 DEF Leads
  <2>2. Len(s.RK) = Len(t.RK) + 1
    BY <1>1, <2>1
  <2> QED BY <1>3, <2>2
<1> QED BY <1>3, <1>4

\* A stored key opened m: the others stay where they are.
LEMMA SkippedLink ==
  ASSUME NEW s, NEW t, NEW out, NEW acc, NEW q, NEW n, NEW m \in out, NEW r,
         Link(s, t, out, acc, q, n), WellFormed(r), BySkipped(r, s, m)
  PROVE  Link(r, t, out, acc \cup {m}, q, n)
<1>1. /\ r.DHs = s.DHs /\ r.DHr = s.DHr /\ r.RK = s.RK /\ r.CKs = s.CKs
      /\ r.CKr = s.CKr /\ r.Nr = s.Nr
      /\ r.keys = s.keys \ SkippedKeys(s, m.rk, m.counter)
      /\ r.processed = s.processed /\ DOMAIN r.chains \subseteq DOMAIN s.chains
  BY DEF BySkipped, SameRatchet
<1>2. Known(r) \subseteq Known(s)
  BY <1>1 DEF Known
<1>3. Receiver(r, q, n)
  BY <1>1, <1>2 DEF Receiver, Link
<1>4. (Leads(t, r) <=> Leads(t, s)) /\ (Leads(r, t) <=> Leads(s, t))
  BY <1>1 DEF Leads
<1>5. ASSUME NEW l \in out \ (acc \cup {m}) PROVE Pending(r, t, l)
  <2>1. Pending(s, t, l)
    BY DEF Link, Pair
  <2>2. ~(l.rk = m.rk /\ l.counter = m.counter)
    BY DEF Link, Sender
  <2>3. CASE InStore(s, l)
    BY <1>1, <2>2, <2>3 DEF InStore, SkippedKeys, Stored, Pending
  <2>4. CASE Ahead(s, l)
    BY <1>1, <2>4 DEF Ahead, Pending
  <2>5. CASE Leads(t, s) /\ l.rk = t.DHs
    BY <1>4, <2>5 DEF Pending
  <2> QED BY <2>1, <2>3, <2>4, <2>5 DEF Pending
<1>6. Pair(r, t, out, acc \cup {m})
  BY <1>1, <1>2, <1>4, <1>5 DEF Pair, Link
<1> QED BY <1>3, <1>6 DEF Link

\* The receiving chain opened m: the messages before it are stored now.
LEMMA ChainLink ==
  ASSUME NEW s, NEW t, NEW out, NEW acc, NEW q, NEW n, NEW m \in out, NEW r, NEW time \in Nat,
         Link(s, t, out, acc, q, n), WellFormed(r), m.rk = s.DHr, ByChain(r, s, m, time)
  PROVE  Link(r, t, out, acc \cup {m}, q, n)
<1>0. /\ s.DHr # NoKey /\ m.counter \in Nat /\ s.Nr \in Nat /\ t.Ns \in Nat
      /\ \A l \in out : l.counter \in Nat
  BY NoKeyAssumption DEF Link, Messages, KeyPairs, WellFormed
<1>1. /\ r.DHs = s.DHs /\ r.DHr = s.DHr /\ r.RK = s.RK /\ r.CKs = s.CKs
      /\ r.CKr = s.CKr /\ r.processed = s.processed
      /\ r.Nr = m.counter + 1 /\ s.Nr <= m.counter
  BY DEF ByChain, SameButNr
<1>2. /\ s.keys \subseteq r.keys
      /\ \A k \in r.keys : k \in s.keys \/ (k.rk = s.DHr /\ k.chain = s.CKr /\ k.at = time)
      /\ \A i \in s.Nr .. m.counter - 1 : \E k \in r.keys : k.rk = s.DHr /\ k.index = i
      /\ DOMAIN r.chains \subseteq DOMAIN s.chains \cup {s.DHr}
  BY DEF ByChain, Fills
<1>3. Known(r) \subseteq Known(s)
  BY <1>0, <1>1, <1>2 DEF Known
<1>4. Receiver(r, q, n)
  BY <1>1, <1>2, <1>3 DEF Receiver, Link
<1>5. (Leads(t, r) <=> Leads(t, s)) /\ (Leads(r, t) <=> Leads(s, t))
  BY <1>1 DEF Leads
<1>6. Leads(r, t) => r.Nr <= t.Ns
  <2>1. Leads(s, t) => m.rk = t.DHs
    BY DEF Leads
  <2>2. m.rk = t.DHs => m.counter < t.Ns
    BY DEF Link, Sender
  <2> QED BY <1>0, <1>1, <1>5, <2>1, <2>2
<1>7. ASSUME NEW l \in out \ (acc \cup {m}) PROVE Pending(r, t, l)
  <2>1. Pending(s, t, l)
    BY DEF Link, Pair
  <2>2. ~(l.rk = m.rk /\ l.counter = m.counter)
    BY DEF Link, Sender
  <2>3. CASE InStore(s, l)
    BY <1>2, <2>3 DEF InStore, Pending
  <2>4. CASE Ahead(s, l)
    <3>1. l.rk = s.DHr /\ l.chain = s.CKr /\ s.Nr <= l.counter
      BY <2>4 DEF Ahead
    <3>2. CASE l.counter < m.counter
      <4>1. l.counter \in s.Nr .. m.counter - 1
        BY <1>0, <3>1, <3>2
      <4>2. PICK k \in r.keys : k.rk = s.DHr /\ k.index = l.counter
        BY <1>2, <4>1
      <4>3. k.chain = s.CKr
        BY <1>2, <4>2 DEF Link, Receiver
      <4> QED BY <3>1, <4>2, <4>3 DEF InStore, Pending
    <3>3. CASE ~(l.counter < m.counter)
      <4>1. r.Nr <= l.counter
        BY <1>0, <1>1, <2>2, <3>1, <3>3
      <4> QED BY <1>1, <3>1, <4>1 DEF Ahead, Pending
    <3> QED BY <3>2, <3>3
  <2>5. CASE Leads(t, s) /\ l.rk = t.DHs
    BY <1>5, <2>5 DEF Pending
  <2> QED BY <2>1, <2>3, <2>4, <2>5 DEF Pending
<1>8. Pair(r, t, out, acc \cup {m})
  BY <1>1, <1>3, <1>5, <1>6, <1>7 DEF Pair, Link
<1> QED BY <1>4, <1>8 DEF Link

\* A message that the DH ratchet step of s can open is on the sending chain of its
\* peer, which leads.
LEMMA RatchetMessage ==
  ASSUME NEW s, NEW t, NEW out, NEW acc, NEW q, NEW n, NEW m \in out,
         Link(s, t, out, acc, q, n), Leads(s, t) \/ Leads(t, s),
         m.chain = Append(s.RK, DH(s.DHs, m.rk))
  PROVE  Leads(t, s) /\ m.rk = t.DHs /\ m.chain = t.RK
<1>1. /\ s.RK \in Seq(Mixed) /\ t.RK \in Seq(Mixed) /\ s.DHs \in KeyPairs /\ m.rk \in KeyPairs
      /\ WellFormed(s) /\ WellFormed(t)
  BY DEF Link, WellFormed, Messages
<1>2. DH(s.DHs, m.rk) \in Mixed
  BY <1>1 DEF DH, Mixed
<1>3. Len(m.chain) = Len(s.RK) + 1 /\ Len(s.RK) \in Nat /\ Len(t.RK) \in Nat
  BY <1>1, <1>2
<1>4. m.chain = t.RK \/ Len(m.chain) < Len(t.RK)
  BY DEF Link, SentOlder
<1>5. Leads(t, s)
  <2>1. SUFFICES ASSUME Leads(s, t) PROVE FALSE
    OBVIOUS
  <2>2. Len(s.RK) = Len(t.RK) + 1
    BY <1>1, <2>1, OneLeads
  <2> QED BY <1>3, <1>4, <2>2
<1>6. Len(t.RK) = Len(s.RK) + 1
  BY <1>1, <1>5, OneLeads
<1>7. m.chain = t.RK
  BY <1>3, <1>4, <1>6
<1> QED BY <1>5, <1>7 DEF Link, Sender

\* The DH ratchet step of s opened m: s leads now, the messages left of the chain
\* that ended and those before m are stored, and those after m are ahead.
LEMMA RatchetLink ==
  ASSUME NEW s, NEW t, NEW out, NEW acc, NEW q, NEW n, NEW m \in out, NEW r, NEW time \in Nat,
         NEW fresh, Link(s, t, out, acc, q, n), WellFormed(r), Leads(s, t) \/ Leads(t, s),
         m.rk # s.DHr, ByRatchet(r, s, m, fresh, time)
  PROVE  Link(r, t, out, acc \cup {m}, q, n) /\ Leads(r, t) /\ Leads(t, s)
<1>0. /\ m.rk # NoKey /\ m.counter \in Nat /\ s.Nr \in Nat /\ t.Ns \in Nat
      /\ m.previousCounter \in Nat
      /\ \A l \in out : l.counter \in Nat /\ l.rk # NoKey
      /\ WellFormed(s) /\ WellFormed(t)
  BY NoKeyAssumption DEF Link, Messages, KeyPairs, WellFormed
<1>1. /\ m.chain = Append(s.RK, DH(s.DHs, m.rk))
      /\ r.DHs = fresh /\ r.DHr = m.rk /\ r.CKr = m.chain
      /\ r.RK = Append(m.chain, DH(fresh, m.rk))
      /\ r.Nr = m.counter + 1
  BY DEF ByRatchet
<1>2. Leads(t, s) /\ m.rk = t.DHs /\ m.chain = t.RK
  BY <1>1, RatchetMessage
<1>3. /\ m.previousCounter = t.PN /\ m.counter < t.Ns
      /\ t.DHs \notin Known(s)
      /\ \A l \in out : l.rk = s.DHr => l.counter < t.PN
  BY <1>2 DEF Link, Sender, Pair
<1>4. /\ s.keys \subseteq r.keys
      /\ \A k \in r.keys :
           \/ k \in s.keys
           \/ k.at = time /\ s.DHr # NoKey /\ k.rk = s.DHr /\ k.chain = s.CKr
           \/ k.at = time /\ k.rk = m.rk /\ k.chain = m.chain
      /\ s.DHr # NoKey =>
           \A i \in s.Nr .. m.previousCounter - 1 : \E k \in r.keys : k.rk = s.DHr /\ k.index = i
      /\ \A i \in 0 .. m.counter - 1 : \E k \in r.keys : k.rk = m.rk /\ k.index = i
      /\ \A x \in r.processed :
           x \in s.processed \/ (s.DHr # NoKey /\ x.rk = s.DHr /\ x.at = time)
      /\ DOMAIN r.chains \subseteq DOMAIN s.chains \cup ({s.DHr} \ {NoKey}) \cup {m.rk}
  BY DEF ByRatchet
<1>5. Leads(r, t)
  BY <1>1, <1>2 DEF Leads, DH
<1>6. ~Leads(t, r)
  BY <1>0, <1>5, OneLeads
<1>7. /\ \A k \in s.keys : k.rk \in Known(s) /\ k.at \in Nat
      /\ \A x \in s.processed : x.rk \in Known(s) /\ x.at \in Nat
      /\ DOMAIN s.chains \subseteq Known(s)
      /\ s.DHr # NoKey => s.DHr \in Known(s)
      /\ \A k \in s.keys : k.rk = s.DHr => k.chain = s.CKr
  BY DEF Known, Link, Receiver
<1>8. Known(r) \subseteq Known(s) \cup {m.rk}
  <2>1. \A k \in r.keys : k.rk \in Known(s) \cup {m.rk}
    BY <1>4, <1>7
  <2>2. \A x \in r.processed : x.rk \in Known(s) \cup {m.rk}
    BY <1>4, <1>7
  <2>3. DOMAIN r.chains \subseteq Known(s) \cup {m.rk}
    BY <1>4, <1>7
  <2> HIDE <1>4, <1>7
  <2>4. \A y \in Known(r) : \/ \E k \in r.keys : y = k.rk
                            \/ \E x \in r.processed : y = x.rk
                            \/ y \in DOMAIN r.chains \/ y = m.rk
    BY <1>1 DEF Known
  <2> QED BY <2>1, <2>2, <2>3, <2>4
<1>9. Receiver(r, q, n)
  <2>1. m.rk \in KeysUpTo(q, n) /\ Known(s) \subseteq KeysUpTo(q, n)
    BY DEF Link, Sender, Receiver
  <2>2. \A k \in r.keys : k.at \in Nat /\ (k.rk = r.DHr => k.chain = r.CKr)
    BY <1>1, <1>2, <1>3, <1>4, <1>7
  <2>3. \A x \in r.processed : x.at \in Nat /\ x.rk # r.DHr
    BY <1>1, <1>2, <1>3, <1>4, <1>7
  <2> QED BY <1>8, <2>1, <2>2, <2>3 DEF Receiver
<1>10. ASSUME NEW l \in out \ (acc \cup {m}) PROVE Pending(r, t, l)
  <2>1. Pending(s, t, l)
    BY DEF Link, Pair
  <2>2. ~(l.rk = m.rk /\ l.counter = m.counter)
    BY DEF Link, Sender
  <2>3. CASE InStore(s, l)
    BY <1>4, <2>3 DEF InStore, Pending
  <2>4. CASE Ahead(s, l)
    <3>1. l.rk = s.DHr /\ l.chain = s.CKr /\ s.Nr <= l.counter /\ s.DHr # NoKey
      BY <1>0, <2>4 DEF Ahead
    <3>2. l.counter \in s.Nr .. m.previousCounter - 1
      BY <1>0, <1>3, <3>1
    <3>3. PICK k \in r.keys : k.rk = s.DHr /\ k.index = l.counter
      BY <1>4, <3>1, <3>2
    <3>4. k.chain = s.CKr
      BY <1>4, <1>7, <3>3
    <3> QED BY <3>1, <3>3, <3>4 DEF InStore, Pending
  <2>5. CASE l.rk = t.DHs
    <3>1. l.chain = t.RK
      BY <2>5 DEF Link, Sender
    <3>2. CASE l.counter < m.counter
      <4>1. l.counter \in 0 .. m.counter - 1
        BY <1>0, <3>2
      <4>2. PICK k \in r.keys : k.rk = m.rk /\ k.index = l.counter
        BY <1>4, <4>1
      <4>3. k.chain = m.chain
        BY <1>2, <1>3, <1>4, <1>7, <4>2
      <4> QED BY <1>2, <2>5, <3>1, <4>2, <4>3 DEF InStore, Pending
    <3>3. CASE ~(l.counter < m.counter)
      <4>1. r.Nr <= l.counter
        BY <1>0, <1>1, <1>2, <2>2, <2>5, <3>3
      <4> QED BY <1>1, <1>2, <2>5, <3>1, <4>1 DEF Ahead, Pending
    <3> QED BY <3>2, <3>3
  <2> QED BY <2>1, <2>3, <2>4, <2>5 DEF Pending
<1>11. r.Nr <= t.Ns
  BY <1>0, <1>1, <1>3
<1>12. Pair(r, t, out, acc \cup {m})
  BY <1>6, <1>10, <1>11 DEF Pair
<1> QED BY <1>2, <1>5, <1>9, <1>12 DEF Link

\* The same step seen from the other direction: s begins a sending chain that its
\* peer does not know, and announces how many messages the old one had.
LEMMA RatchetSends ==
  ASSUME NEW s, NEW t, NEW out, NEW acc, NEW p, NEW n, NEW r, NEW m \in Messages, NEW time,
         Link(t, s, out, acc, p, n), WellFormed(r), Leads(t, s), Leads(r, t),
         ByRatchet(r, s, m, <<p, n + 1>>, time)
  PROVE  Link(t, r, out, acc, p, n + 1)
<1>1. r.DHs = <<p, n + 1>> /\ r.PN = s.Ns /\ n \in Nat /\ WellFormed(s) /\ WellFormed(t)
  BY DEF ByRatchet, Link
<1>2. Len(r.RK) = Len(t.RK) + 1 /\ Len(t.RK) = Len(s.RK) + 1 /\ Len(s.RK) \in Nat
  BY <1>1, OneLeads
<1>3. ~Leads(s, t) /\ ~Leads(t, r)
  BY <1>1, OneLeads
<1>4. \A l \in out : Len(l.chain) \in Nat /\ Len(l.chain) <= Len(s.RK)
  BY <1>2 DEF Link, Messages, SentOlder
<1>5. SentOlder(r, out)
  BY <1>2, <1>4 DEF SentOlder
<1>6. KeysUpTo(p, n) \subseteq KeysUpTo(p, n + 1) /\ <<p, n + 1>> \notin KeysUpTo(p, n)
  BY <1>1 DEF KeysUpTo
<1>7. Sender(r, out, p, n + 1)
  <2>1. \A l \in out : l.chain # r.RK
    BY <1>2, <1>4
  <2>2. \A l \in out : l.rk \in KeysUpTo(p, n)
    BY DEF Link, Sender
  <2>3. \A m1, l \in out : m1.rk = l.rk /\ m1.counter = l.counter => m1 = l
    BY DEF Link, Sender
  <2> QED BY <1>1, <1>6, <2>1, <2>2, <2>3 DEF Sender
<1>8. Receiver(t, p, n + 1)
  BY <1>6 DEF Receiver, Link
<1>9. \A l \in out : l.rk = t.DHr => l.counter < r.PN
  <2>1. t.DHr = s.DHs
    BY DEF Leads
  <2> QED BY <1>1, <2>1 DEF Link, Sender
<1>10. r.DHs \notin Known(t)
  BY <1>1, <1>6 DEF Link, Receiver
<1>11. \A l \in out \ acc : Pending(t, r, l)
  BY <1>3 DEF Link, Pair, Pending
<1>12. Pair(t, r, out, acc)
  BY <1>3, <1>9, <1>10, <1>11 DEF Pair
<1> QED BY <1>1, <1>5, <1>7, <1>8, <1>12 DEF Link

\* The other two paths leave the sending side of s as it is.
LEMMA SendingStays ==
  ASSUME NEW s, NEW t, NEW out, NEW acc, NEW p, NEW n, NEW r,
         Link(t, s, out, acc, p, n), WellFormed(r), SameButNr(r, s)
  PROVE  /\ Link(t, r, out, acc, p, n)
         /\ (Leads(r, t) <=> Leads(s, t)) /\ (Leads(t, r) <=> Leads(t, s))
<1>1. /\ r.DHs = s.DHs /\ r.DHr = s.DHr /\ r.RK = s.RK /\ r.CKs = s.CKs
      /\ r.Ns = s.Ns /\ r.CKr = s.CKr /\ r.PN = s.PN
  BY DEF SameButNr
<1>2. (Leads(r, t) <=> Leads(s, t)) /\ (Leads(t, r) <=> Leads(t, s))
  BY <1>1 DEF Leads
<1>3. Sender(r, out, p, n) /\ SentOlder(r, out)
  BY <1>1 DEF Link, Sender, SentOlder
<1>4. \A m \in out \ acc : Pending(t, r, m)
  BY <1>1, <1>2 DEF Link, Pair, Pending
<1>5. Pair(t, r, out, acc)
  BY <1>1, <1>2, <1>4 DEF Link, Pair
<1> QED BY <1>2, <1>3, <1>5 DEF Link

\* A successful attempt of party p keeps both directions.
LEMMA OpenedLinks ==
  ASSUME NEW s, NEW t, NEW in, NEW out, NEW acc, NEW pacc, NEW p, NEW q, NEW n, NEW np,
         NEW m \in in, NEW r, NEW time \in Nat, WellFormed(r),
         Link(s, t, in, acc, q, n), Link(t, s, out, pacc, p, np),
         Leads(s, t) \/ Leads(t, s), Opened(r, s, m, <<p, np + 1>>, time)
  PROVE  /\ Link(r, t, in, acc \cup {m}, q, n)
         /\ Link(t, r, out, pacc, p, IF r.DHs = s.DHs THEN np ELSE np + 1)
         /\ Leads(r, t) \/ Leads(t, r)
<1>0. s.DHs = <<p, np>> /\ np \in Nat
  BY DEF Link, Sender
<1>1. CASE BySkipped(r, s, m)
  <2>1. SameButNr(r, s) /\ r.DHs = s.DHs
    BY <1>1 DEF BySkipped, SameRatchet, SameButNr
  <2>2. Link(r, t, in, acc \cup {m}, q, n)
    BY <1>1, SkippedLink
  <2>3. Link(t, r, out, pacc, p, np) /\ (Leads(r, t) \/ Leads(t, r))
    BY <2>1, SendingStays
  <2> QED BY <2>1, <2>2, <2>3
<1>2. CASE m.rk = s.DHr /\ ByChain(r, s, m, time)
  <2>1. SameButNr(r, s) /\ r.DHs = s.DHs
    BY <1>2 DEF ByChain, SameButNr
  <2>2. Link(r, t, in, acc \cup {m}, q, n)
    BY <1>2, ChainLink
  <2>3. Link(t, r, out, pacc, p, np) /\ (Leads(r, t) \/ Leads(t, r))
    BY <2>1, SendingStays
  <2> QED BY <2>1, <2>2, <2>3
<1>3. CASE m.rk # s.DHr /\ ByRatchet(r, s, m, <<p, np + 1>>, time)
  <2>1. Link(r, t, in, acc \cup {m}, q, n) /\ Leads(r, t) /\ Leads(t, s)
    BY <1>3, RatchetLink
  <2>2. r.DHs # s.DHs
    BY <1>0, <1>3 DEF ByRatchet
  <2>3. m \in Messages
    BY DEF Link
  <2>4. Link(t, r, out, pacc, p, np + 1)
    BY <1>3, <2>1, <2>3, RatchetSends
  <2> QED BY <2>1, <2>2, <2>4
<1> QED BY <1>1, <1>2, <1>3 DEF Opened

\* encrypt() with state t: only Ns moves.
Sends(r, t) ==
  /\ r.DHs = t.DHs /\ r.DHr = t.DHr /\ r.RK = t.RK /\ r.CKs = t.CKs
  /\ r.Ns = t.Ns + 1 /\ r.CKr = t.CKr /\ r.Nr = t.Nr /\ r.PN = t.PN
  /\ SameStore(r, t)

\* The new message is ahead of its receiver, or on the chain it will derive.
LEMMA SendLink ==
  ASSUME NEW s, NEW t, NEW out, NEW acc, NEW q, NEW n, NEW r, NEW m \in Messages,
         Link(s, t, out, acc, q, n), WellFormed(r), Leads(s, t) \/ Leads(t, s),
         Sends(r, t), t.CKs = t.RK,
         m.rk = t.DHs, m.chain = t.RK, m.counter = t.Ns, m.previousCounter = t.PN
  PROVE  Link(s, r, out \cup {m}, acc, q, n)
<1>0. /\ WellFormed(s) /\ WellFormed(t) /\ t.Ns \in Nat /\ out \subseteq Messages
      /\ \A l \in out : l.counter \in Nat
  BY DEF Link, WellFormed, Messages
<1>1. /\ r.DHs = t.DHs /\ r.DHr = t.DHr /\ r.RK = t.RK /\ r.CKs = t.CKs
      /\ r.Ns = t.Ns + 1 /\ r.CKr = t.CKr /\ r.PN = t.PN
  BY DEF Sends
<1>2. (Leads(r, s) <=> Leads(t, s)) /\ (Leads(s, r) <=> Leads(s, t))
  BY <1>1 DEF Leads
<1>3. /\ t.DHs = <<q, n>> /\ n \in Nat
      /\ \A l \in out : /\ l.rk \in KeysUpTo(q, n)
                        /\ l.chain = t.RK <=> l.rk = t.DHs
                        /\ l.rk = t.DHs => l.previousCounter = t.PN /\ l.counter < t.Ns
      /\ \A a, b \in out : a.rk = b.rk /\ a.counter = b.counter => a = b
      /\ SentOlder(t, out)
  BY DEF Link, Sender
<1>4. Sender(r, out \cup {m}, q, n)
  <2>1. m.rk \in KeysUpTo(q, n)
    BY <1>3 DEF KeysUpTo
  <2>2. \A l \in out \cup {m} : /\ l.rk \in KeysUpTo(q, n)
                                /\ l.chain = r.RK <=> l.rk = r.DHs
                                /\ l.rk = r.DHs => l.previousCounter = r.PN /\ l.counter < r.Ns
    BY <1>0, <1>1, <1>3, <2>1
  <2>3. \A l \in out : ~(l.rk = m.rk /\ l.counter = m.counter)
    BY <1>0, <1>3
  <2>4. \A a, b \in out \cup {m} : a.rk = b.rk /\ a.counter = b.counter => a = b
    BY <1>3, <2>3
  <2> QED BY <1>1, <1>3, <2>2, <2>4 DEF Sender
<1>5. SentOlder(r, out \cup {m})
  BY <1>1, <1>3 DEF SentOlder
<1>6. Pending(s, r, m)
  <2>1. CASE Leads(t, s)
    BY <1>1, <1>2, <2>1 DEF Pending
  <2>2. CASE Leads(s, t)
    <3>1. s.DHr = t.DHs /\ s.CKr = t.RK /\ s.Nr <= t.Ns
      BY <2>2 DEF Leads, Link, Pair
    <3> QED BY <3>1 DEF Pending, Ahead
  <2> QED BY <2>1, <2>2
<1>7. \A l \in out \ acc : Pending(s, r, l)
  BY <1>1, <1>2 DEF Link, Pair, Pending
<1>8. Leads(r, s) => /\ r.DHs \notin Known(s)
                     /\ \A l \in out \cup {m} : l.rk = s.DHr => l.counter < r.PN
  <2>1. SUFFICES ASSUME Leads(t, s)
                 PROVE  /\ r.DHs \notin Known(s)
                        /\ \A l \in out \cup {m} : l.rk = s.DHr => l.counter < r.PN
    BY <1>2
  <2>2. t.DHs \notin Known(s) /\ \A l \in out : l.rk = s.DHr => l.counter < t.PN
    BY <2>1 DEF Link, Pair
  <2>3. m.rk # s.DHr
    <3>1. m.rk # NoKey
      BY NoKeyAssumption DEF Messages, KeyPairs
    <3> QED BY <2>2, <3>1 DEF Known
  <2> QED BY <1>1, <2>2, <2>3
<1>9. Leads(s, r) => s.Nr <= r.Ns
  <2>1. s.Nr \in Nat /\ (Leads(s, t) => s.Nr <= t.Ns)
    BY <1>0 DEF Link, Pair, WellFormed
  <2> QED BY <1>0, <1>1, <1>2, <2>1
<1>10. Pair(s, r, out \cup {m}, acc)
  BY <1>6, <1>7, <1>8, <1>9 DEF Pair
<1>11. Receiver(s, q, n) /\ out \cup {m} \subseteq Messages
  BY DEF Link
<1> QED BY <1>0, <1>3, <1>4, <1>5, <1>10, <1>11 DEF Link

\* The sender's own receiving side stays as it is.
LEMMA SendReceives ==
  ASSUME NEW s, NEW t, NEW in, NEW acc, NEW q, NEW n, NEW r,
         Link(t, s, in, acc, q, n), WellFormed(r), Sends(r, t)
  PROVE  /\ Link(r, s, in, acc, q, n)
         /\ (Leads(r, s) <=> Leads(t, s)) /\ (Leads(s, r) <=> Leads(s, t))
<1>1. /\ r.DHs = t.DHs /\ r.DHr = t.DHr /\ r.RK = t.RK /\ r.CKs = t.CKs
      /\ r.CKr = t.CKr /\ r.Nr = t.Nr
      /\ r.keys = t.keys /\ r.processed = t.processed /\ DOMAIN r.chains \subseteq DOMAIN t.chains
  BY DEF Sends, SameStore
<1>2. (Leads(r, s) <=> Leads(t, s)) /\ (Leads(s, r) <=> Leads(s, t))
  BY <1>1 DEF Leads
<1>3. Known(r) \subseteq Known(t)
  BY <1>1 DEF Known
<1>4. Receiver(r, q, n)
  BY <1>1, <1>3 DEF Link, Receiver
<1>5. \A m \in in \ acc : Pending(r, s, m)
  BY <1>1, <1>2 DEF Link, Pair, Pending, InStore, Ahead
<1>6. Pair(r, s, in, acc)
  BY <1>1, <1>2, <1>3, <1>5 DEF Link, Pair
<1> QED BY <1>2, <1>4, <1>6 DEF Link

\* The two directions of the session, and which party leads.
DInv ==
  /\ TInv /\ RInv /\ SInv
  /\ \A p \in Parties :
       /\ Leads(session[p], session[Peer(p)]) \/ Leads(session[Peer(p)], session[p])
       /\ Link(session[p], session[Peer(p)], sent[Peer(p)], accepted[p],
               Peer(p), ratchets[Peer(p)])

\* There are two parties, and each is the peer of the other.
LEMMA PeerOf ==
  ASSUME NEW p \in Parties
  PROVE  /\ Peer(p) \in Parties /\ Peer(p) # p /\ Peer(Peer(p)) = p
         /\ \A q \in Parties : q = p \/ q = Peer(p)
  BY PartiesDiffer DEF Peer, Parties

\* The array of receiver chains has a place for every ratchet key of the peer.
LEMMA IsAmple ==
  ASSUME RoomForAll, DInv, NEW p \in Parties
  PROVE  Ample(session[p], KeysUpTo(Peer(p), ratchets[Peer(p)]))
<1> DEFINE q == Peer(p)
           n == ratchets[q]
           K == KeysUpTo(q, n)
<1>1. q \in Parties /\ n \in Nat /\ n <= MaxRatchets
  <2>1. ratchets \in [Parties -> Nat] /\ ratchets[Alice] + ratchets[Bob] <= MaxRatchets
    BY DEF DInv, TInv, IInv, RatchetSteps
  <2>2. q \in Parties
    BY PeerOf
  <2> QED BY <2>1, <2>2, BoundsAssumption DEF Parties
<1> HIDE DEF q, n
<1>2. IsFiniteSet(K) /\ Cardinality(K) <= MaxReceiverChains
  <2>1. IsFiniteSet(0 .. n) /\ Cardinality(0 .. n) = n + 1
    BY <1>1, FS_Interval
  <2>2. IsFiniteSet({q}) /\ Cardinality({q}) = 1
    BY FS_Singleton
  <2>3. IsFiniteSet(K) /\ Cardinality(K) = 1 * (n + 1)
    <3>1. IsFiniteSet({q} \X (0 .. n)) /\ Cardinality({q} \X (0 .. n)) = Cardinality({q}) * Cardinality(0 .. n)
      BY <2>1, <2>2, FS_Product
    <3> QED BY <2>1, <2>2, <3>1 DEF KeysUpTo
  <2> HIDE DEF K
  <2> QED BY <1>1, <2>3, BoundsAssumption, RatchetAssumption DEF RoomForAll
<1>3. /\ WellFormed(session[p]) /\ Bounded(session[p]) /\ WithinLimits(session[p])
      /\ Receiver(session[p], q, n)
  BY DEF DInv, TInv, SInv, IInv, Link, q, n
<1>4. Room(session[p], K)
  BY <1>2, <1>3 DEF Room, Receiver
<1> QED BY <1>3, <1>4 DEF Ample, q, n

\* At the start nothing is under way, and Bob's next ratchet step derives Alice's chain.
LEMMA InitDInv == Init => DInv
<1> SUFFICES ASSUME Init PROVE DInv
  OBVIOUS
<1>1. TInv /\ RInv /\ SInv
  BY InitTInv, InitRInv, InitSInv
<1> DEFINE a == session[Alice]
           b == session[Bob]
<1>2. /\ a = InitiatorSession("SK", <<Alice, 0>>, <<Bob, 0>>)
      /\ b = ResponderSession("SK", <<Bob, 0>>)
      /\ sent[Alice] = {} /\ sent[Bob] = {} /\ accepted[Alice] = {} /\ accepted[Bob] = {}
      /\ ratchets[Alice] = 0 /\ ratchets[Bob] = 0
  BY PartiesDiffer DEF Init, Parties
<1>3. /\ a.DHs = <<Alice, 0>> /\ a.DHr = <<Bob, 0>> /\ a.Nr = 0
      /\ a.RK = Append(<<"SK">>, DH(<<Alice, 0>>, <<Bob, 0>>))
      /\ a.keys = {} /\ a.processed = {} /\ DOMAIN a.chains = {}
  <2>1. a.DHs = <<Alice, 0>> /\ a.DHr = <<Bob, 0>> /\ a.Nr = 0
    BY <1>2 DEF InitiatorSession
  <2>2. a.RK = Append(<<"SK">>, DH(<<Alice, 0>>, <<Bob, 0>>))
    BY <1>2 DEF InitiatorSession, KdfRootKey
  <2>3. a.keys = {} /\ a.processed = {} /\ a.chains = NoChains
    BY <1>2 DEF InitiatorSession
  <2>4. DOMAIN NoChains = {}
    BY DEF NoChains
  <2> QED BY <2>1, <2>2, <2>3, <2>4
<1>4. /\ b.DHs = <<Bob, 0>> /\ b.DHr = NoKey /\ b.Ns = 0 /\ b.RK = <<"SK">> /\ b.CKs = NoKey
      /\ b.keys = {} /\ b.processed = {} /\ DOMAIN b.chains = {}
  BY <1>2 DEF ResponderSession, NoChains
<1>5. WellFormed(a) /\ WellFormed(b)
  BY <1>1 DEF RInv, IInv, Parties
<1> HIDE DEF a, b
<1>6. Leads(a, b)
  <2>1. b.CKs # b.RK
    <3>1. <<"SK">> \in Seq(Mixed)
      BY <1>4, <1>5 DEF WellFormed
    <3>2. NoKey \notin Seq(Mixed)
      BY NoKeyAssumption DEF Mixed, KeyPairs
    <3> QED BY <1>4, <3>1, <3>2
  <2> QED BY <1>3, <1>4, <2>1 DEF Leads, DH
<1>7. ~Leads(b, a)
  BY <1>5, <1>6, OneLeads
<1>8. Link(a, b, {}, {}, Bob, 0)
  <2>1. Known(a) \subseteq KeysUpTo(Bob, 0)
    BY <1>3 DEF Known, KeysUpTo
  <2>2. Receiver(a, Bob, 0)
    BY <1>3, <2>1 DEF Receiver
  <2>3. Sender(b, {}, Bob, 0) /\ SentOlder(b, {})
    BY <1>4 DEF Sender, SentOlder
  <2>4. Pair(a, b, {}, {})
    BY <1>3, <1>4, <1>7 DEF Pair
  <2> QED BY <1>5, <2>2, <2>3, <2>4 DEF Link
<1>9. Link(b, a, {}, {}, Alice, 0)
  <2>1. Known(b) = {}
    BY <1>4 DEF Known
  <2>2. Receiver(b, Alice, 0)
    BY <1>4, <2>1 DEF Receiver
  <2>3. Sender(a, {}, Alice, 0) /\ SentOlder(a, {})
    BY <1>3 DEF Sender, SentOlder
  <2>4. Pair(b, a, {}, {})
    BY <1>7, <2>1 DEF Pair
  <2> QED BY <1>5, <2>2, <2>3, <2>4 DEF Link
<1> QED BY <1>1, <1>2, <1>6, <1>8, <1>9, PartiesDiffer DEF DInv, Parties, Peer, a, b

\* encrypt(): the new message is on the chain the peer has, or will derive.
LEMMA EncryptDInv ==
  ASSUME RoomForAll, DInv, IInv', NEW p \in Parties, Encrypt(p)
  PROVE  \A x \in Parties :
           /\ Leads(session[x], session[Peer(x)])' \/ Leads(session[Peer(x)], session[x])'
           /\ Link(session[x], session[Peer(x)], sent[Peer(x)], accepted[x],
                   Peer(x), ratchets[Peer(x)])'
<1> DEFINE t == session[p]
           q == Peer(p)
           s == session[q]
           c == Cleanup(t, now)
           r == AfterSend(c)
           m == MessageOf(c)
<1>0. q \in Parties /\ q # p /\ Peer(q) = p /\ \A x \in Parties : x = p \/ x = q
  BY PeerOf
<1>1. /\ CanSend(t) /\ sent' = [sent EXCEPT ![p] = @ \cup {m}]
      /\ session' = [session EXCEPT ![p] = r]
      /\ ratchets' = ratchets /\ accepted' = accepted
  BY DEF Encrypt
<1>2. Ample(t, KeysUpTo(q, ratchets[q])) /\ now \in 0 .. MaxTime
  BY IsAmple DEF DInv, TInv
<1>3. SameRatchet(c, t) /\ SameStore(c, t)
  BY <1>2, CleanupKeeps
<1>4. /\ Link(s, t, sent[p], accepted[q], p, ratchets[p])
      /\ Link(t, s, sent[q], accepted[p], q, ratchets[q])
      /\ Leads(s, t) \/ Leads(t, s)
  BY <1>0 DEF DInv
<1>5. t.CKs = t.RK /\ t.RK \in Seq(Mixed) /\ t.DHs \in KeyPairs /\ t.Ns \in Nat /\ t.PN \in Nat
  BY <1>1, <1>4 DEF Link, WellFormed, CanSend
<1> HIDE DEF c
<1>6. /\ m \in Messages
      /\ m.rk = t.DHs /\ m.chain = t.RK /\ m.counter = t.Ns /\ m.previousCounter = t.PN
  BY <1>3, <1>5 DEF MessageOf, Messages, SameRatchet
<1>7. Sends(r, t)
  BY <1>3 DEF AfterSend, Sends, SameStore, SameRatchet, Fields
<1> HIDE DEF r, m
<1>8. session'[p] = r /\ session'[q] = s /\ sent'[p] = sent[p] \cup {m} /\ sent'[q] = sent[q]
  BY <1>0, <1>1 DEF DInv, TInv, IInv
<1>9. WellFormed(r)
  BY <1>8 DEF IInv
<1> HIDE DEF s, t, q
<1>10. Link(s, r, sent[p] \cup {m}, accepted[q], p, ratchets[p])
  BY <1>4, <1>5, <1>6, <1>7, <1>9, SendLink
<1>11. Link(r, s, sent[q], accepted[p], q, ratchets[q]) /\ (Leads(s, r) \/ Leads(r, s))
  BY <1>4, <1>7, <1>9, SendReceives
<1>12. Leads(session'[p], session'[q]) \/ Leads(session'[q], session'[p])
  BY <1>8, <1>11
<1>13. /\ Link(session'[p], session'[q], sent'[q], accepted'[p], q, ratchets'[q])
       /\ Link(session'[q], session'[p], sent'[p], accepted'[q], p, ratchets'[p])
  BY <1>1, <1>8, <1>10, <1>11
<1>14. Peer(p) = q
  BY DEF q
<1> QED BY <1>0, <1>12, <1>13, <1>14

\* decrypt(): whatever is still under way keeps its link to the receiver.
LEMMA DecryptDInv ==
  ASSUME RoomForAll, DInv, IInv', NEW p \in Parties, NEW m \in sent[Peer(p)], Decrypt(p, m)
  PROVE  \A x \in Parties :
           /\ Leads(session[x], session[Peer(x)])' \/ Leads(session[Peer(x)], session[x])'
           /\ Link(session[x], session[Peer(x)], sent[Peer(x)], accepted[x],
                   Peer(x), ratchets[Peer(x)])'
<1> DEFINE s == session[p]
           q == Peer(p)
           t == session[q]
           r == Attempt(p, m).session
           n == ratchets[p]
           k == IF r.DHs = s.DHs THEN n ELSE n + 1
<1>0. q \in Parties /\ q # p /\ Peer(q) = p /\ \A x \in Parties : x = p \/ x = q
  BY PeerOf
<1>1. /\ Receive(s, m, <<p, n + 1>>, now).result = "ok"
      /\ r = Receive(s, m, <<p, n + 1>>, now).session
      /\ session' = [session EXCEPT ![p] = r]
      /\ ratchets' = [ratchets EXCEPT ![p] = IF r.DHs = s.DHs THEN @ ELSE @ + 1]
      /\ accepted' = [accepted EXCEPT ![p] = @ \cup {m}]
      /\ sent' = sent
  BY DEF Decrypt, Attempt, FreshKey
<1>2. Ample(s, KeysUpTo(q, ratchets[q])) /\ now \in 0 .. MaxTime /\ now \in Nat
  BY IsAmple, BoundsAssumption DEF DInv, TInv
<1>3. /\ Link(s, t, sent[q], accepted[p], q, ratchets[q])
      /\ Link(t, s, sent[p], accepted[q], p, n)
      /\ Leads(s, t) \/ Leads(t, s)
  BY <1>0 DEF DInv
<1>4. m \in Messages /\ m.rk \in KeysUpTo(q, ratchets[q]) /\ n \in Nat
  BY <1>3 DEF Link, Sender
<1>5. BoundedMessage(m) /\ <<p, n + 1>> \in KeyPairs
  BY <1>0, <1>4 DEF DInv, TInv, KeyPairs
<1>6. session'[p] = r /\ session'[q] = t /\ ratchets'[p] = k /\ ratchets'[q] = ratchets[q]
  BY <1>0, <1>1 DEF DInv, TInv, IInv
<1>7. accepted'[p] = accepted[p] \cup {m} /\ accepted'[q] = accepted[q]
  BY <1>0, <1>1 DEF DInv, TInv, IInv
<1>8. WellFormed(r)
  BY <1>6 DEF IInv
<1>9. m \in sent[q]
  OBVIOUS
<1> HIDE DEF r, s, t, q, n
<1>10. Opened(r, s, m, <<p, n + 1>>, now)
  BY <1>1, <1>2, <1>4, <1>5, ReceiveDelivers
<1>11. /\ Link(r, t, sent[q], accepted[p] \cup {m}, q, ratchets[q])
       /\ Link(t, r, sent[p], accepted[q], p, k)
       /\ Leads(r, t) \/ Leads(t, r)
  BY <1>2, <1>3, <1>8, <1>9, <1>10, OpenedLinks
<1> HIDE DEF k
<1>12. Leads(session'[p], session'[q]) \/ Leads(session'[q], session'[p])
  BY <1>6, <1>11
<1>13. /\ Link(session'[p], session'[q], sent'[q], accepted'[p], q, ratchets'[q])
       /\ Link(session'[q], session'[p], sent'[p], accepted'[q], p, ratchets'[p])
  BY <1>1, <1>6, <1>7, <1>11
<1>14. Peer(p) = q
  BY DEF q
<1> QED BY <1>0, <1>12, <1>13, <1>14

\* Any step, given room for all.
LEMMA NextDInv == RoomForAll /\ DInv /\ [Next]_vars => DInv'
<1> SUFFICES ASSUME RoomForAll, DInv, [Next]_vars PROVE DInv'
  OBVIOUS
<1>1. TInv' /\ RInv' /\ SInv' /\ IInv'
  BY NextTInv, NextRInv, NextSInv DEF DInv, RInv
<1>2. ASSUME NEW p \in Parties, Encrypt(p) PROVE DInv'
  BY <1>1, <1>2, EncryptDInv DEF DInv
<1>3. ASSUME NEW p \in Parties, NEW m \in sent[Peer(p)], Decrypt(p, m) PROVE DInv'
  BY <1>1, <1>3, DecryptDInv DEF DInv
<1>4. CASE UNCHANGED <<session, ratchets, sent, accepted>>
  BY <1>1, <1>4 DEF DInv
<1> QED BY <1>2, <1>3, <1>4 DEF Next, DecryptFails, Tick, vars

\* The gap that m opens in state s is one that decrypt() bridges.
Bridged(s, m) ==
  IF s.DHr = m.rk
    THEN m.counter <= MaxSkip + s.Nr
    ELSE /\ m.counter <= MaxSkip
         /\ s.DHr # NoKey => m.previousCounter <= s.Nr + MaxSkip

\* A message in one of the three places is no duplicate, and opens unless the gap
\* before it is too large.  A message of a processed chain has a stored key.
LEMMA PendingOpens ==
  ASSUME RoomForAll, NEW s, NEW t, NEW out, NEW acc, NEW q, NEW n, NEW m \in out,
         NEW time \in 0 .. MaxTime, NEW fresh \in KeyPairs,
         Ample(s, KeysUpTo(q, n)), Link(s, t, out, acc, q, n), BoundedMessage(m),
         Pending(s, t, m)
  PROVE  /\ Receive(s, m, fresh, time).result # "duplicate"
         /\ Bridged(s, m) \/ ProcessedChain(s, m.rk) =>
              Receive(s, m, fresh, time).result = "ok"
<1> DEFINE c == Cleanup(s, time)
<1>0. /\ m \in Messages /\ m.counter \in Nat /\ m.rk # NoKey /\ s.Nr \in Nat
      /\ m.counter < MaxCounter /\ m.previousCounter \in Nat /\ time \in Nat
      /\ m.rk \in KeysUpTo(q, n) /\ MaxSkip \in Nat /\ MaxCounter \in Nat
  BY NoKeyAssumption, BoundsAssumption, RatchetAssumption
     DEF Link, Messages, KeyPairs, WellFormed, BoundedMessage, Sender
<1>1. SameRatchet(c, s) /\ SameStore(c, s)
  BY CleanupKeeps
<1>2. Ample(c, KeysUpTo(q, n))
  BY <1>1, CleanupLimits, SameStoreAmple DEF Ample
<1>3. /\ c.DHs = s.DHs /\ c.DHr = s.DHr /\ c.RK = s.RK /\ c.CKr = s.CKr /\ c.Nr = s.Nr
      /\ c.keys = s.keys /\ c.processed = s.processed
  BY <1>1 DEF SameRatchet, SameStore
<1>4. /\ \A k \in s.keys : k.rk = s.DHr => k.chain = s.CKr
      /\ \A x \in s.processed : x.rk # s.DHr
      /\ \A k \in s.keys : k.rk \in Known(s)
      /\ \A x \in s.processed : x.rk \in Known(s)
      /\ s.DHr # NoKey => s.DHr \in Known(s)
  BY DEF Link, Receiver, Known
<1> HIDE DEF c
<1>5. CASE InStore(s, m)
  <2>1. \E k \in SkippedKeys(c, m.rk, m.counter) : k.chain = m.chain
    BY <1>3, <1>5 DEF InStore, SkippedKeys, Stored
  <2>2. Receive(s, m, fresh, time) = ReceiveSkipped(c, m)
    BY <2>1 DEF Receive, c
  <2> QED BY <2>1, <2>2 DEF ReceiveSkipped, Accepted
<1>6. CASE ~InStore(s, m) /\ Ahead(s, m)
  <2>1. s.DHr = m.rk /\ s.CKr = m.chain /\ s.Nr <= m.counter
    BY <1>6 DEF Ahead
  <2>2. SkippedKeys(c, m.rk, m.counter) = {}
    BY <1>3, <1>4, <1>6, <2>1 DEF InStore, SkippedKeys, Stored
  <2>3. Receive(s, m, fresh, time) = ReceiveInChain(c, m, time)
    BY <1>0, <1>3, <2>1, <2>2 DEF Receive, c
  <2>4. ReceiveInChain(c, m, time).result # "duplicate"
    BY <1>0, <1>3, <2>1 DEF ReceiveInChain, Refused, Accepted
  <2>5. ~ProcessedChain(s, m.rk)
    BY <1>4, <2>1 DEF ProcessedChain
  <2>6. Bridged(s, m) => ReceiveInChain(c, m, time).result = "ok"
    BY <1>0, <1>3, <2>1 DEF ReceiveInChain, Accepted, Bridged
  <2> QED BY <2>3, <2>4, <2>5, <2>6
<1>7. CASE ~InStore(s, m) /\ Leads(t, s) /\ m.rk = t.DHs
  <2>1. t.DHs \notin Known(s) /\ m.chain = t.RK
    BY <1>7 DEF Link, Pair, Sender
  <2>2. /\ SkippedKeys(c, m.rk, m.counter) = {} /\ s.DHr # m.rk
        /\ ~ProcessedChain(s, m.rk) /\ ~ProcessedChain(c, m.rk)
    BY <1>0, <1>3, <1>4, <1>7, <2>1 DEF SkippedKeys, Stored, ProcessedChain
  <2>3. Receive(s, m, fresh, time) = ReceiveWithRatchet(c, m, fresh, time)
    BY <1>3, <2>2 DEF Receive, c
  <2> DEFINE d == DHRatchet(CloseChain(c, m, time), m.rk, fresh)
             gap == /\ c.DHr # NoKey /\ c.CKr # NoKey
                    /\ m.previousCounter > 0
                    /\ c.Nr + MaxSkip < m.previousCounter
  <2>4. ReceiveWithRatchet(c, m, fresh, time) =
          IF gap THEN Refused(c, "failed") ELSE ReceiveInChain(d, m, time)
    BY DEF ReceiveWithRatchet
  <2>5. Ratchets(d, c, m, fresh, time)
    BY <1>0, <1>2, RatchetDelivers
  <2> HIDE DEF d
  <2>6. d.Nr = 0 /\ d.CKr = Append(s.RK, DH(s.DHs, m.rk))
    BY <1>3, <2>5 DEF Ratchets
  <2>7. d.CKr = m.chain
    BY <1>7, <2>1, <2>6 DEF Leads
  <2>8. /\ ReceiveInChain(d, m, time).result # "duplicate"
        /\ m.counter <= MaxSkip => ReceiveInChain(d, m, time).result = "ok"
    BY <1>0, <2>6, <2>7 DEF ReceiveInChain, Refused, Accepted
  <2>9. Bridged(s, m) => ~gap /\ m.counter <= MaxSkip
    BY <1>0, <1>3, <2>2 DEF Bridged
  <2>10. Refused(c, "failed").result # "duplicate"
    BY DEF Refused
  <2> HIDE DEF gap
  <2> QED BY <2>2, <2>3, <2>4, <2>8, <2>9, <2>10
<1> QED BY <1>5, <1>6, <1>7 DEF Pending

\* What DInv says of an attempt with a message that was not received.
LEMMA AttemptOpens ==
  ASSUME RoomForAll, DInv, NEW p \in Parties, NEW m \in sent[Peer(p)] \ accepted[p]
  PROVE  /\ Attempt(p, m).result # "duplicate"
         /\ WithinSkip(p, m) \/ ProcessedChain(session[p], m.rk) => Attempt(p, m).result = "ok"
<1> DEFINE s == session[p]
           q == Peer(p)
           t == session[q]
           n == ratchets[q]
<1>1. q \in Parties
  BY PeerOf
<1>2. Ample(s, KeysUpTo(q, n)) /\ Link(s, t, sent[q], accepted[p], q, n)
  BY IsAmple DEF DInv
<1>3. now \in 0 .. MaxTime /\ BoundedMessage(m) /\ FreshKey(p) \in KeyPairs
  BY <1>1 DEF DInv, TInv, IInv, FreshKey, KeyPairs
<1>4. Pending(s, t, m)
  BY <1>2 DEF Link, Pair
<1>5. WithinSkip(p, m) => Bridged(s, m)
  <2>1. m.counter \in Nat /\ MaxSkip \in Nat
    BY <1>2, RatchetAssumption DEF Link, Messages
  <2> QED BY <2>1 DEF WithinSkip, Bridged
<1>6. m \in sent[q]
  OBVIOUS
<1> HIDE DEF s, t, q, n
<1>7. /\ Receive(s, m, FreshKey(p), now).result # "duplicate"
      /\ Bridged(s, m) \/ ProcessedChain(s, m.rk) => Receive(s, m, FreshKey(p), now).result = "ok"
  BY <1>2, <1>3, <1>4, <1>6, PendingOpens
<1> QED BY <1>5, <1>7 DEF Attempt, s

\* Where the storage limits are not reached, both directions of the session keep
\* track of every message.
THEOREM DeliveryInvariance == ASSUME RoomForAll PROVE Spec => []DInv
  BY InitDInv, NextDInv, PTL DEF Spec

\* Every message that was sent and not received can still be opened, in whatever
\* order the messages arrive, across any number of DH ratchets, unless the gap
\* before it is beyond MaxSkip.
THEOREM MessagesOpen == ASSUME RoomForAll PROVE Spec => []EveryMessageOpens
<1>1. DInv => EveryMessageOpens
  BY AttemptOpens DEF EveryMessageOpens
<1> QED BY <1>1, DeliveryInvariance, PTL

\* decrypt() calls nothing a duplicate that it has not returned before: no message
\* is taken for a replay and thrown away.
THEOREM DuplicatesWereAccepted == ASSUME RoomForAll PROVE Spec => []DuplicateWasAccepted
<1>1. DInv => DuplicateWasAccepted
  BY AttemptOpens DEF DuplicateWasAccepted
<1> QED BY <1>1, DeliveryInvariance, PTL

=============================================================================
