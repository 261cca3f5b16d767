---------------------------- MODULE SessionCipher ----------------------------
(***************************************************************************)
(* The session records that two devices keep of each other: SessionCipher, *)
(* SessionResolver, the SessionRecord namespace of types/session.ts, and   *)
(* the manager's startSession() and performX3DHResponder().  A record has  *)
(* one current session and archived ones.  Either device may start a       *)
(* session at any time, also while the other does; decrypt() tries the     *)
(* sessions of the record until one opens the message.                     *)
(*                                                                         *)
(* Every operation runs under the record lock of the peer's address and    *)
(* ends in one commitSessionTrust(), so each is one step.  The transport   *)
(* loses, repeats and reorders.  Expiry is left to SessionRatchet: the     *)
(* clock stands still here.                                                *)
(***************************************************************************)
EXTENDS DoubleRatchet, SequencesExt

CONSTANTS
  Alice, Bob,
  NoSession,    \* currentSession: null
  MaxArchived,  \* MAX_ARCHIVED_SESSIONS
  MaxSessions,  \* bound: the sessions that both devices start
  MaxRatchets,  \* bound: the DH ratchet steps of both devices together
  MaxArchives   \* bound: the calls of archiveSession()

ASSUME CipherAssumption == Alice # Bob /\ MaxArchived \in Nat
ASSUME BoundsAssumption == MaxRatchets \in Nat

Parties == {Alice, Bob}

\* The ephemeral keys that sessions start from, and the key pairs of a session.
Bases == Parties \X {"ephemeral"} \X Nat
KeyPairs == Parties \X {"signed", "ephemeral", "ratchet"} \X Nat

\* The PQXDH secret belongs to the initiator's ephemeral key, the base key.
Secret(base) == <<"SK", base>>

\* The value of an unset field is neither a key pair nor a chain key.
ASSUME NoKeyAssumption ==
  /\ NoKey \notin KeyPairs
  /\ NoKey \notin Seq(({"SK"} \X Bases) \cup {"CK"} \cup SUBSET KeyPairs)

Peer(p) == IF p = Alice THEN Bob ELSE Alice

VARIABLES
  record,    \* the stored SessionRecord of each device about the other
  consumed,  \* the base keys for which a device has used up its prekeys
  started,   \* the sessions that each device has started
  ratchets,  \* the ratchet key pairs that each device has generated
  archives,  \* the calls of archiveSession() so far
  sent,      \* by device, the messages that it has sent
  accepted,  \* by device, the messages that decrypt() has returned
  reopened   \* history: by device, the sessions that a skipped key made current

vars == <<record, consumed, started, ratchets, archives, sent, accepted, reopened>>

SignedPreKey(p) == <<p, "signed", 0>>
FreshKey(p) == <<p, "ratchet", ratchets[p] + 1>>
RatchetSteps == ratchets[Alice] + ratchets[Bob]

-----------------------------------------------------------------------------
(* A session in a record: its base key, whether its prekey message is      *)
(* still unacknowledged, and the ratchet.  Archived sessions are in the    *)
(* order in which they were inserted.                                      *)

EmptyRecord == [current |-> NoSession, archived |-> <<>>]

\* delete archivedSessions[base]: the keys of the object are the base keys.
Without(archived, base) ==
  LET at == {i \in DOMAIN archived : archived[i].base = base} IN
  IF at = {} THEN archived ELSE RemoveAt(archived, CHOOSE i \in at : TRUE)

\* insertArchived(): a session that is there already moves to the end.
InsertArchived(archived, session) == Append(Without(archived, session.base), session)

\* withoutPendingPreKey()
WithoutPendingPreKey(session) == [session EXCEPT !.unacked = FALSE]

WithCurrentArchived(rec) ==
  IF rec.current = NoSession
    THEN rec.archived
    ELSE InsertArchived(rec.archived, WithoutPendingPreKey(rec.current))

\* Mutant of ArchiveCurrent: the archive grows without limit.
ArchiveCurrentUnlimited(rec, new) == [current |-> new, archived |-> WithCurrentArchived(rec)]

\* archiveCurrent(): the oldest archived sessions beyond the limit go.
ArchiveCurrent(rec, new) ==
  LET all    == WithCurrentArchived(rec)
      excess == IF Len(all) > MaxArchived THEN Len(all) - MaxArchived ELSE 0
  IN  [current |-> new, archived |-> SubSeq(all, excess + 1, Len(all))]

\* promoteSession(): the archived session becomes the current one.
PromoteSession(rec, session) ==
  [current |-> session, archived |-> Without(WithCurrentArchived(rec), session.base)]

\* findDecryptingSessions(): the current session first.
Candidates(rec) ==
  (IF rec.current = NoSession THEN <<>> ELSE <<rec.current>>) \o rec.archived

\* findSession(), for the session that a prekey message belongs to.
MatchingSessions(rec, base) == {i \in DOMAIN Candidates(rec) : Candidates(rec)[i].base = base}

\* The base key of the current session, when the archive holds an earlier copy of
\* that session.
CopiesLeft(rec) == {a.base : a \in {x \in Range(rec.archived) : x.base = rec.current.base}}

-----------------------------------------------------------------------------
(* decrypt().                                                              *)

\* What an attempt a of DoubleRatchet makes of a session; markSessionAcknowledged()
\* is part of success.
Attempted(session, m, a) ==
  [result  |-> a.result,
   skipped |-> SkippedKeys(session.ratchet, m.body.rk, m.body.counter) # {},
   session |-> [base |-> session.base, unacked |-> FALSE, ratchet |-> a.session]]

TrySession(p, session, m) ==
  Attempted(session, m, Receive(session.ratchet, m.body, FreshKey(p), 0))

Outcome(why, rec) == [result |-> why, record |-> rec]

\* The record that a successful attempt commits.  Only the path that derives the
\* key promotes an archived session; the path of a skipped key writes the session
\* over the current one.
Commit(rec, a, fromArchive) ==
  IF fromArchive /\ ~a.skipped
    THEN PromoteSession(rec, a.session)
    ELSE [rec EXCEPT !.current = a.session]

Committed(rec, a, fromArchive) ==
  IF a.result = "ok" THEN Outcome("ok", Commit(rec, a, fromArchive)) ELSE Outcome(a.result, rec)

\* The attempt with candidate number i, and what decrypt() makes of it.
TryCandidate(p, rec, i, m) ==
  Committed(rec, TrySession(p, Candidates(rec)[i], m), rec.current = NoSession \/ i > 1)

\* A session that fails passes the message to the next; any other result ends.
FirstDecided(rec, tries) ==
  LET ends == {i \in DOMAIN tries : tries[i].result # "failed"} IN
  IF ends = {} THEN Outcome("failed", rec) ELSE tries[Min(ends)]

\* Mutant of DecryptRatchet: only the current session is tried.
DecryptRatchetCurrentOnly(p, rec, m) ==
  IF rec.current = NoSession THEN Outcome("failed", rec) ELSE TryCandidate(p, rec, 1, m)

\* The retry loop for a ratchet message.
DecryptRatchet(p, rec, m) ==
  FirstDecided(rec, [i \in DOMAIN Candidates(rec) |-> TryCandidate(p, rec, i, m)])

\* The session that a prekey message establishes.
NewSession(p, m) ==
  [base |-> m.base, unacked |-> FALSE,
   ratchet |-> ResponderSession(Secret(m.base), SignedPreKey(p))]

\* performX3DHResponder(): without its prekeys, which the first use removed, no
\* second session comes from a base key.  (A last-resort Kyber prekey stays, and
\* commitSessionTrust() refuses its second use with the same base key.)  The current
\* session of the record is archived before; the message must open the new one.
Establish(p, rec, m) ==
  IF m.base \in consumed[p]
    THEN Outcome("notFound", rec)
    ELSE Committed(ArchiveCurrent(rec, NoSession), TrySession(p, NewSession(p, m), m), FALSE)

\* The first attempt stands when its session has the base key of the message, or
\* when it ended in anything but a failure.
OrElse(first, matched, second) ==
  IF matched \/ first.result # "failed" THEN first ELSE second

\* A prekey message belongs to the session with its base key, when there is one.
\* Otherwise the current session is tried, and when that fails it is archived and
\* a new session is established.
DecryptPreKey(p, rec, m) ==
  LET matching == MatchingSessions(rec, m.base) IN
  OrElse(IF matching = {} /\ rec.current = NoSession
           THEN Outcome("failed", rec)
           ELSE TryCandidate(p, rec, IF matching = {} THEN 1 ELSE Min(matching), m),
         matching # {},
         Establish(p, rec, m))

DecryptOutcome(p, m) ==
  IF m.prekey THEN DecryptPreKey(p, record[p], m) ELSE DecryptRatchet(p, record[p], m)

-----------------------------------------------------------------------------

Init ==
  /\ record = [p \in Parties |-> EmptyRecord]
  /\ consumed = [p \in Parties |-> {}]
  /\ started = [p \in Parties |-> 0]
  /\ ratchets = [p \in Parties |-> 0]
  /\ archives = 0
  /\ sent = [p \in Parties |-> {}]
  /\ accepted = [p \in Parties |-> {}]
  /\ reopened = [p \in Parties |-> {}]

\* startSession() with a bundle of the peer: the new session becomes current.
StartSession(p) ==
  LET base == <<p, "ephemeral", started[p]>> IN
  /\ started[Alice] + started[Bob] < MaxSessions
  /\ started' = [started EXCEPT ![p] = @ + 1]
  /\ record' = [record EXCEPT ![p] = ArchiveCurrent(@,
       [base |-> base, unacked |-> TRUE,
        ratchet |-> InitiatorSession(Secret(base), base, SignedPreKey(Peer(p)))])]
  /\ UNCHANGED <<consumed, ratchets, archives, sent, accepted, reopened>>

\* encrypt() with the current session; a prekey message until the first answer.
Encrypt(p) ==
  LET s == record[p].current IN
  /\ s # NoSession
  /\ CanSend(s.ratchet)
  /\ ~SendOverflows(s.ratchet)
  /\ sent' = [sent EXCEPT ![p] = @ \cup
       {[prekey |-> s.unacked, base |-> s.base, body |-> MessageOf(s.ratchet)]}]
  /\ record' = [record EXCEPT ![p].current.ratchet = AfterSend(Cleanup(@, 0))]
  /\ UNCHANGED <<consumed, started, ratchets, archives, accepted, reopened>>

\* decrypt() returns the message, and commits record, prekeys and ratchet.
Decrypt(p, m) ==
  \E o \in {DecryptOutcome(p, m)} :
    LET fresh == o.record.current.ratchet.DHs = FreshKey(p)
        new   == MatchingSessions(record[p], m.base) = {}
    IN
    /\ o.result = "ok"
    /\ fresh => RatchetSteps < MaxRatchets
    /\ record' = [record EXCEPT ![p] = o.record]
    /\ ratchets' = [ratchets EXCEPT ![p] = IF fresh THEN @ + 1 ELSE @]
    /\ consumed' = [consumed EXCEPT ![p] = IF m.prekey /\ new THEN @ \cup {m.base} ELSE @]
    /\ accepted' = [accepted EXCEPT ![p] = @ \cup {m}]
    /\ reopened' = [reopened EXCEPT ![p] = @ \cup CopiesLeft(o.record)]
    /\ UNCHANGED <<started, archives, sent>>

\* decrypt() throws, and commits nothing.
DecryptFails(p, m) ==
  /\ DecryptOutcome(p, m).result # "ok"
  /\ UNCHANGED vars

\* archiveSession(): the current session is archived, and none replaces it.
ArchiveSession(p) ==
  /\ archives < MaxArchives
  /\ record[p].current # NoSession
  /\ archives' = archives + 1
  /\ record' = [record EXCEPT ![p] = ArchiveCurrent(@, NoSession)]
  /\ UNCHANGED <<consumed, started, ratchets, sent, accepted, reopened>>

Next ==
  \E p \in Parties :
    \/ StartSession(p)
    \/ Encrypt(p)
    \/ \E m \in sent[Peer(p)] : Decrypt(p, m) \/ DecryptFails(p, m)
    \/ ArchiveSession(p)

Spec == Init /\ [][Next]_vars

-----------------------------------------------------------------------------
(* Properties.                                                             *)

\* The archive respects its limit, through archiving and through promotion, and
\* holds each base key once.
TypeOK ==
  \A p \in Parties :
    LET arch == record[p].archived IN
    /\ Len(arch) <= MaxArchived
    /\ \A i, j \in DOMAIN arch : arch[i].base = arch[j].base => i = j
    /\ \A i \in DOMAIN arch : ~arch[i].unacked

\* A message that decrypt() returned is never returned again, whichever sessions
\* of the record were archived, promoted, replaced or forgotten in between.
\* Violated: see OpensOnce.
ReplayRefused ==
  \A p \in Parties : \A m \in accepted[p] : DecryptOutcome(p, m).result # "ok"

\* The same, except for a session that a skipped key took out of the archive.
\* There decrypt() leaves a copy of the session behind, which still holds the key;
\* when a skipped key of another session makes that one current, the copy is all
\* that is left.
OpensOnce ==
  \A p \in Parties : \A m \in accepted[p] :
    m.base \notin reopened[p] => DecryptOutcome(p, m).result # "ok"

\* The key of the next message of the current session was used for no message,
\* with the same exception: the copy in the archive has the counters of its time.
SendKeyFresh ==
  \A p \in Parties : \A m \in sent[p] :
    record[p].current # NoSession /\ record[p].current.base \notin reopened[p] =>
      ~(/\ m.body.chain = record[p].current.ratchet.CKs
        /\ m.body.counter = record[p].current.ratchet.Ns)

\* The record holds no session for the message, and the message cannot start it:
\* the archive limit dropped the session, or a session that a skipped key opened was
\* written over it.
Forgotten(p, m) ==
  /\ MatchingSessions(record[p], m.base) = {}
  /\ m.base \in consumed[p] \/ ~m.prekey

\* No message is too far ahead of another to be opened, and no stored key is evicted:
\* within the bounds of a behaviour, the limits are not reached.
RoomForAll ==
  /\ MaxCounter <= MaxSkip + 1
  /\ MaxCounter <= MaxMessageKeys
  /\ MaxRatchets < MaxReceiverChains

\* While no message is further ahead of another in its chain than MaxSkip, every
\* message that was sent and not yet received opens, whoever started, archived or
\* promoted which session when: with the session that the peer's record still
\* holds, or with the one that the message itself establishes.  The exception is
\* that of OpensOnce, on either side: a device that goes on with the copy in the
\* archive has lost the ratchet steps made since, and the two no longer share keys.
EveryMessageOpens ==
  \A p \in Parties : \A m \in sent[Peer(p)] \ accepted[p] :
    m.base \notin reopened[p] \cup reopened[Peer(p)] =>
      Forgotten(p, m) \/ DecryptOutcome(p, m).result = "ok"

=============================================================================
