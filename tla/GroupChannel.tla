---------------------------- MODULE GroupChannel ----------------------------
(***************************************************************************)
(* What the sender keys of one sender device promise to its group, with no *)
(* chain, record or skipped key: a message is published once, and each     *)
(* installation of a key at an index gives the receiver the right to open  *)
(* each message of the key from that index on, once.  A receiver loses a   *)
(* right when the key leaves it, or when it opens another message.         *)
(***************************************************************************)
EXTENDS Naturals

CONSTANTS
  Receivers,   \* the devices that receive from the sender device
  Keys,        \* the sender keys that the sender device can create
  Indexes      \* the chain indexes of a key

VARIABLES
  published,   \* the group messages, a set of <<key, index>>
  offered,     \* by receiver, the distributions sent to it, <<key, index>>
  held,        \* by receiver, the keys that it holds
  rights       \* by receiver, how often it can still open each message

Messages == Keys \X Indexes

Init ==
  /\ published = {}
  /\ offered = [r \in Receivers |-> {}]
  /\ held = [r \in Receivers |-> {}]
  /\ rights = [r \in Receivers |-> [m \in Messages |-> 0]]

Publish(m) ==
  /\ m \notin published
  /\ published' = published \union {m}
  /\ UNCHANGED <<offered, held, rights>>

Offer(r, d) ==
  /\ offered' = [offered EXCEPT ![r] = @ \union {d}]
  /\ UNCHANGED <<published, held, rights>>

OnlyOf(r) == \A q \in Receivers \ {r} : held'[q] = held[q] /\ rights'[q] = rights[q]

(* The key takes the place of at most one other, which loses its rights.   *)
Install(r, d) ==
  /\ d \in offered[r]
  /\ d[1] \notin held[r]
  /\ d[1] \in held'[r]
  /\ held'[r] \ {d[1]} \subseteq held[r]
  /\ \A k, l \in held[r] \ held'[r] : k = l
  /\ \A m \in Messages :
       IF m[1] = d[1]
         THEN rights'[r][m] = rights[r][m] + (IF m[2] >= d[2] THEN 1 ELSE 0)
         ELSE /\ rights'[r][m] <= rights[r][m]
              /\ m[1] \in held'[r] => rights'[r][m] = rights[r][m]
  /\ OnlyOf(r)
  /\ UNCHANGED <<published, offered>>

Open(r, m) ==
  /\ m \in published
  /\ m[1] \in held[r]
  /\ rights'[r][m] < rights[r][m]
  /\ \A n \in Messages : rights'[r][n] <= rights[r][n]
  /\ held' = held
  /\ OnlyOf(r)
  /\ UNCHANGED <<published, offered>>

Next ==
  \/ \E m \in Messages : Publish(m)
  \/ \E r \in Receivers, d \in Messages : Offer(r, d) \/ Install(r, d)
  \/ \E r \in Receivers, m \in Messages : Open(r, m)

Spec == Init /\ [][Next]_<<published, offered, held, rights>>
=============================================================================
