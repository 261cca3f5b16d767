--------------------------- MODULE MCReceiveQueue ---------------------------
(* Instances of ReceiveQueue for TLC.                                      *)
EXTENDS ReceiveQueue, TLC

CONSTANTS ann, ben, grp

\* Two senders in one group: pairwise content, whose group only its restore tells,
\* that may fail, before a sender-key message.
GroupSender == (1 :> ann) @@ (2 :> ben)
GroupConversation == (1 :> grp) @@ (2 :> grp)
GroupContent == (1 :> "flaky") @@ (2 :> "message")

\* Content that always fails, before content that succeeds.
PoisonContent == (1 :> "poison") @@ (2 :> "message")

AllRelay == (1 :> "relay") @@ (2 :> "relay")

\* Content of the caller in a group, before content of the Relay in it.
CallerFirst == (1 :> "caller") @@ (2 :> "relay")
CallerContent == (1 :> "message") @@ (2 :> "denied")
=============================================================================
