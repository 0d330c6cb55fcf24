----------------------------- MODULE ReplyQueue -----------------------------
(***************************************************************************)
(* What storing a customer's message promises the one who answers: an      *)
(* abstract specification of the webhook and the history sync              *)
(* (app/api/v1/webhooks.py), without requests, transactions or locks.      *)
(* Ingest implements it.                                                   *)
(*                                                                         *)
(* Messages become stored, each once, a set at a time.  A set that came by *)
(* webhook brings with it a reply for every chat with a new customer       *)
(* message; one from Meta's history brings none.  A reply that is owed is  *)
(* started once or lost.                                                   *)
(***************************************************************************)

CONSTANTS
  Message,  \* Meta's messages
  From,     \* [Message -> customers]: the chat of a message
  Echo      \* the messages of the business itself

VARIABLES
  stored,   \* messages with a row
  owed,     \* the messages a reply is owed to
  answered  \* the messages a reply was started for

Init == stored = {} /\ owed = {} /\ answered = {}

\* One reply for each chat of S, to one of its new customer messages.
OnePerChat(S, R) ==
  /\ R \subseteq S \ Echo
  /\ \A m \in S \ Echo : \E n \in R : From[n] = From[m]
  /\ \A m, n \in R : From[m] = From[n] => m = n

\* New messages are stored, and their replies owed, in one step.
Take(S) ==
  /\ stored' = stored \cup S
  /\ \E R \in SUBSET S : OnePerChat(S, R) /\ owed' = owed \cup R
  /\ UNCHANGED answered

\* Messages of the history are stored without a reply.
Recall(S) ==
  /\ stored' = stored \cup S
  /\ UNCHANGED <<owed, answered>>

\* A reply is started: it is owed no more.
Answer(m) ==
  /\ m \in owed
  /\ owed' = owed \ {m}
  /\ answered' = answered \cup {m}
  /\ UNCHANGED stored

\* Replies are lost: the process died, or a task before them raised.
Lose(M) ==
  /\ owed' = owed \ M
  /\ UNCHANGED <<stored, answered>>

Next ==
  \/ \E S \in SUBSET (Message \ stored) : Take(S) \/ Recall(S)
  \/ \E m \in Message : Answer(m)
  \/ \E M \in SUBSET owed : Lose(M)

Spec == Init /\ [][Next]_<<stored, owed, answered>>
=============================================================================
