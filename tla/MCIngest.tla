------------------------------ MODULE MCIngest ------------------------------
(* Small instances of Ingest: customers a and b, messages named after theirs. *)
EXTENDS Ingest, TLC

CONSTANTS a, b, a1, a2, a3, b1, b2, b3, n1, n2, p1, p2

MCSender == {a, b}
MCMessage == {a1, a2, a3, b1, b2, b3}
MCFrom == [m \in MCMessage |-> IF m \in {a1, a2, a3} THEN a ELSE b]
MCTo == [m \in MCMessage |-> n1]
MCPhoneIn == [m \in MCMessage |-> None]
MCSentAt == a1 :> 1 @@ b1 :> 2 @@ a2 :> 3 @@ b2 :> 4 @@ a3 :> 5 @@ b3 :> 6

OneAccount == {n1}

\* Two batches over both chats, in opposite order; one has two messages of a chat.
CrossBatches == {<<a1, b1, a2>>, <<b3, b2, a3>>}

\* The second customer comes again from an ad, and the business writes to them.
OneOpening == {b3}
OneEcho == {b2}

\* Two numbers of a workspace: b writes to the first alone, a to both.
TwoAccounts == {n1, n2}
WaTo == [m \in MCMessage |-> IF m \in {a2, a3} THEN n2 ELSE n1]

\* A body of the first number, and two of both numbers, which take the numbers'
\* stamps in opposite order.
WaBatches == {<<b1>>, <<a1, a2>>, <<a3, b2>>}

\* One chat, numbers in two of its messages.
OneSender == {a}
LeadMessage == {a1, a2, a3}
LeadFrom == [m \in LeadMessage |-> a]
LeadTo == [m \in LeadMessage |-> n1]
LeadPhoneIn == a1 :> p1 @@ a2 :> p2 @@ a3 :> None
LeadSentAt == a1 :> 1 @@ a2 :> 2 @@ a3 :> 3
LeadBatches == {<<a1>>, <<a2>>, <<a3>>}

LeadPages == {<<a1, a2>>}
LeadPhones == {p1, p2}

\* Two first messages of one chat, delivered at the same time.
TwoFirsts == {<<a1>>, <<a2>>}

NoPages == {}
NoEcho == {}
NoOpening == {}
NoPhones == {}

\* One request with a photo and a later text of the same chat.
MCPhotos == {a1}
PhotoThenText == {<<a1, a2>>}

\* A customer's photo gets to the pipeline, the only place that flags it for a
\* person, unless its job is lost.
PhotoReachesPipeline ==
  \A m \in MCPhotos \cap stored :
    \/ replied[m] > 0
    \/ \E w \in Worker : m \in jobs[w].reply
    \/ \E x \in {"crash", "exception"} : m \in lost[x]

MCSymmetry == Permutations(Worker)
=============================================================================
