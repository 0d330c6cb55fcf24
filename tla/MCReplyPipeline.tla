-------------------------- MODULE MCReplyPipeline ---------------------------
(* Small instances of ReplyPipeline: the customer's messages of one chat. *)
EXTENDS ReplyPipeline, TLC

CONSTANTS t1, t2, t3, t4

MCTask == {t1, t2}
MCFour == {t1, t2, t3, t4}
TwoQuestions == [t \in MCTask |-> "question"]
PhotoAndQuestion == t1 :> "photo" @@ t2 :> "question"
PhotosAndPrices == t1 :> "photo" @@ t2 :> "photo" @@ t3 :> "price" @@ t4 :> "price"
=============================================================================
