------------------------------- MODULE MCShop --------------------------------
(* Small instances of Shop. *)
EXTENDS Shop, TLC

MCSymmetry ==
  Permutations(Photo) \cup Permutations(Campaign) \cup Permutations(Post)
    \cup Permutations(Chat) \cup Permutations(Request)
=============================================================================
