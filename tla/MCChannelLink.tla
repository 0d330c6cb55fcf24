--------------------------- MODULE MCChannelLink ----------------------------
(* Small instances of ChannelLink: an Instagram account, two Pages (the first   *)
(* is linked to it) and a WhatsApp number; two chats with the Instagram account *)
(* and one with a Page.                                                        *)
EXTENDS ChannelLink, TLC

CONSTANTS ig, p1, p2, wa, x, y, z

MCChannel == {ig, p1, p2, wa}
MCPlatform == ig :> "instagram" @@ p1 :> "facebook" @@ p2 :> "facebook" @@ wa :> "whatsapp"
MCInstagramOf == [ch \in MCChannel |-> IF ch = p1 THEN ig ELSE None]
MCMessage == 1..4
MCTo == <<ig, ig, ig, p1>>
MCChat == <<x, x, y, z>>

MCSymmetry == Permutations(Existing) \cup Permutations(Request)
=============================================================================
