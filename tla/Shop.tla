--------------------------------- MODULE Shop ---------------------------------
(***************************************************************************)
(* The photo panel and the campaigns of one shop: uploading photos to      *)
(* object storage, posting them to Instagram, reading the feed back into   *)
(* the panel, assigning photos and ads to campaigns, and the chats that    *)
(* open from an ad (app/api/v1/shop_media.py, campaigns.py,                *)
(* app/services/campaigns.py, storage.py).                                 *)
(*                                                                         *)
(* A request loads its rows, may call storage or Instagram, and commits;   *)
(* between these steps others commit.  Foreign keys and the two unique     *)
(* indexes decide when it writes.  Titles, captions, prices, stock flags   *)
(* and the order of photos are left out.                                   *)
(***************************************************************************)
EXTENDS Naturals, FiniteSets

CONSTANTS
  Photo,     \* uploads: keys in the storage, and ids of their rows
  Post,      \* ids of Instagram posts, and of the rows the feed adds
  Campaign,  \* ids the database may give
  Ad,        \* ad ids and ref codes
  Chat,      \* conversations
  Request,   \* requests and webhook batches at a time
  MaxEdits,  \* bound: requests that assign, map or delete
  Gone,      \* a row that was deleted: its id and key are not given again
  None       \* no row, no post, no campaign, no ad, no request

VARIABLES
  media,     \* shop_media, by id
  files,     \* photos in the storage
  feed,      \* posts on Instagram
  campaigns, \* the campaigns table: the post of a campaign
  links,     \* campaign_links: the campaign of an ad that is registered
  held,      \* whose uncommitted insert has the ad's index entry
  chats,     \* the ad a chat points at
  told,      \* ad_needs_campaign notifications, per ad
  byHand,    \* ads that staff registered
  req,       \* requests under way
  edits      \* budget used up

photos == <<media, files, feed>>
ads == <<links, held, chats, told, byHand>>
vars == <<photos, campaigns, ads, req, edits>>

-----------------------------------------------------------------------------
(* Types *)

\* url: the permanent one of the storage, or the one of Instagram that expires
MediaRow == [post : Post \cup {None}, url : {"file", "cdn"}, campaign : Campaign \cup {None}]

Idle == [op |-> "idle"]

Unmapped == "unmapped"

ASSUME ShopAssumption ==
  /\ Photo \cap Post = {}
  /\ {None, Gone} \cap (MediaRow \cup Photo \cup Post \cup Campaign \cup Ad \cup Request) = {}
  /\ Gone # None
  /\ {"absent", Unmapped} \cap (Post \cup Campaign \cup {None}) = {}
  /\ MaxEdits \in Nat

Pending ==
  {Idle}
  \cup [op : {"upload", "delete"}, photo : Photo]
  \cup [op : {"unstore"}, photo : Photo]
  \cup [op : {"publish"}, photo : Photo, seen : Campaign \cup {None},
        campaign : Campaign \cup {None}]
  \cup [op : {"record"}, photo : Photo, seen : Campaign \cup {None},
        campaign : Campaign \cup {None}, post : Post]
  \cup [op : {"sync"}, page : SUBSET Post]
  \cup [op : {"assign"}, row : Photo \cup Post, seen : Campaign \cup {None},
        campaign : Campaign \cup {None}]
  \cup [op : {"map"}, ad : Ad, campaign : Campaign \cup {Unmapped}]
  \cup [op : {"referral", "tagged"}, chat : Chat, ad : Ad, known : BOOLEAN]

TypeOK ==
  /\ media \in [Photo \cup Post -> MediaRow \cup {None, Gone}]
  /\ files \subseteq Photo /\ feed \subseteq Post
  /\ campaigns \in [Campaign -> Post \cup {None, "absent"}]
  /\ links \in [Ad -> Campaign \cup {None, Unmapped}]
  /\ held \in [Ad -> Request \cup {None}]
  /\ chats \in [Chat -> Ad \cup {None}]
  /\ told \in [Ad -> Nat]
  /\ byHand \subseteq Ad
  /\ req \in [Request -> Pending]
  /\ edits \in Nat

Init ==
  /\ media = [m \in Photo \cup Post |-> None]
  /\ files = {} /\ feed = {}
  /\ campaigns = [c \in Campaign |-> "absent"]
  /\ links = [ad \in Ad |-> None]
  /\ held = [ad \in Ad |-> None]
  /\ chats = [h \in Chat |-> None]
  /\ told = [ad \in Ad |-> 0]
  /\ byHand = {}
  /\ req = [r \in Request |-> Idle]
  /\ edits = 0

-----------------------------------------------------------------------------
(* What requests read *)

Rows == {m \in Photo \cup Post : media[m] \notin {None, Gone}}

\* Mutant: the feed's own rows only.
RowOfFeed(p) == {m \in Rows \cap Post : media[m].post = p}

\* The rows with a post id, of which uq_shop_media_ig allows one.
RowOf(p) == {m \in Rows : media[m].post = p}

\* own_campaign; later the foreign key decides again.
Exists(c) == c \in Campaign /\ campaigns[c] # "absent"

Open(r, pending) == req[r] = Idle /\ req' = [req EXCEPT ![r] = pending]
Goto(r, pending) == req' = [req EXCEPT ![r] = pending]
Close(r) == Goto(r, Idle)
Edit == edits < MaxEdits /\ edits' = edits + 1

-----------------------------------------------------------------------------
(* Uploading and deleting a photo *)

\* upload_media: the bytes are stored under a new key,
Upload(r, photo) ==
  /\ photo \notin files /\ media[photo] = None
  /\ Open(r, [op |-> "upload", photo |-> photo])
  /\ files' = files \cup {photo}
  /\ UNCHANGED <<media, feed, campaigns, ads, edits>>

\* Mutant: the row gets its url later.
UploadedRowWithoutUrl == [post |-> None, url |-> None, campaign |-> None]

UploadedRow == [post |-> None, url |-> "file", campaign |-> None]

\* then the row is.
UploadCommit(r) ==
  /\ req[r].op = "upload"
  /\ media' = [media EXCEPT ![req[r].photo] = UploadedRow]
  /\ Close(r)
  /\ UNCHANGED <<files, feed, campaigns, ads, edits>>

\* delete_media: an upload only,
Delete(r, photo) ==
  /\ photo \in Rows
  /\ Open(r, [op |-> "delete", photo |-> photo])
  /\ Edit
  /\ UNCHANGED <<photos, campaigns, ads>>

\* the row first, then the file,
DeleteCommit(r) ==
  /\ req[r].op = "delete"
  /\ media' = [media EXCEPT ![req[r].photo] = Gone]
  /\ Goto(r, [op |-> "unstore", photo |-> req[r].photo])
  /\ UNCHANGED <<files, feed, campaigns, ads, edits>>

\* which may fail: "an orphaned file is harmless".
Unstore(r) ==
  /\ req[r].op = "unstore"
  /\ files' \in {files, files \ {req[r].photo}}
  /\ Close(r)
  /\ UNCHANGED <<media, feed, campaigns, ads, edits>>

-----------------------------------------------------------------------------
(* Instagram *)

\* post_to_instagram, of a photo that has no post yet (c = None); publish_post,
\* of a campaign's photo, posted before or not.
PublishLoad(r, photo, c) ==
  /\ photo \in Rows
  /\ \/ c = None /\ media[photo].post = None
     \/ Exists(c)
  /\ Open(r, [op |-> "publish", photo |-> photo, seen |-> media[photo].campaign, campaign |-> c])
  /\ UNCHANGED <<photos, campaigns, ads, edits>>

\* publish_image: Instagram downloads the photo and posts it; the answer may be
\* lost, and the request fails.  (If Instagram refuses, it just fails.)
Publish(r) ==
  /\ req[r].op = "publish" /\ req[r].photo \in files
  /\ \E p \in Post \ feed :
       /\ feed' = feed \cup {p}
       /\ \/ Close(r)
          \/ Goto(r, [op |-> "record", photo |-> req[r].photo, seen |-> req[r].seen,
                      campaign |-> req[r].campaign, post |-> p])
  /\ UNCHANGED <<media, files, campaigns, ads, edits>>

\* The post id is written on the photo, or on the campaign, which takes the photo
\* if it was not loaded as its own; nothing is written if a row was deleted
\* meanwhile or the feed has added the post as a row of its own.
Record(r) ==
  /\ req[r].op = "record"
  /\ LET photo == req[r].photo  c == req[r].campaign  p == req[r].post  takes == c # req[r].seen
         fits == IF c = None THEN photo \in Rows /\ RowOf(p) = {}
                 ELSE Exists(c) /\ (takes => photo \in Rows)
     IN  \/ /\ fits /\ c = None
            /\ media' = [media EXCEPT ![photo].post = p]
            /\ UNCHANGED campaigns
         \/ /\ fits /\ c # None
            /\ media' = IF takes THEN [media EXCEPT ![photo].campaign = c] ELSE media
            /\ campaigns' = [campaigns EXCEPT ![c] = p]
         \/ ~fits /\ UNCHANGED <<media, campaigns>>
  /\ Close(r)
  /\ UNCHANGED <<files, feed, ads, edits>>

\* The shop posts from its phone.
OwnPost(p) ==
  /\ p \notin feed
  /\ feed' = feed \cup {p}
  /\ UNCHANGED <<media, files, campaigns, ads, req, edits>>

\* _sync_instagram, when the panel is opened and the last fetch is old: the newest
\* posts that have a url,
SyncFetch(r) ==
  /\ \E page \in SUBSET feed \ {{}} : Open(r, [op |-> "sync", page |-> page])
  /\ UNCHANGED <<photos, campaigns, ads, edits>>

\* Mutant: Instagram's url for every row.
SyncedAll(m, page) ==
  IF m \in Rows /\ media[m].post \in page THEN [media[m] EXCEPT !.url = "cdn"]
  ELSE IF m \in page /\ RowOf(m) = {} THEN [post |-> m, url |-> "cdn", campaign |-> None]
  ELSE media[m]

\* A row of the panel after the upsert: Instagram's url is taken, but for an upload;
\* a post no row has gets one.
Synced(m, page) ==
  IF m \in page /\ RowOf(m) = {} THEN [post |-> m, url |-> "cdn", campaign |-> None] ELSE media[m]

\* are upserted in one transaction.
SyncCommit(r) ==
  /\ req[r].op = "sync"
  /\ media' = [m \in Photo \cup Post |-> Synced(m, req[r].page)]
  /\ Close(r)
  /\ UNCHANGED <<files, feed, campaigns, ads, edits>>

-----------------------------------------------------------------------------
(* Campaigns *)

\* create_campaign
Create(c) ==
  /\ ~Exists(c)
  /\ campaigns' = [campaigns EXCEPT ![c] = None]
  /\ UNCHANGED <<photos, ads, req, edits>>

\* delete_campaign: its ads become unmapped and its photos unassigned.
Drop(c) ==
  /\ Exists(c) /\ Edit
  /\ campaigns' = [campaigns EXCEPT ![c] = "absent"]
  /\ links' = [ad \in Ad |-> IF links[ad] = c THEN Unmapped ELSE links[ad]]
  /\ media' = [m \in Photo \cup Post |-> IF m \in Rows /\ media[m].campaign = c
                                          THEN [media[m] EXCEPT !.campaign = None] ELSE media[m]]
  /\ UNCHANGED <<files, feed, held, chats, told, byHand, req>>

\* update_media: a photo is put in a campaign of the shop, or in none.
Assign(r, m, c) ==
  /\ m \in Rows /\ (c = None \/ Exists(c))
  /\ Open(r, [op |-> "assign", row |-> m, seen |-> media[m].campaign, campaign |-> c])
  /\ Edit
  /\ UNCHANGED <<photos, campaigns, ads>>

\* What was loaded is not written again; otherwise the row must still be there, and
\* the campaign.
AssignCommit(r) ==
  /\ req[r].op = "assign"
  /\ LET q == req[r]
         writes == q.campaign # q.seen /\ q.row \in Rows /\ (q.campaign = None \/ Exists(q.campaign))
     IN  media' = IF writes THEN [media EXCEPT ![q.row].campaign = q.campaign] ELSE media
  /\ Close(r)
  /\ UNCHANGED <<files, feed, campaigns, ads, edits>>

\* add_link, map_link: staff register an ad, or map one, to a campaign or to none.
Map(r, ad, c) ==
  /\ c = Unmapped \/ Exists(c)
  /\ Open(r, [op |-> "map", ad |-> ad, campaign |-> c])
  /\ Edit
  /\ UNCHANGED <<photos, campaigns, ads>>

\* The upsert waits for a chat that registers the ad; the campaign must be there.
\* (A map_link that changes nothing writes nothing, as if it failed.)
MapCommit(r) ==
  /\ req[r].op = "map" /\ held[req[r].ad] = None
  /\ LET ad == req[r].ad  c == req[r].campaign
     IN  \/ /\ c = Unmapped \/ Exists(c)
            /\ links' = [links EXCEPT ![ad] = c]
            /\ byHand' = IF links[ad] = None THEN byHand \cup {ad} ELSE byHand
         \/ /\ c # Unmapped /\ ~Exists(c)
            /\ UNCHANGED <<links, byHand>>
  /\ Close(r)
  /\ UNCHANGED <<photos, campaigns, held, chats, told, edits>>

-----------------------------------------------------------------------------
(* Chats that open from an ad *)

\* apply_referral, of a webhook batch: the ad is looked up;
Referral(r, h, ad) ==
  /\ chats[h] # ad
  /\ Open(r, [op |-> "referral", chat |-> h, ad |-> ad, known |-> links[ad] # None])
  /\ UNCHANGED <<photos, campaigns, ads, edits>>

Tagged(r) == Goto(r, [req[r] EXCEPT !.op = "tagged"])

\* Mutant: an upsert, so that no batch fails.
RegisterOrTake(r) ==
  /\ req[r].op = "referral" /\ held[req[r].ad] = None
  /\ Tagged(r)
  /\ held' = IF req[r].known THEN held ELSE [held EXCEPT ![req[r].ad] = r]
  /\ UNCHANGED <<photos, campaigns, links, chats, told, byHand, edits>>

\* one that is not known is inserted, after any other batch that does so; the batch
\* fails if it is committed meanwhile.
Register(r) ==
  /\ req[r].op = "referral"
  /\ LET ad == req[r].ad
     IN  \/ req[r].known /\ Tagged(r) /\ UNCHANGED held
         \/ ~req[r].known /\ links[ad] # None /\ Close(r) /\ UNCHANGED held
         \/ /\ ~req[r].known /\ links[ad] = None /\ held[ad] = None
            /\ held' = [held EXCEPT ![ad] = r]
            /\ Tagged(r)
  /\ UNCHANGED <<photos, campaigns, links, chats, told, byHand, edits>>

\* The batch commits: link, notification and the chat that points at the link.
TagCommit(r) ==
  /\ req[r].op = "tagged"
  /\ LET ad == req[r].ad
     IN  /\ chats' = [chats EXCEPT ![req[r].chat] = ad]
         /\ IF req[r].known THEN UNCHANGED <<links, told, held>>
            ELSE /\ links' = [links EXCEPT ![ad] = IF @ = None THEN Unmapped ELSE @]
                 /\ told' = [told EXCEPT ![ad] = @ + 1]
                 /\ held' = [held EXCEPT ![ad] = None]
  /\ Close(r)
  /\ UNCHANGED <<photos, campaigns, byHand, edits>>

\* A request or a batch fails and is rolled back; the batch is answered 200, so
\* Meta does not deliver it again.
Fail(r) ==
  /\ req[r] # Idle
  /\ Close(r)
  /\ held' = [ad \in Ad |-> IF held[ad] = r THEN None ELSE held[ad]]
  /\ UNCHANGED <<photos, campaigns, links, chats, told, byHand, edits>>

Begin(r) ==
  \/ \E photo \in Photo : Upload(r, photo) \/ Delete(r, photo)
  \/ \E photo \in Photo, c \in Campaign \cup {None} : PublishLoad(r, photo, c)
  \/ SyncFetch(r)
  \/ \E m \in Photo \cup Post, c \in Campaign \cup {None} : Assign(r, m, c)
  \/ \E ad \in Ad, c \in Campaign \cup {Unmapped} : Map(r, ad, c)
  \/ \E h \in Chat, ad \in Ad : Referral(r, h, ad)

Continue(r) ==
  \/ UploadCommit(r) \/ DeleteCommit(r) \/ Unstore(r)
  \/ Publish(r) \/ Record(r) \/ SyncCommit(r)
  \/ AssignCommit(r) \/ MapCommit(r) \/ Register(r) \/ TagCommit(r)

Next ==
  \/ \E r \in Request : Begin(r) \/ Continue(r) \/ Fail(r)
  \/ \E p \in Post : OwnPost(p)
  \/ \E c \in Campaign : Create(c) \/ Drop(c)

Spec == Init /\ [][Next]_vars

-----------------------------------------------------------------------------
(* Properties *)

\* Every uploaded photo of the panel can be sent: its file is in the storage and
\* its url is the permanent one, also after it was posted and read back from the
\* feed, and while it is deleted.
UploadsCanBeSent ==
  \A photo \in Photo \cap Rows : photo \in files /\ media[photo].url = "file"

\* No post has two rows, and no photo or ad names a campaign that is gone, whatever
\* was deleted or read from the feed while a request was publishing or assigning.
PanelIsConsistent ==
  /\ \A m, n \in Rows : media[m].post # None /\ media[m].post = media[n].post => m = n
  /\ \A m \in Rows : media[m].campaign # None => Exists(media[m].campaign)
  /\ \A ad \in Ad : links[ad] \in Campaign => Exists(links[ad])

\* Staff are told of an ad once, unless they registered it themselves, however many
\* chats open from it at the same time; and a chat points at a registered ad.
AdToldOnce ==
  /\ \A ad \in Ad : told[ad] = IF links[ad] # None /\ ad \notin byHand THEN 1 ELSE 0
  /\ \A h \in Chat : chats[h] # None => links[chats[h]] # None
=============================================================================
