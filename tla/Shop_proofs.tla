----------------------------- MODULE Shop_proofs -----------------------------
(* Theorems about Shop, for any photos, posts, campaigns, ads, chats and       *)
(* requests at a time.                                                         *)
EXTENDS Shop, TLAPS

-----------------------------------------------------------------------------
(* Types *)

\* What a request under way has loaded, by its operation.
LEMMA PendingShape ==
  ASSUME TypeOK, NEW r \in Request
  PROVE  /\ req[r].op \in {"upload", "delete", "unstore", "publish", "record"} => req[r].photo \in Photo
         /\ req[r].op \in {"publish", "record"} => /\ req[r].seen \in Campaign \cup {None}
                                                   /\ req[r].campaign \in Campaign \cup {None}
         /\ req[r].op = "record" => req[r].post \in Post
         /\ req[r].op = "sync" => req[r].page \subseteq Post
         /\ req[r].op = "assign" => /\ req[r].row \in Photo \cup Post
                                    /\ req[r].campaign \in Campaign \cup {None}
         /\ req[r].op = "map" => req[r].ad \in Ad /\ req[r].campaign \in Campaign \cup {Unmapped}
         /\ req[r].op \in {"referral", "tagged"} => /\ req[r].chat \in Chat /\ req[r].ad \in Ad
                                                    /\ req[r].known \in BOOLEAN
<1>1. req[r] \in Pending
  BY DEF TypeOK
<1>. QED BY <1>1 DEF Pending, Idle

\* A row of the panel is a MediaRow, and the other way round.
LEMMA RowShape ==
  ASSUME TypeOK, NEW m \in Photo \cup Post
  PROVE  m \in Rows <=> media[m] \in MediaRow
BY ShopAssumption DEF TypeOK, Rows

\* Every step keeps the variables in their types.
LEMMA TypeStep == TypeOK /\ [Next]_vars => TypeOK'
<1> SUFFICES ASSUME TypeOK, [Next]_vars PROVE TypeOK'
  OBVIOUS
<1> USE ShopAssumption
<1> USE DEF photos, ads
<1>1. ASSUME NEW r \in Request, NEW photo \in Photo, Upload(r, photo) PROVE TypeOK'
  <2>1. [op |-> "upload", photo |-> photo] \in Pending
    BY DEF Pending
  <2>. QED BY <1>1, <2>1 DEF Upload, Open, TypeOK
<1>2. ASSUME NEW r \in Request, NEW photo \in Photo, Delete(r, photo) PROVE TypeOK'
  <2>1. [op |-> "delete", photo |-> photo] \in Pending
    BY DEF Pending
  <2>. QED BY <1>2, <2>1 DEF Delete, Open, Edit, TypeOK
<1>3. ASSUME NEW r \in Request, NEW photo \in Photo, NEW c \in Campaign \cup {None},
             PublishLoad(r, photo, c)
      PROVE  TypeOK'
  <2>1. media[photo].campaign \in Campaign \cup {None}
    BY <1>3, RowShape DEF PublishLoad, MediaRow
  <2>2. [op |-> "publish", photo |-> photo, seen |-> media[photo].campaign, campaign |-> c] \in Pending
    BY <2>1 DEF Pending
  <2>. QED BY <1>3, <2>2 DEF PublishLoad, Open, TypeOK
<1>4. ASSUME NEW r \in Request, SyncFetch(r) PROVE TypeOK'
  <2>1. PICK page \in SUBSET feed : req' = [req EXCEPT ![r] = [op |-> "sync", page |-> page]]
    BY <1>4 DEF SyncFetch, Open
  <2>2. [op |-> "sync", page |-> page] \in Pending
    BY <2>1 DEF Pending, TypeOK
  <2>. QED BY <1>4, <2>1, <2>2 DEF SyncFetch, TypeOK
<1>5. ASSUME NEW r \in Request, NEW m \in Photo \cup Post, NEW c \in Campaign \cup {None}, Assign(r, m, c)
      PROVE  TypeOK'
  <2>1. media[m].campaign \in Campaign \cup {None}
    BY <1>5, RowShape DEF Assign, MediaRow
  <2>2. [op |-> "assign", row |-> m, seen |-> media[m].campaign, campaign |-> c] \in Pending
    BY <2>1 DEF Pending
  <2>. QED BY <1>5, <2>2 DEF Assign, Open, Edit, TypeOK
<1>6. ASSUME NEW r \in Request, NEW ad \in Ad, NEW c \in Campaign \cup {Unmapped}, Map(r, ad, c)
      PROVE  TypeOK'
  <2>1. [op |-> "map", ad |-> ad, campaign |-> c] \in Pending
    BY DEF Pending
  <2>. QED BY <1>6, <2>1 DEF Map, Open, Edit, TypeOK
<1>7. ASSUME NEW r \in Request, NEW h \in Chat, NEW ad \in Ad, Referral(r, h, ad) PROVE TypeOK'
  <2>1. [op |-> "referral", chat |-> h, ad |-> ad, known |-> links[ad] # None] \in Pending
    BY DEF Pending
  <2>. QED BY <1>7, <2>1 DEF Referral, Open, TypeOK
<1> Idle \in Pending
  BY DEF Pending
<1>8. ASSUME NEW r \in Request, UploadCommit(r) PROVE TypeOK'
  <2>1. UploadedRow \in MediaRow /\ req[r].photo \in Photo
    BY <1>8, PendingShape DEF UploadCommit, UploadedRow, MediaRow
  <2>. QED BY <1>8, <2>1 DEF UploadCommit, Close, Goto, TypeOK
<1>9. ASSUME NEW r \in Request, DeleteCommit(r) PROVE TypeOK'
  <2>1. req[r].photo \in Photo /\ [op |-> "unstore", photo |-> req[r].photo] \in Pending
    BY <1>9, PendingShape DEF DeleteCommit, Pending
  <2>. QED BY <1>9, <2>1 DEF DeleteCommit, Goto, TypeOK
<1>10. ASSUME NEW r \in Request, Unstore(r) PROVE TypeOK'
  BY <1>10 DEF Unstore, Close, Goto, TypeOK
<1>11. ASSUME NEW r \in Request, Publish(r) PROVE TypeOK'
  <2>1. PICK p \in Post \ feed :
           /\ feed' = feed \cup {p}
           /\ \/ Close(r)
              \/ Goto(r, [op |-> "record", photo |-> req[r].photo, seen |-> req[r].seen,
                          campaign |-> req[r].campaign, post |-> p])
    BY <1>11 DEF Publish
  <2>2. [op |-> "record", photo |-> req[r].photo, seen |-> req[r].seen,
         campaign |-> req[r].campaign, post |-> p] \in Pending
    BY <1>11, PendingShape DEF Publish, Pending
  <2>. QED BY <1>11, <2>1, <2>2 DEF Publish, Close, Goto, TypeOK
<1>12. ASSUME NEW r \in Request, Record(r) PROVE TypeOK'
  <2>1. /\ req[r].photo \in Photo /\ req[r].post \in Post /\ req[r].campaign \in Campaign \cup {None}
    BY <1>12, PendingShape DEF Record
  <2>2. media' \in [Photo \cup Post -> MediaRow \cup {None, Gone}]
    <3>1. CASE req[r].photo \in Rows
      <4>1. media[req[r].photo] \in MediaRow
        BY <2>1, <3>1, RowShape
      <4>. QED BY <1>12, <2>1, <4>1 DEF Record, MediaRow, TypeOK
    <3>2. CASE req[r].photo \notin Rows
      BY <1>12, <2>1, <3>2 DEF Record, TypeOK
    <3>. QED BY <3>1, <3>2
  <2>3. campaigns' \in [Campaign -> Post \cup {None, "absent"}]
    BY <1>12, <2>1 DEF Record, TypeOK
  <2>. QED BY <1>12, <2>2, <2>3 DEF Record, Close, Goto, TypeOK
<1>13. ASSUME NEW r \in Request, SyncCommit(r) PROVE TypeOK'
  <2>1. \A m \in Photo \cup Post : Synced(m, req[r].page) \in MediaRow \cup {None, Gone}
    BY <1>13, PendingShape DEF SyncCommit, Synced, MediaRow, TypeOK
  <2>. QED BY <1>13, <2>1 DEF SyncCommit, Close, Goto, TypeOK
<1>14. ASSUME NEW r \in Request, AssignCommit(r) PROVE TypeOK'
  <2>1. req[r].row \in Photo \cup Post /\ req[r].campaign \in Campaign \cup {None}
    BY <1>14, PendingShape DEF AssignCommit
  <2>2. media' \in [Photo \cup Post -> MediaRow \cup {None, Gone}]
    <3>1. CASE req[r].row \in Rows
      <4>1. media[req[r].row] \in MediaRow
        BY <2>1, <3>1, RowShape
      <4>. QED BY <1>14, <2>1, <4>1 DEF AssignCommit, MediaRow, TypeOK
    <3>2. CASE req[r].row \notin Rows
      BY <1>14, <2>1, <3>2 DEF AssignCommit, TypeOK
    <3>. QED BY <3>1, <3>2
  <2>. QED BY <1>14, <2>2 DEF AssignCommit, Close, Goto, TypeOK
<1>15. ASSUME NEW r \in Request, MapCommit(r) PROVE TypeOK'
  <2>1. req[r].ad \in Ad /\ req[r].campaign \in Campaign \cup {Unmapped}
    BY <1>15, PendingShape DEF MapCommit
  <2>. QED BY <1>15, <2>1 DEF MapCommit, Close, Goto, TypeOK
<1>16. ASSUME NEW r \in Request, Register(r) PROVE TypeOK'
  <2>1. req[r].ad \in Ad /\ [req[r] EXCEPT !.op = "tagged"] \in Pending
    <3>1. req[r] \in [op : {"referral", "tagged"}, chat : Chat, ad : Ad, known : BOOLEAN]
      BY <1>16 DEF Register, TypeOK, Pending, Idle
    <3>2. [req[r] EXCEPT !.op = "tagged"]
            \in [op : {"referral", "tagged"}, chat : Chat, ad : Ad, known : BOOLEAN]
      BY <3>1
    <3>. QED BY <3>1, <3>2 DEF Pending
  <2>. QED BY <1>16, <2>1 DEF Register, Tagged, Close, Goto, TypeOK
<1>17. ASSUME NEW r \in Request, TagCommit(r) PROVE TypeOK'
  <2>1. req[r].ad \in Ad /\ req[r].chat \in Chat
    BY <1>17, PendingShape DEF TagCommit
  <2>. QED BY <1>17, <2>1 DEF TagCommit, Close, Goto, TypeOK
<1>18. ASSUME NEW r \in Request, Fail(r) PROVE TypeOK'
  BY <1>18 DEF Fail, Close, Goto, TypeOK
<1>19. ASSUME NEW p \in Post, OwnPost(p) PROVE TypeOK'
  BY <1>19 DEF OwnPost, TypeOK
<1>20. ASSUME NEW c \in Campaign, Create(c) PROVE TypeOK'
  BY <1>20 DEF Create, TypeOK
<1>21. ASSUME NEW c \in Campaign, Drop(c) PROVE TypeOK'
  <2>1. media' \in [Photo \cup Post -> MediaRow \cup {None, Gone}]
    <3>1. ASSUME NEW m \in Rows PROVE [media[m] EXCEPT !.campaign = None] \in MediaRow
      BY <3>1, RowShape DEF MediaRow, Rows
    <3>. QED BY <1>21, <3>1 DEF Drop, TypeOK
  <2>. QED BY <1>21, <2>1 DEF Drop, Edit, TypeOK
<1>22. CASE UNCHANGED vars
  BY <1>22 DEF vars, TypeOK
<1>. QED
  BY <1>1, <1>2, <1>3, <1>4, <1>5, <1>6, <1>7, <1>8, <1>9, <1>10, <1>11, <1>12, <1>13, <1>14, <1>15,
     <1>16, <1>17, <1>18, <1>19, <1>20, <1>21, <1>22 DEF Next, Begin, Continue

\* Every reachable state is well typed.
THEOREM ShopTypeCorrect == Spec => []TypeOK
<1>1. Init => TypeOK
  BY DEF Init, TypeOK, Pending, Idle
<1>. QED BY <1>1, TypeStep, PTL DEF Spec

-----------------------------------------------------------------------------
(* Uploads can be sent *)

\* How a step may change an upload's row.
LEMMA PhotoStep ==
  ASSUME TypeOK, [Next]_vars, NEW photo \in Photo
  PROVE  \/ media'[photo] = media[photo]
         \/ \E r \in Request : UploadCommit(r) /\ req[r].photo = photo /\ media'[photo] = UploadedRow
         \/ \E r \in Request : DeleteCommit(r) /\ req[r].photo = photo /\ media'[photo] = Gone
         \/ photo \in Rows /\ media'[photo] \in MediaRow /\ media'[photo].url = media[photo].url
<1> DEFINE P == \/ media'[photo] = media[photo]
                \/ \E r \in Request : UploadCommit(r) /\ req[r].photo = photo /\ media'[photo] = UploadedRow
                \/ \E r \in Request : DeleteCommit(r) /\ req[r].photo = photo /\ media'[photo] = Gone
                \/ photo \in Rows /\ media'[photo] \in MediaRow /\ media'[photo].url = media[photo].url
<1>1. ASSUME NEW r \in Request, UploadCommit(r) PROVE P
  BY <1>1, PendingShape DEF UploadCommit, TypeOK
<1>2. ASSUME NEW r \in Request, DeleteCommit(r) PROVE P
  BY <1>2, PendingShape DEF DeleteCommit, TypeOK
<1>3. ASSUME NEW r \in Request, Record(r) PROVE P
  <2>1. req[r].photo \in Photo /\ req[r].post \in Post /\ req[r].campaign \in Campaign \cup {None}
    BY <1>3, PendingShape DEF Record
  <2>2. CASE photo \in Rows
    <3>1. media[photo] \in MediaRow
      BY <2>2, RowShape
    <3>. QED BY <1>3, <2>1, <2>2, <3>1 DEF Record, MediaRow, TypeOK
  <2>3. CASE photo \notin Rows
    BY <1>3, <2>1, <2>3 DEF Record, TypeOK
  <2>. QED BY <2>2, <2>3
<1>4. ASSUME NEW r \in Request, SyncCommit(r) PROVE P
  <2>1. photo \notin req[r].page
    BY <1>4, PendingShape, ShopAssumption DEF SyncCommit
  <2>. QED BY <1>4, <2>1 DEF SyncCommit, Synced
<1>5. ASSUME NEW r \in Request, AssignCommit(r) PROVE P
  <2>1. req[r].row \in Photo \cup Post /\ req[r].campaign \in Campaign \cup {None}
    BY <1>5, PendingShape DEF AssignCommit
  <2>2. CASE photo \in Rows
    <3>1. media[photo] \in MediaRow
      BY <2>2, RowShape
    <3>. QED BY <1>5, <2>1, <2>2, <3>1 DEF AssignCommit, MediaRow, TypeOK
  <2>3. CASE photo \notin Rows
    BY <1>5, <2>1, <2>3 DEF AssignCommit, TypeOK
  <2>. QED BY <2>2, <2>3
<1>6. ASSUME NEW c \in Campaign, Drop(c) PROVE P
  <2>1. photo \in Rows => media[photo] \in MediaRow
    BY RowShape
  <2>. QED BY <1>6, <2>1 DEF Drop, MediaRow
<1>7. CASE UNCHANGED media
  BY <1>7
<1>. QED
  BY <1>1, <1>2, <1>3, <1>4, <1>5, <1>6, <1>7
  DEF Next, Begin, Continue, Upload, Delete, Unstore, PublishLoad, Publish, OwnPost, SyncFetch, Create,
      Assign, Map, MapCommit, Referral, Register, TagCommit, Fail, photos, vars

\* How a request comes to upload or to delete.
LEMMA FileStep ==
  ASSUME TypeOK, [Next]_vars, NEW r \in Request
  PROVE  \/ req'[r] = req[r] /\ ~UploadCommit(r)
         \/ req'[r].op \notin {"upload", "delete", "unstore"}
         \/ \E photo \in Photo : Upload(r, photo) /\ req'[r] = [op |-> "upload", photo |-> photo]
         \/ \E photo \in Photo : Delete(r, photo) /\ req'[r] = [op |-> "delete", photo |-> photo]
         \/ DeleteCommit(r) /\ req'[r] = [op |-> "unstore", photo |-> req[r].photo]
<1> DEFINE P == \/ req'[r] = req[r] /\ ~UploadCommit(r)
                \/ req'[r].op \notin {"upload", "delete", "unstore"}
                \/ \E photo \in Photo : Upload(r, photo) /\ req'[r] = [op |-> "upload", photo |-> photo]
                \/ \E photo \in Photo : Delete(r, photo) /\ req'[r] = [op |-> "delete", photo |-> photo]
                \/ DeleteCommit(r) /\ req'[r] = [op |-> "unstore", photo |-> req[r].photo]
<1>1. ASSUME UploadCommit(r) PROVE P
  BY <1>1 DEF UploadCommit, Close, Goto, Idle, TypeOK
<1>2. ASSUME req'[r] = req[r] PROVE P
  BY <1>1, <1>2
<1>3. ASSUME NEW q \in Request, NEW photo \in Photo, Upload(q, photo) \/ Delete(q, photo) PROVE P
  <2>1. CASE q = r
    BY <1>3, <2>1 DEF Upload, Delete, Open, TypeOK
  <2>2. CASE q # r
    BY <1>2, <1>3, <2>2 DEF Upload, Delete, Open, TypeOK
  <2>. QED BY <2>1, <2>2
<1>4. ASSUME NEW q \in Request, DeleteCommit(q) PROVE P
  <2>1. CASE q = r
    BY <1>4, <2>1 DEF DeleteCommit, Goto, TypeOK
  <2>2. CASE q # r
    BY <1>2, <1>4, <2>2 DEF DeleteCommit, Goto, TypeOK
  <2>. QED BY <2>1, <2>2
<1>5. ASSUME NEW q \in Request, NEW photo \in Photo, NEW c \in Campaign \cup {None}, PublishLoad(q, photo, c)
      PROVE  req'[r] = req[r] \/ req'[r].op = "publish"
  BY <1>5 DEF PublishLoad, Open, TypeOK
<1>6. ASSUME NEW q \in Request, SyncFetch(q) PROVE req'[r] = req[r] \/ req'[r].op = "sync"
  <2>1. PICK page : req' = [req EXCEPT ![q] = [op |-> "sync", page |-> page]]
    BY <1>6 DEF SyncFetch, Open
  <2>. QED BY <2>1 DEF TypeOK
<1>7. ASSUME NEW q \in Request, NEW m \in Photo \cup Post, NEW c \in Campaign \cup {None}, Assign(q, m, c)
      PROVE  req'[r] = req[r] \/ req'[r].op = "assign"
  BY <1>7 DEF Assign, Open, TypeOK
<1>8. ASSUME NEW q \in Request, NEW ad \in Ad, NEW c \in Campaign \cup {Unmapped}, Map(q, ad, c)
      PROVE  req'[r] = req[r] \/ req'[r].op = "map"
  BY <1>8 DEF Map, Open, TypeOK
<1>9. ASSUME NEW q \in Request, NEW h \in Chat, NEW ad \in Ad, Referral(q, h, ad)
      PROVE  req'[r] = req[r] \/ req'[r].op = "referral"
  BY <1>9 DEF Referral, Open, TypeOK
<1>10. ASSUME NEW q \in Request, Publish(q)
       PROVE  req'[r] = req[r] \/ req'[r] = Idle \/ req'[r].op = "record"
  BY <1>10 DEF Publish, Close, Goto, TypeOK
<1>11. ASSUME NEW q \in Request, Register(q)
       PROVE  req'[r] = req[r] \/ req'[r] = Idle \/ req'[r].op = "tagged"
  <2>1. req[q] \in [op : {"referral", "tagged"}, chat : Chat, ad : Ad, known : BOOLEAN]
    BY <1>11 DEF Register, TypeOK, Pending, Idle
  <2>. QED BY <1>11, <2>1 DEF Register, Tagged, Close, Goto, TypeOK
<1>12. ASSUME NEW q \in Request,
              \/ UploadCommit(q) \/ Unstore(q) \/ Record(q) \/ SyncCommit(q) \/ AssignCommit(q)
              \/ MapCommit(q) \/ TagCommit(q) \/ Fail(q)
       PROVE  req'[r] = req[r] \/ req'[r] = Idle
  BY <1>12 DEF UploadCommit, Unstore, Record, SyncCommit, AssignCommit, MapCommit, TagCommit, Fail, Close,
               Goto, TypeOK
<1>13. CASE UNCHANGED req
  BY <1>2, <1>13
<1>14. Idle.op = "idle"
  BY DEF Idle
<1> HIDE DEF P
<1>15. ASSUME req'[r].op \notin {"upload", "delete", "unstore"} PROVE P
  BY <1>15 DEF P
<1>. SUFFICES P
  BY DEF P
<1>. QED
  BY <1>2, <1>3, <1>4, <1>5, <1>6, <1>7, <1>8, <1>9, <1>10, <1>11, <1>12, <1>13, <1>14, <1>15
  DEF Next, Begin, Continue, OwnPost, Create, Drop, vars

\* The same, read from what the request is now.
LEMMA FileBegan ==
  ASSUME TypeOK, [Next]_vars, NEW r \in Request
  PROVE  /\ req'[r].op = "upload" =>
              \/ req'[r] = req[r] /\ ~UploadCommit(r)
              \/ \E photo \in Photo : Upload(r, photo) /\ req'[r] = [op |-> "upload", photo |-> photo]
         /\ req'[r].op = "delete" =>
              \/ req'[r] = req[r]
              \/ \E photo \in Photo : Delete(r, photo) /\ req'[r] = [op |-> "delete", photo |-> photo]
         /\ req'[r].op = "unstore" =>
              \/ req'[r] = req[r]
              \/ DeleteCommit(r) /\ req'[r] = [op |-> "unstore", photo |-> req[r].photo]
<1>1. CASE req'[r] = req[r] /\ ~UploadCommit(r)
  BY <1>1
<1>2. CASE req'[r].op \notin {"upload", "delete", "unstore"}
  BY <1>2
<1>3. CASE \E photo \in Photo : Upload(r, photo) /\ req'[r] = [op |-> "upload", photo |-> photo]
  BY <1>3
<1>4. CASE \E photo \in Photo : Delete(r, photo) /\ req'[r] = [op |-> "delete", photo |-> photo]
  BY <1>4
<1>5. CASE DeleteCommit(r) /\ req'[r] = [op |-> "unstore", photo |-> req[r].photo]
  BY <1>5
<1>. QED BY <1>1, <1>2, <1>3, <1>4, <1>5, FileStep

\* The file is there before the row and until after it; a key is uploaded once.
Stored ==
  /\ \A r \in Request :
       /\ req[r].op = "upload" => req[r].photo \in files /\ media[req[r].photo] = None
       /\ req[r].op = "delete" => media[req[r].photo] # None
       /\ req[r].op = "unstore" => media[req[r].photo] = Gone
  /\ \A r, q \in Request :
       req[r].op = "upload" /\ req[q].op = "upload" /\ req[r].photo = req[q].photo => r = q

\* A file is only taken away from a row that is gone.
LEMMA FilesStay ==
  ASSUME TypeOK, Stored, [Next]_vars, NEW photo \in files, photo \notin files'
  PROVE  media[photo] = Gone
BY DEF Stored, Next, Begin, Continue, Upload, Delete, Unstore, PublishLoad, Publish, OwnPost, SyncFetch,
       Create, Drop, Assign, Map, MapCommit, Referral, Register, TagCommit, Fail, UploadCommit,
       DeleteCommit, Record, SyncCommit, AssignCommit, photos, vars

LEMMA StoredStep == TypeOK /\ Stored /\ UploadsCanBeSent /\ [Next]_vars => Stored' /\ UploadsCanBeSent'
<1> SUFFICES ASSUME TypeOK, Stored, UploadsCanBeSent, [Next]_vars PROVE Stored' /\ UploadsCanBeSent'
  OBVIOUS
<1> USE ShopAssumption
<1>1. TypeOK'
  BY TypeStep
<1>2. ASSUME NEW photo \in Photo, photo \in Rows' PROVE photo \in files' /\ media'[photo].url = "file"
  <2>1. CASE media'[photo] = media[photo]
    <3>1. photo \in Rows /\ media[photo] # Gone
      BY <1>2, <2>1 DEF Rows
    <3>. QED BY <2>1, <3>1, FilesStay DEF UploadsCanBeSent
  <2>2. ASSUME NEW r \in Request, UploadCommit(r), req[r].photo = photo, media'[photo] = UploadedRow
        PROVE  photo \in files' /\ media'[photo].url = "file"
    BY <2>2 DEF UploadCommit, Stored, UploadedRow
  <2>3. CASE media'[photo] = Gone
    BY <1>2, <2>3 DEF Rows
  <2>4. CASE photo \in Rows /\ media'[photo] \in MediaRow /\ media'[photo].url = media[photo].url
    BY <2>4, FilesStay DEF UploadsCanBeSent, Rows
  <2>. QED BY <2>1, <2>2, <2>3, <2>4, PhotoStep
<1>3. ASSUME NEW r \in Request, req'[r].op = "upload"
      PROVE  req'[r].photo \in files' /\ media'[req'[r].photo] = None
  <2>1. CASE req'[r] = req[r] /\ ~UploadCommit(r)
    <3> DEFINE photo == req[r].photo
    <3>1. photo \in Photo /\ photo \in files /\ media[photo] = None
      BY <1>3, <2>1, PendingShape DEF Stored
    <3>2. photo \notin Rows
      BY <3>1 DEF Rows
    <3>3. ASSUME NEW q \in Request, UploadCommit(q), req[q].photo = photo PROVE FALSE
      BY <1>3, <2>1, <3>3 DEF Stored, UploadCommit
    <3>4. ASSUME NEW q \in Request, DeleteCommit(q), req[q].photo = photo PROVE FALSE
      BY <3>1, <3>4 DEF Stored, DeleteCommit
    <3>5. media'[photo] = None
      BY <3>1, <3>2, <3>3, <3>4, PhotoStep
    <3>. QED BY <2>1, <3>1, <3>5, FilesStay
  <2>2. ASSUME NEW photo \in Photo, Upload(r, photo), req'[r] = [op |-> "upload", photo |-> photo]
        PROVE  req'[r].photo \in files' /\ media'[req'[r].photo] = None
    BY <2>2 DEF Upload
  <2>. QED BY <1>3, <2>1, <2>2, FileBegan
<1>4. ASSUME NEW r \in Request, req'[r].op = "delete" PROVE media'[req'[r].photo] # None
  <2>1. CASE req'[r] = req[r]
    <3>1. req[r].photo \in Photo /\ media[req[r].photo] # None
      BY <1>4, <2>1, PendingShape DEF Stored
    <3>2. UploadedRow # None
      BY DEF UploadedRow, MediaRow
    <3>. QED BY <2>1, <3>1, <3>2, PhotoStep
  <2>2. ASSUME NEW photo \in Photo, Delete(r, photo), req'[r] = [op |-> "delete", photo |-> photo]
        PROVE  media'[req'[r].photo] # None
    BY <2>2 DEF Delete, photos, Rows
  <2>. QED BY <1>4, <2>1, <2>2, FileBegan
<1>5. ASSUME NEW r \in Request, req'[r].op = "unstore" PROVE media'[req'[r].photo] = Gone
  <2>1. CASE req'[r] = req[r]
    <3> DEFINE photo == req[r].photo
    <3>1. photo \in Photo /\ media[photo] = Gone /\ photo \notin Rows
      BY <1>5, <2>1, PendingShape DEF Stored, Rows
    <3>2. ASSUME NEW q \in Request, UploadCommit(q), req[q].photo = photo PROVE FALSE
      BY <3>1, <3>2 DEF Stored, UploadCommit
    <3>. QED BY <2>1, <3>1, <3>2, PhotoStep
  <2>2. CASE DeleteCommit(r) /\ req'[r] = [op |-> "unstore", photo |-> req[r].photo]
    BY <2>2, PendingShape DEF DeleteCommit, TypeOK
  <2>. QED BY <1>5, <2>1, <2>2, FileBegan
<1>6. ASSUME NEW r \in Request, NEW q \in Request, req'[r].op = "upload", req'[q].op = "upload",
             req'[r].photo = req'[q].photo, r # q
      PROVE  FALSE
  <2>1. ASSUME NEW s \in Request, NEW t \in Request, NEW photo \in Photo, s # t, Upload(s, photo),
               req'[t].op = "upload"
        PROVE  req'[t].photo # photo
    BY <2>1 DEF Upload, Open, Stored, TypeOK
  <2>2. CASE req'[r] = req[r] /\ req'[q] = req[q]
    BY <1>6, <2>2 DEF Stored
  <2>3. req'[r] = req[r] \/ \E photo \in Photo : Upload(r, photo) /\ req'[r] = [op |-> "upload", photo |-> photo]
    BY <1>6, FileBegan
  <2>4. req'[q] = req[q] \/ \E photo \in Photo : Upload(q, photo) /\ req'[q] = [op |-> "upload", photo |-> photo]
    BY <1>6, FileBegan
  <2>5. ASSUME NEW photo \in Photo, Upload(r, photo), req'[r] = [op |-> "upload", photo |-> photo]
        PROVE  FALSE
    BY <1>6, <2>1, <2>5
  <2>6. ASSUME NEW photo \in Photo, Upload(q, photo), req'[q] = [op |-> "upload", photo |-> photo]
        PROVE  FALSE
    BY <1>6, <2>1, <2>6
  <2>. QED BY <2>2, <2>3, <2>4, <2>5, <2>6
<1>. QED BY <1>2, <1>3, <1>4, <1>5, <1>6 DEF Stored, UploadsCanBeSent

\* An uploaded photo of the panel has its file and its permanent url, whatever is
\* published, read back from the feed or deleted meanwhile.
THEOREM UploadsStaySendable == Spec => []UploadsCanBeSent
<1>1. Init => TypeOK /\ Stored /\ UploadsCanBeSent
  BY DEF Init, TypeOK, Pending, Idle, Stored, UploadsCanBeSent, Rows
<1>. QED BY <1>1, TypeStep, StoredStep, PTL DEF Spec

-----------------------------------------------------------------------------
(* The panel names what is there *)

PostsOnce == \A m, n \in Rows : media[m].post # None /\ media[m].post = media[n].post => m = n

PhotosKept == \A m \in Rows : media[m].campaign # None => Exists(media[m].campaign)

AdsKept == \A ad \in Ad : links[ad] \in Campaign => Exists(links[ad])

\* The two ways a row gets a post that no row has.
Posted(r, m) ==
  /\ Record(r) /\ m = req[r].photo /\ m \in Rows /\ RowOf(req[r].post) = {}
  /\ media' = [media EXCEPT ![m].post = req[r].post]

Added(r, m) == SyncCommit(r) /\ m \in Post /\ RowOf(m) = {} /\ media'[m].post = m

\* A row after a step has its post from before, or one no other row has.
LEMMA PostStep ==
  ASSUME TypeOK, [Next]_vars, NEW m \in Rows'
  PROVE  \/ m \in Rows /\ media'[m].post = media[m].post
         \/ media'[m].post = None
         \/ \E r \in Request : Posted(r, m) \/ Added(r, m)
<1> DEFINE P == \/ m \in Rows /\ media'[m].post = media[m].post
                \/ media'[m].post = None
                \/ \E r \in Request : Posted(r, m) \/ Added(r, m)
<1>1. m \in Photo \cup Post /\ media'[m] \notin {None, Gone}
  BY DEF Rows
<1>2. m \in Rows => media[m] \in MediaRow
  BY <1>1, RowShape
<1>3. CASE media'[m] = media[m]
  BY <1>1, <1>3 DEF Rows
<1>4. ASSUME NEW r \in Request, UploadCommit(r) PROVE P
  <2>1. req[r].photo \in Photo
    BY <1>4, PendingShape DEF UploadCommit
  <2>. QED BY <1>1, <1>3, <1>4, <2>1 DEF UploadCommit, UploadedRow, TypeOK
<1>5. ASSUME NEW r \in Request, DeleteCommit(r) PROVE P
  BY <1>1, <1>3, <1>5, PendingShape DEF DeleteCommit, TypeOK
<1>6. ASSUME NEW r \in Request, Record(r) PROVE P
  <2>1. req[r].photo \in Photo
    BY <1>6, PendingShape DEF Record
  <2>2. CASE m # req[r].photo
    BY <1>1, <1>3, <1>6, <2>1, <2>2 DEF Record, TypeOK
  <2>3. CASE m = req[r].photo
    <3>1. m \in Rows
      BY <1>1, <1>6, <2>3, ShopAssumption DEF Record, Rows, TypeOK
    <3>2. CASE media' = [media EXCEPT ![m].post = req[r].post] /\ RowOf(req[r].post) = {}
      BY <1>6, <2>3, <3>1, <3>2 DEF Posted
    <3>3. CASE media' = [media EXCEPT ![m].campaign = req[r].campaign]
      BY <1>1, <1>2, <3>1, <3>3 DEF MediaRow, TypeOK
    <3>4. CASE media' = media
      BY <1>3, <3>4
    <3>. QED BY <1>6, <2>3, <3>2, <3>3, <3>4 DEF Record
  <2>. QED BY <2>2, <2>3
<1>7. ASSUME NEW r \in Request, SyncCommit(r) PROVE P
  <2>1. media'[m] = Synced(m, req[r].page) /\ req[r].page \subseteq Post
    BY <1>1, <1>7, PendingShape DEF SyncCommit
  <2>. QED BY <1>3, <1>7, <2>1 DEF Synced, Added
<1>8. ASSUME NEW r \in Request, AssignCommit(r) PROVE P
  <2>1. CASE m # req[r].row
    BY <1>1, <1>3, <1>8, <2>1 DEF AssignCommit, TypeOK
  <2>2. CASE m = req[r].row
    BY <1>1, <1>2, <1>3, <1>8, <2>2 DEF AssignCommit, MediaRow, TypeOK
  <2>. QED BY <2>1, <2>2
<1>9. ASSUME NEW c \in Campaign, Drop(c) PROVE P
  BY <1>1, <1>2, <1>3, <1>9 DEF Drop, MediaRow
<1>10. CASE UNCHANGED media
  BY <1>3, <1>10
<1>. QED
  BY <1>4, <1>5, <1>6, <1>7, <1>8, <1>9, <1>10
  DEF Next, Begin, Continue, Upload, Delete, Unstore, PublishLoad, Publish, OwnPost, SyncFetch, Create,
      Assign, Map, MapCommit, Referral, Register, TagCommit, Fail, photos, vars

\* The unique index lets no second row have a post.
LEMMA PostsStep == TypeOK /\ PostsOnce /\ [Next]_vars => PostsOnce'
<1> SUFFICES ASSUME TypeOK, PostsOnce, [Next]_vars, NEW m \in Rows', NEW n \in Rows',
                    media'[m].post # None, media'[m].post = media'[n].post
             PROVE  m = n
  BY DEF PostsOnce
<1>1. ASSUME NEW r \in Request, NEW x \in Rows', NEW y \in Rows', Posted(r, x),
             media'[x].post = media'[y].post
      PROVE  x = y
  <2>1. media[x] \in MediaRow /\ media'[x].post = req[r].post
    BY <1>1, RowShape DEF Rows, TypeOK, MediaRow, Posted
  <2>2. CASE x # y
    <3>1. media'[y] = media[y] /\ y \in Rows
      BY <1>1, <2>2 DEF Rows, TypeOK, Posted
    <3>. QED BY <1>1, <2>1, <3>1 DEF RowOf, Posted
  <2>. QED BY <2>2
<1>2. ASSUME NEW r \in Request, NEW x \in Rows', NEW y \in Rows', Added(r, x),
             media'[x].post # None, media'[x].post = media'[y].post
      PROVE  x = y
  <2>1. CASE y \in Rows /\ media'[y].post = media[y].post
    BY <1>2, <2>1 DEF RowOf, Added
  <2>2. ASSUME NEW q \in Request, Posted(q, y) PROVE x = y
    BY <1>1, <1>2, <2>2
  <2>3. ASSUME NEW q \in Request, Added(q, y) PROVE x = y
    BY <1>2, <2>3 DEF Added
  <2>. QED BY <1>2, <2>1, <2>2, <2>3, PostStep
<1>3. m = n \/ (m \in Rows /\ media'[m].post = media[m].post)
  <2>1. ASSUME NEW r \in Request, Posted(r, m) \/ Added(r, m) PROVE m = n
    BY <1>1, <1>2, <2>1
  <2>2. \/ m \in Rows /\ media'[m].post = media[m].post
        \/ media'[m].post = None
        \/ \E r \in Request : Posted(r, m) \/ Added(r, m)
    BY PostStep
  <2>. QED BY <2>1, <2>2
<1>4. m = n \/ (n \in Rows /\ media'[n].post = media[n].post)
  <2>1. ASSUME NEW r \in Request, Posted(r, n) \/ Added(r, n) PROVE m = n
    BY <1>1, <1>2, <2>1
  <2>2. \/ n \in Rows /\ media'[n].post = media[n].post
        \/ media'[n].post = None
        \/ \E r \in Request : Posted(r, n) \/ Added(r, n)
    BY PostStep
  <2>. QED BY <2>1, <2>2
<1>. QED BY <1>3, <1>4 DEF PostsOnce

\* A row after a step has its campaign from before, none, or one that is there; the
\* one that is deleted is taken out of it.
LEMMA CampaignStep ==
  ASSUME TypeOK, [Next]_vars, NEW m \in Rows'
  PROVE  \/ /\ m \in Rows /\ media'[m].campaign = media[m].campaign
            /\ \A c \in Campaign : Drop(c) => media[m].campaign # c
         \/ media'[m].campaign = None
         \/ Exists(media'[m].campaign) /\ ~\E c \in Campaign : Drop(c)
<1> DEFINE P == \/ /\ m \in Rows /\ media'[m].campaign = media[m].campaign
                   /\ \A c \in Campaign : Drop(c) => media[m].campaign # c
                \/ media'[m].campaign = None
                \/ Exists(media'[m].campaign) /\ ~\E c \in Campaign : Drop(c)
<1>1. m \in Photo \cup Post /\ media'[m] \notin {None, Gone}
  BY DEF Rows
<1>2. m \in Rows => media[m] \in MediaRow
  BY <1>1, RowShape
<1>3. ASSUME NEW c \in Campaign, Drop(c) PROVE P
  <2>1. media' = [x \in Photo \cup Post |-> IF x \in Rows /\ media[x].campaign = c
                                            THEN [media[x] EXCEPT !.campaign = None] ELSE media[x]]
    BY <1>3 DEF Drop
  <2>2. m \in Rows
    BY <1>1, <2>1 DEF Rows
  <2>3. CASE media[m].campaign = c
    BY <1>1, <1>2, <2>1, <2>2, <2>3 DEF MediaRow
  <2>4. CASE media[m].campaign # c
    <3>1. ASSUME NEW d \in Campaign, Drop(d), d # c PROVE FALSE
      BY <1>3, <3>1 DEF Drop, Exists, TypeOK
    <3>. QED BY <1>1, <1>3, <2>1, <2>2, <2>4, <3>1
  <2>. QED BY <2>3, <2>4
<1>4. CASE ~\E c \in Campaign : Drop(c)
  <2>1. CASE media'[m] = media[m]
    BY <1>1, <1>4, <2>1 DEF Rows
  <2>2. ASSUME NEW r \in Request, UploadCommit(r) PROVE P
    <3>1. req[r].photo \in Photo
      BY <2>2, PendingShape DEF UploadCommit
    <3>. QED BY <1>1, <2>1, <2>2, <3>1 DEF UploadCommit, UploadedRow, TypeOK
  <2>3. ASSUME NEW r \in Request, DeleteCommit(r) PROVE P
    BY <1>1, <2>1, <2>3, PendingShape DEF DeleteCommit, TypeOK
  <2>4. ASSUME NEW r \in Request, Record(r) PROVE P
    <3>1. CASE m # req[r].photo
      BY <1>1, <2>1, <2>4, <3>1 DEF Record, TypeOK
    <3>2. CASE m = req[r].photo
      <4>1. m \in Rows
        BY <1>1, <2>4, <3>2, ShopAssumption DEF Record, TypeOK, Rows
      <4>. QED BY <1>1, <1>2, <1>4, <2>4, <3>2, <4>1 DEF Record, MediaRow, TypeOK
    <3>. QED BY <3>1, <3>2
  <2>5. ASSUME NEW r \in Request, SyncCommit(r) PROVE P
    <3>1. media'[m] = Synced(m, req[r].page)
      BY <1>1, <2>5 DEF SyncCommit
    <3>. QED BY <2>1, <3>1 DEF Synced
  <2>6. ASSUME NEW r \in Request, AssignCommit(r) PROVE P
    <3>1. CASE m # req[r].row
      BY <1>1, <2>1, <2>6, <3>1 DEF AssignCommit, TypeOK
    <3>2. CASE m = req[r].row
      BY <1>1, <1>2, <1>4, <2>1, <2>6, <3>2 DEF AssignCommit, MediaRow, TypeOK
    <3>. QED BY <3>1, <3>2
  <2>7. CASE UNCHANGED media
    BY <2>1, <2>7
  <2>. QED
    BY <1>4, <2>2, <2>3, <2>4, <2>5, <2>6, <2>7
    DEF Next, Begin, Continue, Upload, Delete, Unstore, PublishLoad, Publish, OwnPost, SyncFetch, Create,
        Assign, Map, MapCommit, Referral, Register, TagCommit, Fail, photos, vars
<1>. QED BY <1>3, <1>4

\* A campaign stays until it is deleted.
LEMMA ExistsStep ==
  ASSUME TypeOK, [Next]_vars, NEW c, Exists(c), ~Drop(c)
  PROVE  Exists(c)'
<1> USE ShopAssumption
<1>1. c \in Campaign /\ campaigns[c] # "absent"
  BY DEF Exists
<1>2. ASSUME NEW r \in Request, Record(r) PROVE campaigns'[c] # "absent"
  BY <1>1, <1>2, PendingShape DEF Record, TypeOK
<1>3. ASSUME NEW d \in Campaign, Create(d) PROVE campaigns'[c] # "absent"
  BY <1>1, <1>3 DEF Create, TypeOK
<1>4. ASSUME NEW d \in Campaign, Drop(d) PROVE campaigns'[c] # "absent"
  BY <1>1, <1>4 DEF Drop, TypeOK
<1>5. ASSUME UNCHANGED campaigns PROVE campaigns'[c] # "absent"
  BY <1>1, <1>5
<1>6. campaigns'[c] # "absent"
  BY <1>2, <1>3, <1>4, <1>5
  DEF Next, Begin, Continue, Upload, Delete, Unstore, PublishLoad, Publish, OwnPost, SyncFetch, Assign,
      Map, MapCommit, Referral, Register, TagCommit, Fail, UploadCommit, DeleteCommit, SyncCommit,
      AssignCommit, vars
<1>. QED BY <1>1, <1>6 DEF Exists

LEMMA KeptStep == TypeOK /\ PhotosKept /\ AdsKept /\ [Next]_vars => PhotosKept' /\ AdsKept'
<1> SUFFICES ASSUME TypeOK, PhotosKept, AdsKept, [Next]_vars PROVE PhotosKept' /\ AdsKept'
  OBVIOUS
<1>1. ASSUME NEW m \in Rows', media'[m].campaign # None
      PROVE  media'[m].campaign \in Campaign /\ campaigns'[media'[m].campaign] # "absent"
  BY <1>1, CampaignStep, ExistsStep DEF PhotosKept, Exists
<1>2. ASSUME NEW ad \in Ad, links'[ad] \in Campaign PROVE campaigns'[links'[ad]] # "absent"
  <2>1. ASSUME NEW c \in Campaign, Drop(c) PROVE campaigns'[links'[ad]] # "absent"
    <3>1. links'[ad] = links[ad] /\ links[ad] # c
      BY <1>2, <2>1, ShopAssumption DEF Drop
    <3>2. Exists(links[ad])
      BY <1>2, <3>1 DEF AdsKept
    <3>3. ~Drop(links[ad])
      BY <1>2, <2>1, <3>1 DEF Drop, Exists, TypeOK
    <3>4. Exists(links[ad])'
      BY <3>2, <3>3, <2>1, <3>1 DEF Drop, Exists, TypeOK
    <3>. QED BY <3>1, <3>4 DEF Exists
  <2>2. CASE ~\E c \in Campaign : Drop(c)
    <3>1. Exists(links'[ad])
      <4>1. ASSUME NEW r \in Request, MapCommit(r) PROVE Exists(links'[ad])
        BY <1>2, <4>1, ShopAssumption DEF MapCommit, AdsKept, TypeOK
      <4>2. ASSUME NEW r \in Request, TagCommit(r) PROVE Exists(links'[ad])
        BY <1>2, <4>2, ShopAssumption DEF TagCommit, AdsKept, TypeOK
      <4>3. CASE UNCHANGED links
        BY <1>2, <4>3 DEF AdsKept
      <4>. QED
        BY <2>2, <4>1, <4>2, <4>3
        DEF Next, Begin, Continue, Upload, Delete, Unstore, PublishLoad, Publish, OwnPost, SyncFetch, Create,
            Assign, Map, Referral, Register, Fail, UploadCommit, DeleteCommit, Record, SyncCommit,
            AssignCommit, ads, vars
    <3>. QED BY <1>2, <2>2, <3>1, ExistsStep DEF Exists
  <2>. QED BY <2>1, <2>2
<1>. QED BY <1>1, <1>2 DEF PhotosKept, AdsKept, Exists

\* No post has two rows, and nothing names a campaign that is gone: the foreign keys
\* and the unique index are enough for the steps the code takes.
THEOREM PanelStaysConsistent == Spec => []PanelIsConsistent
<1>1. Init => TypeOK /\ PostsOnce /\ PhotosKept /\ AdsKept
  BY ShopAssumption DEF Init, TypeOK, Pending, Idle, PostsOnce, PhotosKept, AdsKept, Rows
<1>2. PostsOnce /\ PhotosKept /\ AdsKept => PanelIsConsistent
  BY DEF PostsOnce, PhotosKept, AdsKept, PanelIsConsistent
<1>. QED BY <1>1, <1>2, TypeStep, PostsStep, KeptStep, PTL DEF Spec

-----------------------------------------------------------------------------
(* Staff are told of an ad once *)

\* A batch that found the ad finds it until it commits; one that did not has its
\* index entry, and nobody else registers the ad meanwhile.
Registering ==
  /\ \A r \in Request : req[r].op \in {"referral", "tagged"} /\ req[r].known => links[req[r].ad] # None
  /\ \A r \in Request :
       req[r].op = "tagged" /\ ~req[r].known => held[req[r].ad] = r /\ links[req[r].ad] = None
  /\ \A ad \in byHand : links[ad] # None

\* How a batch comes to look an ad up, and to have it.
LEMMA BatchStep ==
  ASSUME TypeOK, [Next]_vars, NEW r \in Request
  PROVE  /\ req'[r].op = "referral" =>
              \/ req'[r] = req[r]
              \/ \E h \in Chat, ad \in Ad :
                   /\ Referral(r, h, ad)
                   /\ req'[r] = [op |-> "referral", chat |-> h, ad |-> ad, known |-> links[ad] # None]
         /\ req'[r].op = "tagged" =>
              \/ req'[r] = req[r] /\ ~TagCommit(r) /\ ~Fail(r)
              \/ /\ Register(r) /\ req[r].op = "referral"
                 /\ req'[r].known = req[r].known /\ req'[r].ad = req[r].ad
<1> DEFINE P == /\ req'[r].op = "referral" =>
                     \/ req'[r] = req[r]
                     \/ \E h \in Chat, ad \in Ad :
                          /\ Referral(r, h, ad)
                          /\ req'[r] = [op |-> "referral", chat |-> h, ad |-> ad, known |-> links[ad] # None]
                /\ req'[r].op = "tagged" =>
                     \/ req'[r] = req[r] /\ ~TagCommit(r) /\ ~Fail(r)
                     \/ /\ Register(r) /\ req[r].op = "referral"
                        /\ req'[r].known = req[r].known /\ req'[r].ad = req[r].ad
<1>1. TagCommit(r) \/ Fail(r) => req'[r] = Idle
  BY DEF TagCommit, Fail, Close, Goto, TypeOK
<1>2. CASE req'[r] = req[r]
  BY <1>1, <1>2 DEF Idle
<1>3. CASE req'[r].op \notin {"referral", "tagged"}
  BY <1>3
<1>4. CASE req'[r] = Idle
  BY <1>3, <1>4 DEF Idle
<1>5. ASSUME NEW q \in Request, NEW h \in Chat, NEW ad \in Ad, Referral(q, h, ad) PROVE P
  <2>1. CASE q = r
    <3>1. req'[r] = [op |-> "referral", chat |-> h, ad |-> ad, known |-> links[ad] # None]
      BY <1>5, <2>1 DEF Referral, Open, TypeOK
    <3>. QED BY <1>5, <2>1, <3>1
  <2>2. CASE q # r
    <3>1. req'[r] = req[r]
      BY <1>5, <2>2 DEF Referral, Open, TypeOK
    <3>. QED BY <1>2, <3>1
  <2>. QED BY <2>1, <2>2
<1>6. ASSUME NEW q \in Request, Register(q) PROVE P
  <2>1. req[q] \in [op : {"referral", "tagged"}, chat : Chat, ad : Ad, known : BOOLEAN]
    BY <1>6 DEF Register, TypeOK, Pending, Idle
  <2>2. CASE q = r
    <3>1. \/ req'[r] = Idle
          \/ req'[r] = [req[r] EXCEPT !.op = "tagged"]
      BY <1>6, <2>2 DEF Register, Tagged, Close, Goto, TypeOK
    <3>2. CASE req'[r] = [req[r] EXCEPT !.op = "tagged"]
      <4>1. req'[r].op = "tagged" /\ req'[r].known = req[r].known /\ req'[r].ad = req[r].ad
        BY <2>1, <2>2, <3>2
      <4>. QED BY <1>6, <2>2, <4>1 DEF Register
    <3>. QED BY <1>4, <3>1, <3>2
  <2>3. CASE q # r
    <3>1. req'[r] = req[r]
      BY <1>6, <2>3 DEF Register, Tagged, Close, Goto, TypeOK
    <3>. QED BY <1>2, <3>1
  <2>. QED BY <2>2, <2>3
<1> HIDE DEF P
<1>7. ASSUME NEW q \in Request, NEW photo \in Photo, Upload(q, photo) \/ Delete(q, photo)
      PROVE  req'[r] = req[r] \/ req'[r].op \in {"upload", "delete"}
  BY <1>7 DEF Upload, Delete, Open, TypeOK
<1>8. ASSUME NEW q \in Request, NEW photo \in Photo, NEW c \in Campaign \cup {None}, PublishLoad(q, photo, c)
      PROVE  req'[r] = req[r] \/ req'[r].op = "publish"
  BY <1>8 DEF PublishLoad, Open, TypeOK
<1>9. ASSUME NEW q \in Request, SyncFetch(q) PROVE req'[r] = req[r] \/ req'[r].op = "sync"
  <2>1. PICK page : req' = [req EXCEPT ![q] = [op |-> "sync", page |-> page]]
    BY <1>9 DEF SyncFetch, Open
  <2>. QED BY <2>1 DEF TypeOK
<1>10. ASSUME NEW q \in Request, NEW m \in Photo \cup Post, NEW c \in Campaign \cup {None}, Assign(q, m, c)
       PROVE  req'[r] = req[r] \/ req'[r].op = "assign"
  BY <1>10 DEF Assign, Open, TypeOK
<1>11. ASSUME NEW q \in Request, NEW ad \in Ad, NEW c \in Campaign \cup {Unmapped}, Map(q, ad, c)
       PROVE  req'[r] = req[r] \/ req'[r].op = "map"
  BY <1>11 DEF Map, Open, TypeOK
<1>12. ASSUME NEW q \in Request, DeleteCommit(q) \/ Publish(q)
       PROVE  req'[r] \in {req[r], Idle} \/ req'[r].op \in {"unstore", "record"}
  BY <1>12 DEF DeleteCommit, Publish, Close, Goto, TypeOK
<1>13. ASSUME NEW q \in Request,
              \/ UploadCommit(q) \/ Unstore(q) \/ Record(q) \/ SyncCommit(q) \/ AssignCommit(q)
              \/ MapCommit(q) \/ TagCommit(q) \/ Fail(q)
       PROVE  req'[r] = req[r] \/ req'[r] = Idle
  BY <1>13 DEF UploadCommit, Unstore, Record, SyncCommit, AssignCommit, MapCommit, TagCommit, Fail, Close,
               Goto, TypeOK
<1>14. CASE UNCHANGED req
  BY <1>2, <1>14
<1>15. ASSUME NEW k \in {"upload", "delete", "publish", "sync", "assign", "map", "unstore", "record"},
              req'[r].op = k
       PROVE  P
  BY <1>3, <1>15 DEF P
<1>16. P
  BY <1>2, <1>4, <1>5, <1>6, <1>7, <1>8, <1>9, <1>10, <1>11, <1>12, <1>13, <1>14, <1>15
  DEF Next, Begin, Continue, OwnPost, Create, Drop, vars, P
<1>. QED BY <1>16 DEF P

\* An ad stays registered.
LEMMA LinksStay ==
  ASSUME TypeOK, [Next]_vars, NEW ad \in Ad, links[ad] # None
  PROVE  links'[ad] # None
<1>1. ASSUME NEW r \in Request, MapCommit(r) PROVE links'[ad] # None
  BY <1>1, PendingShape, ShopAssumption DEF MapCommit, TypeOK
<1>2. ASSUME NEW r \in Request, TagCommit(r) PROVE links'[ad] # None
  BY <1>2, ShopAssumption DEF TagCommit, TypeOK
<1>3. ASSUME NEW c \in Campaign, Drop(c) PROVE links'[ad] # None
  BY <1>3, ShopAssumption DEF Drop
<1>4. ASSUME UNCHANGED links PROVE links'[ad] # None
  BY <1>4
<1>. QED
  BY <1>1, <1>2, <1>3, <1>4
  DEF Next, Begin, Continue, Upload, Delete, Unstore, PublishLoad, Publish, OwnPost, SyncFetch, Create,
      Assign, Map, Referral, Register, Fail, UploadCommit, DeleteCommit, Record, SyncCommit, AssignCommit,
      ads, vars

\* While a batch has an ad's index entry, only that batch registers the ad.
LEMMA HeldStep ==
  ASSUME TypeOK, Registering, [Next]_vars, NEW r \in Request, NEW ad \in Ad,
         held[ad] = r, links[ad] = None, ~TagCommit(r), ~Fail(r)
  PROVE  held'[ad] = r /\ links'[ad] = None
<1> DEFINE P == held'[ad] = r /\ links'[ad] = None
<1>1. r # None
  BY ShopAssumption
<1>2. ASSUME NEW q \in Request, MapCommit(q) PROVE P
  BY <1>1, <1>2, PendingShape DEF MapCommit, TypeOK
<1>3. ASSUME NEW q \in Request, TagCommit(q) PROVE P
  <2>1. req[q].ad \in Ad /\ req[q].known \in BOOLEAN /\ q # r
    BY <1>3, PendingShape DEF TagCommit
  <2>2. CASE req[q].known
    BY <1>3, <2>2 DEF TagCommit
  <2>3. CASE ~req[q].known
    <3>1. req[q].ad # ad
      BY <1>3, <2>1, <2>3 DEF TagCommit, Registering
    <3>. QED BY <1>3, <2>1, <2>3, <3>1 DEF TagCommit, TypeOK
  <2>. QED BY <2>1, <2>2, <2>3
<1>4. ASSUME NEW q \in Request, Register(q) PROVE P
  BY <1>1, <1>4, PendingShape DEF Register, TypeOK
<1>5. ASSUME NEW q \in Request, Fail(q) PROVE P
  BY <1>5 DEF Fail, TypeOK
<1>6. ASSUME NEW c \in Campaign, Drop(c) PROVE P
  BY <1>6, ShopAssumption DEF Drop
<1>7. CASE UNCHANGED <<links, held>>
  BY <1>7
<1>. QED
  BY <1>2, <1>3, <1>4, <1>5, <1>6, <1>7
  DEF Next, Begin, Continue, Upload, Delete, Unstore, PublishLoad, Publish, OwnPost, SyncFetch, Create,
      Assign, Map, Referral, UploadCommit, DeleteCommit, Record, SyncCommit, AssignCommit, ads, vars

\* Staff register an ad by hand, and that is noted with it.
LEMMA ByHandStep ==
  ASSUME TypeOK, Registering, [Next]_vars
  PROVE  \A ad \in byHand' : links'[ad] # None
<1> USE ShopAssumption
<1>1. ASSUME NEW r \in Request, MapCommit(r) PROVE \A ad \in byHand' : links'[ad] # None
  <2>1. req[r].ad \in Ad /\ req[r].campaign \in Campaign \cup {Unmapped}
    BY <1>1, PendingShape DEF MapCommit
  <2>. QED BY <1>1, <2>1 DEF MapCommit, Registering, TypeOK
<1>2. CASE UNCHANGED byHand
  BY <1>2, LinksStay DEF Registering, TypeOK
<1>. QED
  BY <1>1, <1>2
  DEF Next, Begin, Continue, Upload, Delete, Unstore, PublishLoad, Publish, OwnPost, SyncFetch, Create, Drop,
      Assign, Map, Referral, Register, TagCommit, Fail, UploadCommit, DeleteCommit, Record, SyncCommit,
      AssignCommit, ads, vars

LEMMA RegisteringStep == TypeOK /\ Registering /\ [Next]_vars => Registering'
<1> SUFFICES ASSUME TypeOK, Registering, [Next]_vars PROVE Registering'
  OBVIOUS
<1>1. ASSUME NEW r \in Request, req'[r].op \in {"referral", "tagged"}, req'[r].known
      PROVE  links'[req'[r].ad] # None
  <2>1. ASSUME NEW k \in {"referral", "tagged"}, req[r].op = k, req[r].known
        PROVE  links'[req[r].ad] # None
    BY <2>1, PendingShape, LinksStay DEF Registering
  <2>2. CASE req'[r].op = "referral"
    <3>1. CASE req'[r] = req[r]
      BY <1>1, <2>1, <3>1
    <3>2. ASSUME NEW h \in Chat, NEW ad \in Ad, Referral(r, h, ad),
                 req'[r] = [op |-> "referral", chat |-> h, ad |-> ad, known |-> links[ad] # None]
          PROVE  links'[req'[r].ad] # None
      <4>1. req'[r].ad = ad /\ req'[r].known = (links[ad] # None)
        BY <3>2
      <4>2. links[ad] # None
        BY <1>1, <4>1
      <4>. QED BY <4>1, <4>2, LinksStay
    <3>. QED BY <2>2, <3>1, <3>2, BatchStep
  <2>3. CASE req'[r].op = "tagged"
    BY <1>1, <2>1, <2>3, BatchStep
  <2>. QED BY <1>1, <2>2, <2>3
<1>2. ASSUME NEW r \in Request, req'[r].op = "tagged", ~req'[r].known
      PROVE  held'[req'[r].ad] = r /\ links'[req'[r].ad] = None
  <2>1. CASE req'[r] = req[r] /\ ~TagCommit(r) /\ ~Fail(r)
    <3>1. req[r].ad \in Ad /\ held[req[r].ad] = r /\ links[req[r].ad] = None
      BY <1>2, <2>1, PendingShape DEF Registering
    <3>. QED BY <2>1, <3>1, HeldStep
  <2>2. CASE Register(r) /\ req[r].op = "referral" /\ req'[r].known = req[r].known /\ req'[r].ad = req[r].ad
    <3>1. req[r].ad \in Ad /\ req'[r] # Idle
      BY <1>2, <2>2, PendingShape DEF Idle
    <3>2. ~Close(r)
      BY <3>1 DEF Close, Goto, TypeOK
    <3>. QED BY <1>2, <2>2, <3>1, <3>2 DEF Register, TypeOK
  <2>. QED BY <1>2, <2>1, <2>2, BatchStep
<1>. QED BY <1>1, <1>2, ByHandStep DEF Registering

\* What is told and registered changes together.
LEMMA ToldStep == TypeOK /\ Registering /\ AdToldOnce /\ [Next]_vars => AdToldOnce'
<1> SUFFICES ASSUME TypeOK, Registering, AdToldOnce, [Next]_vars PROVE AdToldOnce'
  OBVIOUS
<1> USE ShopAssumption
<1>1. ASSUME NEW r \in Request, MapCommit(r) PROVE AdToldOnce'
  <2>1. req[r].ad \in Ad /\ req[r].campaign \in Campaign \cup {Unmapped}
    BY <1>1, PendingShape DEF MapCommit
  <2>2. \A ad \in Ad : told[ad] = told'[ad]
    BY <1>1 DEF MapCommit
  <2>3. \A ad \in Ad : links'[ad] # None /\ ad \notin byHand' <=> links[ad] # None /\ ad \notin byHand
    BY <1>1, <2>1 DEF MapCommit, TypeOK
  <2>4. \A h \in Chat : chats'[h] # None => links'[chats'[h]] # None
    BY <1>1, LinksStay DEF MapCommit, AdToldOnce, TypeOK
  <2>. QED BY <2>2, <2>3, <2>4 DEF AdToldOnce
<1>2. ASSUME NEW r \in Request, TagCommit(r) PROVE AdToldOnce'
  <2>1. req[r].ad \in Ad /\ req[r].chat \in Chat /\ req[r].known \in BOOLEAN
    BY <1>2, PendingShape DEF TagCommit
  <2>2. links'[req[r].ad] # None
    <3>1. CASE req[r].known
      BY <1>2, <2>1, <3>1, LinksStay DEF TagCommit, Registering
    <3>2. CASE ~req[r].known
      <4>1. links' = [links EXCEPT ![req[r].ad] = IF @ = None THEN Unmapped ELSE @]
        BY <1>2, <3>2 DEF TagCommit
      <4>2. Unmapped # None
        OBVIOUS
      <4>. QED BY <2>1, <4>1, <4>2 DEF TypeOK
    <3>. QED BY <2>1, <3>1, <3>2
  <2>3. \A h \in Chat : chats'[h] # None => links'[chats'[h]] # None
    BY <1>2, <2>1, <2>2, LinksStay DEF TagCommit, AdToldOnce, TypeOK
  <2>4. \A ad \in Ad : told'[ad] = IF links'[ad] # None /\ ad \notin byHand' THEN 1 ELSE 0
    <3>1. CASE req[r].known
      BY <1>2, <3>1 DEF TagCommit, AdToldOnce
    <3>2. CASE ~req[r].known
      <4>1. links[req[r].ad] = None /\ req[r].ad \notin byHand /\ told[req[r].ad] = 0
        BY <1>2, <2>1, <3>2 DEF TagCommit, Registering, AdToldOnce
      <4>. QED BY <1>2, <2>1, <3>2, <4>1 DEF TagCommit, AdToldOnce, TypeOK
    <3>. QED BY <2>1, <3>1, <3>2
  <2>. QED BY <2>3, <2>4 DEF AdToldOnce
<1>3. ASSUME NEW c \in Campaign, Drop(c) PROVE AdToldOnce'
  <2>1. \A ad \in Ad : links'[ad] # None <=> links[ad] # None
    BY <1>3 DEF Drop
  <2>. QED BY <1>3, <2>1 DEF Drop, AdToldOnce, TypeOK
<1>4. CASE UNCHANGED <<links, chats, told, byHand>>
  BY <1>4 DEF AdToldOnce
<1>. QED
  BY <1>1, <1>2, <1>3, <1>4
  DEF Next, Begin, Continue, Upload, Delete, Unstore, PublishLoad, Publish, OwnPost, SyncFetch, Create,
      Assign, Map, Referral, Register, Fail, UploadCommit, DeleteCommit, Record, SyncCommit, AssignCommit,
      ads, vars

\* Staff are told once of an ad they did not register, however many chats open from
\* it at once, and a chat points at a registered ad.
THEOREM AdIsToldOnce == Spec => []AdToldOnce
<1>1. Init => TypeOK /\ Registering /\ AdToldOnce
  BY DEF Init, TypeOK, Pending, Idle, Registering, AdToldOnce
<1>. QED BY <1>1, TypeStep, RegisteringStep, ToldStep, PTL DEF Spec
=============================================================================
