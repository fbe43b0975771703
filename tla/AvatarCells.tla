---------------------------- MODULE AvatarCells -----------------------------
(***************************************************************************)
(* The pictures of the Users tab: table cells are reused for other users,  *)
(* a picture comes from the cache or from a download that ends whenever it *)
(* likes, and the main queue sets it on the cell that asked.               *)
(* (UIImageView.downloadImage, PeopleTableControllerCustomCell.loadUser,   *)
(* PeopleController's cellForRowAt.)  A picture is named by its user; the  *)
(* table view, NSCache and URLSession are modelled from their use.         *)
(***************************************************************************)
EXTENDS Naturals, FiniteSets, SequencesExt, FiniteSetsExt

CONSTANTS Cells, People,
          NoURL,          \* users whose profileImageUrl is no URL
          Nobody,        \* no user, no picture
          MaxDownloads    \* bound: downloads under way or waiting to be shown

ASSUME AvatarAssumption == /\ NoURL \subseteq People
                           /\ Nobody \notin People
                           /\ MaxDownloads \in Nat

VARIABLES user,       \* whose row a cell shows
          image,      \* avatar.image
          cache,      \* Api.ImageCache.cache
          downloads,  \* data tasks under way
          main,       \* blocks dispatched to the main queue
          spoilt      \* cells whose row need not get its picture: why

avatarVars == <<user, image, cache, downloads, main, spoilt>>

Asked(c) == {d \in downloads \cup Range(main) : d.cell = c}
UnderWay == Cardinality(downloads) + Len(main)

Download == [cell : Cells, user : People \ NoURL, number : 1 .. MaxDownloads]

(* Downloads of one picture for one cell are told apart by a number.       *)
Another(c, u) ==
    CHOOSE d \in Download : d.cell = c /\ d.user = u /\ d \notin downloads \cup Range(main)

AvatarInit == /\ user = [c \in Cells |-> Nobody]
              /\ image = [c \in Cells |-> Nobody]
              /\ cache = {} /\ downloads = {} /\ main = <<>>
              /\ spoilt = [c \in Cells |-> {}]

(* Fault: the cached picture is not shown when the row's text is set. *)
ShowWithoutCache(c, u) ==
    /\ UnderWay < MaxDownloads \/ u \in cache \cup NoURL
    /\ user' = [user EXCEPT ![c] = u]
    /\ IF u \in cache \cup NoURL
       THEN UNCHANGED downloads
       ELSE downloads' = downloads \cup {Another(c, u)}
    /\ spoilt' = [spoilt EXCEPT ![c] = (IF Asked(c) # {} THEN {"reused"} ELSE {})
                                       \cup (IF u \in NoURL THEN {"no url"} ELSE {})]
    /\ UNCHANGED <<image, cache, main>>

(* cellForRowAt: a cell is taken for a user's row.  Its old picture stays  *)
(* until a new one is set.  A cell is spoilt when an earlier download of   *)
(* it has not ended, or when there is no URL to load.                      *)
ShowRow(c, u) ==
    /\ UnderWay < MaxDownloads \/ u \in cache \cup NoURL
    /\ user' = [user EXCEPT ![c] = u]
    /\ IF u \in cache
       THEN image' = [image EXCEPT ![c] = u] /\ UNCHANGED downloads
       ELSE /\ UNCHANGED image
            /\ downloads' = downloads \cup IF u \in NoURL THEN {} ELSE {Another(c, u)}
    /\ spoilt' = [spoilt EXCEPT ![c] = (IF Asked(c) # {} THEN {"reused"} ELSE {})
                                       \cup (IF u \in NoURL THEN {"no url"} ELSE {})]
    /\ UNCHANGED <<cache, main>>

(* Fault: the picture is cached but not shown. *)
ArrivesForCache(d) ==
    /\ d \in downloads
    /\ downloads' = downloads \ {d}
    /\ cache' = cache \cup {d.user}
    /\ UNCHANGED <<user, image, main, spoilt>>

(* The end of a data task, on URLSession's queue.                          *)
Arrives(d) ==
    /\ d \in downloads
    /\ downloads' = downloads \ {d}
    /\ cache' = cache \cup {d.user}
    /\ main' = Append(main, d)
    /\ UNCHANGED <<user, image, spoilt>>

(* An error, another status than 200 or data that is no image: nothing is  *)
(* done, and nobody asks again.                                            *)
Fails(d) ==
    /\ d \in downloads
    /\ downloads' = downloads \ {d}
    /\ spoilt' = [spoilt EXCEPT ![d.cell] = @ \cup {"failed"}]
    /\ UNCHANGED <<user, image, cache, main>>

(* The block on the main queue sets the picture on the cell that asked.    *)
SetImage ==
    /\ main # <<>>
    /\ main' = Tail(main)
    /\ image' = [image EXCEPT ![Head(main).cell] = Head(main).user]
    /\ UNCHANGED <<user, cache, downloads, spoilt>>

(* NSCache gives up an object whenever it likes.                           *)
Evict(u) ==
    /\ u \in cache
    /\ cache' = cache \ {u}
    /\ UNCHANGED <<user, image, downloads, main, spoilt>>

AvatarNext == \/ \E c \in Cells, u \in People : ShowRow(c, u)
              \/ \E d \in downloads : Arrives(d) \/ Fails(d)
              \/ SetImage
              \/ \E u \in People : Evict(u)

(* The main queue runs its blocks; every data task ends, URLSession's      *)
(* timeout sees to that.                                                   *)
AvatarFairness == /\ WF_avatarVars(SetImage)
                  /\ \A d \in Download : WF_avatarVars(Arrives(d) \/ Fails(d))

AvatarSpec == AvatarInit /\ [][AvatarNext]_avatarVars
AvatarFairSpec == AvatarSpec /\ AvatarFairness
-----------------------------------------------------------------------------
AvatarTypeOK == /\ user \in [Cells -> People \cup {Nobody}]
                /\ image \in [Cells -> People \cup {Nobody}]
                /\ cache \subseteq People \ NoURL
                /\ downloads \subseteq Download /\ main \in Seq(Download)
                /\ spoilt \in [Cells -> SUBSET {"reused", "no url", "failed"}]

(* A row shows somebody else's picture, or none, only while its own is     *)
(* under way, or because the cell was reused during a download, the        *)
(* download failed or there is no URL.                                     *)
WrongPictureHasReason ==
    \A c \in Cells : user[c] \notin {Nobody, image[c]}
        => spoilt[c] # {} \/ \E d \in Asked(c) : d.user = user[c]

(* The same, of cells that are in order.                                   *)
PicturesAreOwn == AvatarTypeOK /\ WrongPictureHasReason

(* A row gets its picture, or its cell is taken for another row, or there  *)
(* is a reason why not: even after the cache gave the picture up.          *)
PicturesArrive ==
    \A c \in Cells : user[c] # Nobody /\ user[c] # image[c]
                     ~> user[c] = image[c] \/ spoilt[c] # {}
=============================================================================
