------------------------------- MODULE Gallery -------------------------------
(***************************************************************************)
(* The pictures of one listing: the ProductImage rows (catalog/views.py,   *)
(* upload_images and delete_image), the two places that hold their bytes   *)
(* (media_store/storage.py: the disk, and a copy in the database), the     *)
(* view that serves them and the backfill_media command.                   *)
(*                                                                         *)
(* Both handlers run in autocommit mode, so every statement is a step.  A  *)
(* file's name is a fresh uuid: an image names its file.  Permission       *)
(* checks and the contents of a picture are left out; a placeholder is     *)
(* what backfill_media draws when the bytes are gone.                      *)
(***************************************************************************)
EXTENDS Naturals, FiniteSets, FiniteSetsExt

CONSTANTS MaxImages,    \* bound: images ever created
          Requests      \* request threads

VARIABLES image,        \* the ProductImage rows, by id
          disk,         \* the bytes under MEDIA_ROOT
          stored,       \* the bytes in StoredMedia
          req,          \* what each request has read and has left to do
          listed,       \* the rows backfill_media has still to look at, as read
          lost,         \* history: images whose only bytes were on a lost disk
          misread,      \* history: images whose stored copy a failed query hid
          diskLost,     \* history: a disk has been lost
          disturbed     \* history: requests overlapped, one broke off, or the
                        \*   command has written back a row that had changed

vars == <<image, disk, stored, req, listed, lost, misread, diskLost, disturbed>>

Ids == 1..MaxImages
Bytes == {"none", "picture", "placeholder"}

NoImage == [state |-> "unborn", primary |-> FALSE, order |-> 0]
Gone    == [state |-> "deleted", primary |-> FALSE, order |-> 0]

Idle == [pc |-> "idle", todo |-> 0, first |-> FALSE, lead |-> FALSE, order |-> 0, id |-> 0]

Init == /\ image = [i \in Ids |-> NoImage]
        /\ disk = [i \in Ids |-> "none"] /\ stored = [i \in Ids |-> "none"]
        /\ req = [r \in Requests |-> Idle]
        /\ listed = [i \in Ids |-> NoImage]
        /\ lost = {} /\ misread = {} /\ diskLost = FALSE /\ disturbed = FALSE

Live == {i \in Ids : image[i].state = "live"}
Primaries == {i \in Live : image[i].primary}

(* ProductImage.Meta.ordering *)
Before(i, j) == \/ image[i].order < image[j].order
                \/ image[i].order = image[j].order /\ i < j

MaxOrder == IF Live = {} THEN 0 ELSE Max({image[i].order : i \in Live})

Begin(r, work) == /\ req[r].pc = "idle"
                  /\ req' = [req EXCEPT ![r] = work]
                  /\ disturbed' = (disturbed \/ \E s \in Requests : req[s].pc # "idle")
                  /\ UNCHANGED <<image, disk, stored, listed, lost, misread, diskLost>>

End(r) == req' = [req EXCEPT ![r] = Idle]

-----------------------------------------------------------------------------
(***************************************************************************)
(* The storage.  Image rows are validated whenever they are saved, which   *)
(* opens their file; the copy in the database is looked up under           *)
(* get_valid_name(name), which drops the slashes of the name: it is never  *)
(* found, and only the disk counts.                                        *)
(***************************************************************************)
Opens(i) == disk[i] # "none"

(* _save, under a name that is new: the disk, then the database, whose     *)
(* failure is only logged.                                                 *)
Save(i, bytes) == /\ disk' = [disk EXCEPT ![i] = bytes]
                  /\ \E copy \in {"none", bytes} : stored' = [stored EXCEPT ![i] = copy]

(* serve_media_file looks the row up under the name itself. *)
Served(i) == IF disk[i] # "none" THEN disk[i] ELSE stored[i]

-----------------------------------------------------------------------------
(***************************************************************************)
(* upload_images: n files, the first of which leads if it is asked to or   *)
(* if there was no primary image.                                          *)
(***************************************************************************)
Rest(work) == IF work.todo = 0 THEN Idle
              ELSE [work EXCEPT !.pc = "create", !.first = FALSE, !.lead = FALSE, !.id = 0]

UploadRead(r, n, lead) ==
    Begin(r, [pc |-> "create", todo |-> n, first |-> TRUE, id |-> 0,
              lead |-> lead \/ Primaries = {}, order |-> MaxOrder])

UploadCreate(r) ==
    /\ req[r].pc = "create"
    /\ \E i \in Ids :
          /\ image[i].state = "unborn" /\ \A j \in 1..(i - 1) : image[j].state # "unborn"
          /\ image' = [image EXCEPT ![i] = [state |-> "live", primary |-> FALSE,
                                            order |-> req[r].order + 1]]
          /\ Save(i, "picture")
          /\ LET work == [req[r] EXCEPT !.todo = req[r].todo - 1, !.order = req[r].order + 1]
             IN req' = [req EXCEPT ![r] = IF work.first /\ work.lead
                                          THEN [work EXCEPT !.pc = "demote", !.id = i]
                                          ELSE Rest(work)]
    /\ UNCHANGED <<listed, lost, misread, diskLost, disturbed>>

UploadDemote(r) ==
    /\ req[r].pc = "demote"
    /\ image' = [i \in Ids |-> IF i # req[r].id THEN [image[i] EXCEPT !.primary = FALSE]
                               ELSE image[i]]
    /\ req' = [req EXCEPT ![r].pc = "promote"]
    /\ UNCHANGED <<disk, stored, listed, lost, misread, diskLost, disturbed>>

(* save(update_fields): fails if the row has gone, or cannot be validated. *)
Promote(r) ==
    LET i == req[r].id IN
    IF i \in Live /\ Opens(i)
    THEN image' = [image EXCEPT ![i].primary = TRUE] /\ req' = [req EXCEPT ![r] = Rest(@)]
    ELSE End(r) /\ UNCHANGED image

UploadPromote(r) == /\ req[r].pc = "promote"
                    /\ Promote(r)
                    /\ UNCHANGED <<disk, stored, listed, lost, misread, diskLost, disturbed>>

-----------------------------------------------------------------------------
(***************************************************************************)
(* delete_image: the row goes, its file stays; when it was the primary     *)
(* image the next one takes its place.                                     *)
(***************************************************************************)
DeleteRead(r, i) == /\ i \in Live
                    /\ Begin(r, [Idle EXCEPT !.pc = "delete", !.id = i,
                                             !.lead = image[i].primary])

MutDeleteRow(r) ==
    /\ req[r].pc = "delete"
    /\ image' = [image EXCEPT ![req[r].id] = Gone]
    /\ End(r)
    /\ UNCHANGED <<disk, stored, listed, lost, misread, diskLost, disturbed>>
DeleteRow(r) ==
    /\ req[r].pc = "delete"
    /\ image' = [image EXCEPT ![req[r].id] = Gone]
    /\ IF req[r].lead THEN req' = [req EXCEPT ![r] = [Idle EXCEPT !.pc = "next"]] ELSE End(r)
    /\ UNCHANGED <<disk, stored, listed, lost, misread, diskLost, disturbed>>

DeleteNext(r) ==
    /\ req[r].pc = "next"
    /\ \/ Live = {} /\ End(r)
       \/ \E i \in Live : /\ \A j \in Live \ {i} : Before(i, j)
                          /\ req' = [req EXCEPT ![r].pc = "promote", ![r].id = i]
    /\ UNCHANGED <<image, disk, stored, listed, lost, misread, diskLost, disturbed>>

-----------------------------------------------------------------------------
(* A redeploy without its disk, or a restored database: the processes die, *)
(* the files are gone.                                                     *)
LoseDisk == /\ \E i \in Ids : disk[i] # "none"
            /\ disk' = [i \in Ids |-> "none"]
            /\ req' = [r \in Requests |-> Idle]
            /\ listed' = [i \in Ids |-> NoImage]
            /\ lost' = lost \cup {i \in Ids : disk[i] = "picture" /\ stored[i] = "none"}
            /\ diskLost' = TRUE
            /\ disturbed' = (disturbed \/ \E r \in Requests : req[r].pc # "idle")
            /\ UNCHANGED <<image, stored, misread>>

Crash(r) == /\ req[r].pc # "idle"
            /\ End(r)
            /\ disturbed' = TRUE
            /\ UNCHANGED <<image, disk, stored, listed, lost, misread, diskLost>>

-----------------------------------------------------------------------------
(***************************************************************************)
(* backfill_media, of which one runs at a time.  Its first pass copies     *)
(* bytes that are on disk only; it is taken as a step of its own.          *)
(***************************************************************************)
BackfillDisk(i) ==
    /\ i \in Live
    /\ stored[i] = "none" /\ disk[i] # "none"
    /\ stored' = [stored EXCEPT ![i] = disk[i]]
    /\ UNCHANGED <<image, disk, req, listed, lost, misread, diskLost, disturbed>>

(* The second pass reads all rows at once.  Those whose bytes are on disk  *)
(* it will pass over: a disk goes only with the processes.                 *)
RegenerateBegin ==
    /\ \E i \in Live : disk[i] = "none"
    /\ \A i \in Ids : listed[i] = NoImage
    /\ listed' = [i \in Ids |-> IF i \in Live /\ disk[i] = "none" THEN image[i] ELSE NoImage]
    /\ UNCHANGED <<image, disk, stored, req, lost, misread, diskLost, disturbed>>

(* _bytes_available: any exception, such as a query that fails, is a "no". *)
MutBytesAvailable(i, failed) == disk[i] # "none"
BytesAvailable(i, failed) == disk[i] # "none" \/ (stored[i] # "none" /\ ~ failed)

(* Bytes that seem to be nowhere are replaced by a placeholder under a new *)
(* name, with a save of the whole row as it was read: what has become of   *)
(* it since is overwritten, a row that is gone is inserted again.          *)
RegenerateMissing(i, failed) ==
    /\ listed[i] # NoImage
    /\ listed' = [listed EXCEPT ![i] = NoImage]
    /\ \/ /\ BytesAvailable(i, failed)
          /\ UNCHANGED <<image, disk, stored, misread, disturbed>>
       \/ /\ ~ BytesAvailable(i, failed)
          /\ image' = [image EXCEPT ![i] = listed[i]]
          /\ Save(i, "placeholder")
          /\ misread' = IF failed /\ stored[i] # "none" THEN misread \cup {i} ELSE misread
          /\ disturbed' = (disturbed \/ image[i] # listed[i])
    /\ UNCHANGED <<req, lost, diskLost>>

RegenerateDies ==
    /\ \E i \in Ids : listed[i] # NoImage
    /\ listed' = [i \in Ids |-> NoImage]
    /\ UNCHANGED <<image, disk, stored, req, lost, misread, diskLost, disturbed>>

Next == \/ LoseDisk \/ RegenerateBegin \/ RegenerateDies
        \/ \E i \in Ids : \/ BackfillDisk(i)
                          \/ \E failed \in BOOLEAN : RegenerateMissing(i, failed)
        \/ \E r \in Requests :
              \/ \E n \in 1..2, lead \in BOOLEAN : UploadRead(r, n, lead)
              \/ UploadCreate(r) \/ UploadDemote(r) \/ UploadPromote(r)
              \/ \E i \in Ids : DeleteRead(r, i)
              \/ DeleteRow(r) \/ DeleteNext(r)
              \/ Crash(r)

Spec == Init /\ [][Next]_vars

-----------------------------------------------------------------------------
Row == [state : {"unborn", "live", "deleted"}, primary : BOOLEAN, order : Nat]

TypeOK == /\ image \in [Ids -> Row] /\ listed \in [Ids -> Row]
          /\ disk \in [Ids -> Bytes] /\ stored \in [Ids -> Bytes]
          /\ req \in [Requests ->
                         [pc : {"idle", "create", "demote", "promote", "delete", "next"},
                          todo : 0..2, first : BOOLEAN, lead : BOOLEAN, order : Nat,
                          id : 0..MaxImages]]
          /\ lost \subseteq Ids /\ misread \subseteq Ids /\ diskLost \in BOOLEAN /\ disturbed \in BOOLEAN

AtRest == \A r \in Requests : req[r].pc = "idle"

(* As long as the seller's requests come one after the other and the       *)
(* command writes no older row back over theirs, a listing never shows two *)
(* primary images, and exactly one while it has pictures and the disk      *)
(* stays, through every order of uploads and deletions (upload_images,     *)
(* delete_image, primary_or_first_image, regenerate_missing).              *)
OnePrimaryAtRest ==
    AtRest /\ ~ disturbed => /\ Cardinality(Primaries) <= 1
                             /\ ~ diskLost /\ Live # {} => Primaries # {}

(* A picture is served as it was uploaded, unless its only bytes were on a *)
(* disk that was lost, or backfill_media could not ask the database for    *)
(* its copy: nothing else is ever drawn over (serve_media_file,            *)
(* regenerate_missing).                                                    *)
PictureIsKept == \A i \in Live : Served(i) # "picture" => i \in lost \cup misread

-----------------------------------------------------------------------------
(***************************************************************************)
(* What the documentation says and the code does not keep.                 *)
(***************************************************************************)
(* "Deleting the primary image auto-promotes the next one": not once the   *)
(* disk copy of the next one is gone, since its file cannot be opened.     *)
PrimaryIsPromoted == AtRest /\ ~ disturbed /\ Live # {} => Primaries # {}

(* "If the disk copy is missing the bytes are served from StoredMedia":    *)
(* storage.open never finds them.                                          *)
StoredCanBeOpened == \A i \in Live : stored[i] # "none" => Opens(i)

(* "Regenerate any product/profile image whose bytes are missing from both *)
(* disk and the database": also one whose copy is there, but could not be  *)
(* looked up.                                                              *)
OnlyMissingIsRegenerated == \A i \in Live : Served(i) # "picture" => i \in lost
=============================================================================
