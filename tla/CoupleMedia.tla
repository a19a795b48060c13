------------------------------- MODULE CoupleMedia -------------------------------
(***************************************************************************)
(* The couple's photos and films: the page that uploads a folder of images  *)
(* to Cloudinary one by one, and the public gallery, which is filled from   *)
(* the shelves of Cloudinary and R2 and cached until somebody syncs it.     *)
(*                                                                          *)
(* An image that cannot be read, or is too large at every quality, and a    *)
(* file of another type are one failing image.                              *)
(***************************************************************************)
EXTENDS Naturals, FiniteSets, SiteSession

CONSTANTS
  Images,        \* files on the administrator's device, by their order
  PhotoShelves,  \* the Cloudinary folder of each category
  VideoShelves,  \* the R2 prefix of each category that has films
  FirstShelf     \* the category the page starts with

VARIABLES
  stored,    \* what is on each shelf
  cache,     \* the cached lists of each source, None when expired
  fill,      \* the list of each source that is being loaded
  uploader   \* the upload page's React state and the handlers that run

mediaVars == <<stored, cache, fill, uploader>>

Shelves == [photos |-> PhotoShelves, videos |-> VideoShelves]
Sources == DOMAIN Shelves
Shelf   == PhotoShelves \cup VideoShelves

NewUploader ==
  [category |-> FirstShelf, items |-> <<>>, uploading |-> FALSE, run |-> None,
   sync |-> "idle", error |-> "none"]

MediaInit ==
  /\ stored \in [Shelf -> SUBSET Images]
  /\ cache = [source \in Sources |-> None]
  /\ fill = [source \in Sources |-> None]
  /\ uploader = None

-----------------------------------------------------------------------------
(* The gallery                                                                *)

\* A visitor finds no cached list.  "before" and "cut" are only remembered for WholeShelves.
StartFill(source) ==
  /\ cache[source] = None /\ fill[source] = None
  /\ fill' = [fill EXCEPT ![source] =
                [s \in Shelves[source] |-> [read |-> {}, before |-> stored[s], over |-> FALSE,
                                            cut |-> FALSE]]]
  /\ UNCHANGED <<stored, cache, uploader>>

\* One page of a shelf; every shelf goes on by itself.
ReadPage(source, s, image) ==
  /\ fill[source] # None /\ ~fill[source][s].over
  /\ image \in stored[s] \ fill[source][s].read
  /\ fill' = [fill EXCEPT ![source][s].read = @ \cup {image}]
  /\ UNCHANGED <<stored, cache, uploader>>

LastPage(source, s) ==
  /\ fill[source] # None /\ ~fill[source][s].over
  /\ stored[s] \subseteq fill[source][s].read
  /\ fill' = [fill EXCEPT ![source][s].over = TRUE]
  /\ UNCHANGED <<stored, cache, uploader>>

\* Mutant: what was read before the error is kept.
SoFar(shelf) == [shelf EXCEPT !.over = TRUE]

Emptied(shelf) == [shelf EXCEPT !.over = TRUE, !.read = {}]

\* An answer that is not a success, or none, leaves that shelf empty, and only that one.
PageFails(source, s) ==
  /\ fill[source] # None /\ ~fill[source][s].over
  /\ fill' = [fill EXCEPT ![source][s] = Emptied(@)]
  /\ UNCHANGED <<stored, cache, uploader>>

\* A successful answer of Cloudinary whose body cannot be read counts as a last page without
\* images: the pages before it are the whole list.
PageUnreadable(s) ==
  /\ fill["photos"] # None /\ ~fill["photos"][s].over
  /\ fill' = [fill EXCEPT !["photos"][s].over = TRUE, !["photos"][s].cut = TRUE]
  /\ UNCHANGED <<stored, cache, uploader>>

\* The list is cached without an end, also when its tag expired while it was loaded.
EndFill(source) ==
  /\ fill[source] # None
  /\ \A s \in Shelves[source] : fill[source][s].over
  /\ cache' = [cache EXCEPT ![source] = fill[source]]
  /\ fill' = [fill EXCEPT ![source] = None]
  /\ UNCHANGED <<stored, uploader>>

\* POST /api/media/revalidate: both tags expire.
Expire == canAccessRole({"super_admin"}) /\ cache' = [source \in Sources |-> None]

-----------------------------------------------------------------------------
(* handleFiles, the category and handleSync                                   *)

Items(u) == DOMAIN u.items

handleFiles(files) ==
  /\ ~uploader.uploading
  /\ uploader' = [uploader EXCEPT !.items = [f \in files |-> "queued"],
                                  !.error = IF files = {} THEN "no images" ELSE "none"]
  /\ UNCHANGED <<stored, cache, fill>>

CanSelect == ~uploader.uploading

SelectCategory(s) ==
  /\ CanSelect
  /\ s \in PhotoShelves \ {uploader.category}
  /\ uploader' = [uploader EXCEPT !.category = s]
  /\ UNCHANGED <<stored, cache, fill>>

PressSync ==
  /\ uploader.sync # "sent" /\ uploader.sync # "served"
  /\ uploader' = [uploader EXCEPT !.sync = "sent"]
  /\ UNCHANGED <<stored, cache, fill>>

ServeSync ==
  /\ uploader.sync = "sent"
  /\ Expire
  /\ uploader' = [uploader EXCEPT !.sync = "served"]
  /\ UNCHANGED <<stored, fill>>

SyncAnswered ==
  /\ uploader.sync = "served"
  /\ uploader' = [uploader EXCEPT !.sync = "synced"]
  /\ UNCHANGED <<stored, cache, fill>>

\* Refused; a connection that fails leaves the button busy.
SyncRefused ==
  /\ uploader.sync = "sent"
  /\ uploader' = [uploader EXCEPT !.sync = "refused"]
  /\ UNCHANGED <<stored, cache, fill>>

-----------------------------------------------------------------------------
(* handleUpload                                                               *)

RunStage(stage) == uploader.run # None /\ uploader.run.stage = stage

\* Mutant: an image that is complete is uploaded again.
EveryItem(u) == Items(u)

Todo(u) == {f \in Items(u) : u.items[f] # "complete"}

\* The queue and the category are those of the render in which the button was pressed.
handleUpload ==
  /\ Items(uploader) # {} /\ ~uploader.uploading
  /\ uploader' = [uploader EXCEPT !.uploading = TRUE, !.error = "none",
                    !.run = [stage |-> "signing", todo |-> Todo(uploader), now |-> None,
                             folder |-> uploader.category, some |-> FALSE]]
  /\ UNCHANGED <<stored, cache, fill>>

Proceeds(stage) ==
  /\ uploader' = [uploader EXCEPT !.run.stage = stage]
  /\ UNCHANGED <<stored, cache, fill>>

\* POST /api/media/cloudinary-signature signs for the folder of the category.
ServeSignature == RunStage("signing") /\ canAccessRole({"super_admin"}) /\ Proceeds("next")

ItemGoes(f, status, stage) ==
  uploader' = [uploader EXCEPT !.items[f] = status, !.run.stage = stage]

NextItem ==
  /\ RunStage("next")
  /\ \E f \in uploader.run.todo :
       /\ \A g \in uploader.run.todo : f <= g
       /\ uploader' = [uploader EXCEPT !.items[f] = "processing", !.run.stage = "processing",
                                       !.run.now = f, !.run.todo = @ \ {f}]
  /\ UNCHANGED <<stored, cache, fill>>

Optimized ==
  /\ RunStage("processing")
  /\ ItemGoes(uploader.run.now, "uploading", "uploading")
  /\ UNCHANGED <<stored, cache, fill>>

\* Cloudinary keeps every upload under a name of its own.
CloudinaryStores ==
  /\ RunStage("uploading")
  /\ stored' = [stored EXCEPT ![uploader.run.folder] = @ \cup {uploader.run.now}]
  /\ uploader' = [uploader EXCEPT !.run.stage = "stored"]
  /\ UNCHANGED <<cache, fill>>

ItemComplete ==
  /\ RunStage("stored")
  /\ uploader' = [uploader EXCEPT !.items[uploader.run.now] = "complete",
                                  !.run.stage = "next", !.run.now = None, !.run.some = TRUE]
  /\ UNCHANGED <<stored, cache, fill>>

\* Processing failed, Cloudinary refused, or the connection failed before or after the
\* image was stored: the others go on.
ItemFails ==
  /\ RunStage("processing") \/ RunStage("uploading") \/ RunStage("stored")
  /\ uploader' = [uploader EXCEPT !.items[uploader.run.now] = "error",
                                  !.run.stage = "next", !.run.now = None]
  /\ UNCHANGED <<stored, cache, fill>>

AllDone ==
  /\ RunStage("next") /\ uploader.run.todo = {}
  /\ Proceeds(IF uploader.run.some THEN "refreshing" ELSE "over")

ServeRefresh ==
  /\ RunStage("refreshing")
  /\ Expire
  /\ uploader' = [uploader EXCEPT !.run.stage = "over"]
  /\ UNCHANGED <<stored, fill>>

\* Mutant: the button is only freed at the end of the loop, not in "finally".
Abandoned(u) == [u EXCEPT !.run = None, !.error = "failed"]

Freed(u) == [u EXCEPT !.run = None, !.error = "failed", !.uploading = FALSE]

\* No signature, or the gallery was not refreshed: refused, or the connection failed.
UploadStops ==
  /\ RunStage("signing") \/ RunStage("refreshing") \/ RunStage("over")
  /\ uploader' = Freed(uploader)
  /\ UNCHANGED <<stored, cache, fill>>

UploadOver ==
  /\ RunStage("over")
  /\ uploader' = [uploader EXCEPT !.run = None, !.uploading = FALSE]
  /\ UNCHANGED <<stored, cache, fill>>

-----------------------------------------------------------------------------
UploaderClicks ==
  \/ \E files \in SUBSET Images : handleFiles(files)
  \/ \E s \in PhotoShelves : SelectCategory(s)
  \/ PressSync \/ handleUpload

UploaderGoesOn ==
  \/ ServeSync \/ SyncAnswered
  \/ ServeSignature \/ NextItem \/ Optimized \/ CloudinaryStores \/ ItemComplete
  \/ AllDone \/ ServeRefresh \/ UploadOver

UploaderFails == SyncRefused \/ ItemFails \/ UploadStops

Visitors == \E source \in Sources : StartFill(source)

GalleryGoesOn ==
  \E source \in Sources :
    \/ \E s \in Shelves[source] :
         (\E image \in Images : ReadPage(source, s, image)) \/ LastPage(source, s)
           \/ PageFails(source, s)
    \/ EndFill(source)

GalleryLoses == \E s \in PhotoShelves : PageUnreadable(s)

\* Films, and photos from elsewhere, are added outside the site.
Added(s, image) ==
  /\ image \notin stored[s]
  /\ stored' = [stored EXCEPT ![s] = @ \cup {image}]
  /\ UNCHANGED <<cache, fill, uploader>>

-----------------------------------------------------------------------------
(* Properties                                                                 *)

\* "Running upload again skips completed queue items" (current-app-behavior.md): what is
\* complete stays so until another folder is chosen, however often and after whatever errors
\* the button is pressed.
CompleteStays ==
  [][uploader # None /\ uploader' # None /\ uploader'.uploading
       => \A f \in Items(uploader) : uploader.items[f] = "complete"
                                       => uploader'.items[f] = "complete"]_mediaVars

\* A run of the queue ends, whichever signature, image or refresh fails: nothing on the page
\* works before it has.
UploadRunEnds ==
  (uploader # None /\ uploader.uploading) ~> (uploader = None \/ ~uploader.uploading)

\* What the gallery caches of a shelf is everything that was there before it looked, or the
\* empty shelf that an error leaves, whatever is stored meanwhile.  The code has one way to
\* cache a part of a shelf, an unreadable body behind a successful answer of Cloudinary: there
\* is no other one, and no way at all for the films.
WholeShelves ==
  \A source \in Sources : cache[source] # None =>
    \A s \in Shelves[source] :
      LET shelf == cache[source][s]
      IN \/ shelf.read = {}
         \/ shelf.before \subseteq shelf.read
         \/ source = "photos" /\ shelf.cut
=============================================================================
