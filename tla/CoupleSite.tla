------------------------------- MODULE CoupleSite -------------------------------
(***************************************************************************)
(* One browser on the couple's site, beside everybody else who uses it: the *)
(* page that is shown runs, a page that is left is gone, and other          *)
(* administrators, doors, visitors and the custodian act meanwhile.  A      *)
(* request of a page that was left counts among theirs.                     *)
(***************************************************************************)
EXTENDS PassDashboard, HallPassScanner, CoupleMedia

CONSTANT MaxActs   \* bound: what this browser's user and camera, and all others, do

VARIABLE acts

pageVars == <<desk, door, admitted, mediaVars>>
siteVars == <<serviceVars, sessionVars, pageVars, acts>>

SiteInit ==
  /\ ServiceInit
  /\ SessionInit
  /\ MediaInit
  /\ desk = None /\ door = None
  /\ admitted = {p \in Ids : pass[p].used}
  /\ acts = 0

Acts     == acts < MaxActs /\ acts' = acts + 1
ByItself == UNCHANGED acts

\* A page begins anew whenever it is rendered, and is gone when another one is asked for.
Mounts ==
  /\ desk' = IF ~Shown("passes")' THEN None ELSE IF desk = None THEN NewDesk ELSE desk
  /\ door' = IF ~Shown("scanner")' THEN None ELSE IF door = None THEN NewDoor ELSE door
  /\ uploader' = IF ~Shown("images")' THEN None
                 ELSE IF uploader = None THEN NewUploader ELSE uploader
  /\ UNCHANGED <<serviceVars, admitted, stored, cache, fill>>

Browses ==
  /\ Acts
  /\ (\E page \in Pages : Visit(page)) \/ SubmitLogin \/ PressLogout
  /\ Mounts

PageAnswers == (\E page \in Pages : Answer(page)) \/ (\E role \in Roles : LoginAnswered(role))

PagesGoOn == ByItself /\ (PageAnswers \/ LogoutAnswered) /\ Mounts

Expires == ByItself /\ SessionExpires /\ UNCHANGED <<serviceVars, pageVars>>

AtDesk == desk # None /\ UNCHANGED <<door, admitted, mediaVars>>
UsesDesk   == AtDesk /\ Acts /\ DeskClicks
DeskRuns   == AtDesk /\ ByItself /\ DeskGoesOn
DeskBreaks == AtDesk /\ ByItself /\ DeskFails

AtDoor == door # None /\ UNCHANGED <<desk, mediaVars>>
UsesDoor   == AtDoor /\ Acts /\ (DoorClicks \/ DoorScans)
DoorRuns   == AtDoor /\ ByItself /\ DoorGoesOn
DoorBreaks == AtDoor /\ ByItself /\ DoorFails

AtUploader == uploader # None /\ UNCHANGED <<serviceVars, sessionVars, desk, door, admitted>>
UsesUploader   == AtUploader /\ Acts /\ UploaderClicks
UploaderRuns   == AtUploader /\ ByItself /\ UploaderGoesOn
UploaderBreaks == AtUploader /\ ByItself /\ UploaderFails

\* The gallery shares nothing with the passes: it is only looked at beside the upload page,
\* and the passes are only touched by others while that page is not open.
InGallery == uploader # None /\ UNCHANGED <<serviceVars, sessionVars, desk, door, admitted>>
UsesGallery == InGallery /\ Acts
                 /\ (Visitors \/ (\E s \in Shelf, image \in Images : Added(s, image)))
GalleryRuns == InGallery /\ ByItself /\ (GalleryGoesOn \/ GalleryLoses)

\* Other administrators and doors, and the custodian's fence.
Others ==
  /\ Acts
  /\ uploader = None
  /\ ServiceNext
  /\ admitted' = admitted \cup {p \in Ids : pass'[p].used /\ ~pass[p].used}
  /\ UNCHANGED <<sessionVars, desk, door, mediaVars>>

SiteNext ==
  \/ Browses \/ PagesGoOn \/ Expires
  \/ UsesDesk \/ DeskRuns \/ DeskBreaks
  \/ UsesDoor \/ DoorRuns \/ DoorBreaks
  \/ UsesUploader \/ UploaderRuns \/ UploaderBreaks
  \/ UsesGallery \/ GalleryRuns
  \/ Others

\* What has begun goes on or fails; nobody has to act.
SiteFairness ==
  /\ WF_siteVars(PagesGoOn)
  /\ WF_siteVars(DeskRuns)
  /\ WF_siteVars(DoorRuns \/ DoorBreaks)
  /\ WF_siteVars(UploaderRuns \/ UploaderBreaks)

SiteSpec == SiteInit /\ [][SiteNext]_siteVars /\ SiteFairness
=============================================================================
