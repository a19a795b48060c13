------------------------------ MODULE MCCoupleSite ------------------------------
(***************************************************************************)
(* A small instance of CoupleSite: two passes of which the second belongs   *)
(* to the guest who is searched for, pages of one and two rows, two images, *)
(* two photo shelves and one of films.  It starts where the work starts: on *)
(* a page behind the login with a cookie that opens it.                     *)
(***************************************************************************)
EXTENDS CoupleSite, TLC

MCSizes == {1, 2}
MCNamed == {2}
MCImages == {1, 2}
MCPhotoShelves == {"ceremony", "reception"}
MCVideoShelves == {"films"}

\* Two of the shelves' states; they only matter for the media pages.
Stocked == \E images \in {{}, {2}} : \A s \in Shelf : stored[s] = images

DeskInit ==
  /\ SiteInit
  /\ session = "super_admin" /\ browser.page = "passes"
  /\ limit # 0
  /\ \A s \in Shelf : stored[s] = {}

DeskSpec == DeskInit /\ [][SiteNext]_siteVars

DoorAndMediaInit ==
  /\ SiteInit
  /\ limit = Unlimited
  /\ \/ session = "bouncer" /\ browser.page = "scanner" /\ \A s \in Shelf : stored[s] = {}
     \/ session = "super_admin" /\ browser.page = "images" /\ Stocked

DoorAndMediaSpec == DoorAndMediaInit /\ [][SiteNext]_siteVars /\ SiteFairness
=============================================================================
