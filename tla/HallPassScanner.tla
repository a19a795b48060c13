---------------------------- MODULE HallPassScanner ----------------------------
(***************************************************************************)
(* The page at the door: a camera that reads codes by itself, a form for    *)
(* codes that are typed in, and a panel that says whether to let a guest    *)
(* in.  Starting and stopping the camera and redeeming a pass all take      *)
(* time, and everything else on the page can be pressed meanwhile.          *)
(***************************************************************************)
EXTENDS HallPassService, SiteSession, Sequences, SequencesExt

CONSTANT MaxRedeems   \* bound: passes this page redeems at once

\* Having no result is told apart from every accepted pass.
ASSUME NoneAssumption == \A p \in Ids : None # [pass |-> p, status |-> "valid"]

VARIABLES
  door,      \* the page's React state, refs, camera and requests
  admitted   \* passes for which some door has shown "Pass Accepted"

NewDoor ==
  [visible |-> FALSE, starting |-> FALSE, frame |-> FALSE, start |-> FALSE, camera |-> FALSE,
   scanned |-> FALSE, redeeming |-> FALSE, result |-> None, error |-> "none", redeems |-> <<>>,
   resets |-> {}]

\* The effect on isCameraVisible and result: a frame is awaited, or no longer.
Rendered(d) ==
  IF d.visible = door.visible /\ d.result = door.result THEN d
  ELSE [d EXCEPT !.frame = d.visible /\ d.result = None]

DoorShows(d) == door' = Rendered(d)

-----------------------------------------------------------------------------
(* The camera                                                                 *)

OpenedDoor(d) == [d EXCEPT !.error = "none", !.result = None, !.visible = TRUE, !.starting = TRUE,
                       !.scanned = FALSE]

openScanner ==
  /\ door.result = None /\ ~door.visible
  /\ ~door.starting /\ ~door.redeeming
  /\ DoorShows(OpenedDoor(door))
  /\ UNCHANGED <<serviceVars, sessionVars, admitted>>

\* A camera that is still on is stopped before it is started again.
startScanner ==
  /\ door.frame
  /\ door' = [door EXCEPT !.frame = FALSE, !.start = TRUE, !.starting = TRUE, !.camera = FALSE]
  /\ UNCHANGED <<serviceVars, sessionVars, admitted>>

CameraStarts ==
  /\ door.start
  /\ door' = [door EXCEPT !.start = FALSE, !.starting = FALSE, !.camera = TRUE]
  /\ UNCHANGED <<serviceVars, sessionVars, admitted>>

\* No permission, no secure context, no camera, or its container is gone.
CameraFails ==
  /\ door.start
  /\ DoorShows([door EXCEPT !.start = FALSE, !.starting = FALSE, !.visible = FALSE,
                            !.error = "camera"])
  /\ UNCHANGED <<serviceVars, sessionVars, admitted>>

\* resetScanner, once the camera has stopped.
Reset(d) == [d EXCEPT !.camera = FALSE, !.result = None, !.error = "none", !.visible = FALSE,
                      !.scanned = FALSE]

\* "Scan Next" opens the camera again afterwards.
AfterReset(button) == IF button = "next" THEN OpenedDoor(Reset(door)) ELSE Reset(door)

\* A camera that is on has to stop first; one that is starting is not on yet.  A button that
\* is pressed again meanwhile counts once.
Press(button) ==
  /\ IF door.camera THEN door' = [door EXCEPT !.resets = @ \cup {button}]
     ELSE DoorShows(AfterReset(button))
  /\ UNCHANGED <<serviceVars, sessionVars, admitted>>

CancelScan == door.result = None /\ door.visible /\ Press("cancel")

scanNext == door.result # None /\ ~door.starting /\ Press("next")

resetScanner(button) ==
  /\ button \in door.resets
  /\ DoorShows([AfterReset(button) EXCEPT !.resets = @ \ {button}])
  /\ UNCHANGED <<serviceVars, sessionVars, admitted>>

-----------------------------------------------------------------------------
(* redeemQrValue                                                              *)

\* A code that is not an issued pass is one of Ids too.
Begins(d, p) ==
  DoorShows([d EXCEPT !.error = "none", !.result = None, !.redeeming = TRUE,
              !.redeems = Append(@, [pass |-> p, stage |-> "stopping", status |-> "none"])])

MayRedeem == Len(door.redeems) < MaxRedeems

Decode(p) ==
  /\ door.camera /\ ~door.scanned
  /\ MayRedeem
  /\ Begins([door EXCEPT !.scanned = TRUE], p)
  /\ UNCHANGED <<serviceVars, sessionVars, admitted>>

handleManualSubmit(p) ==
  /\ ~door.redeeming
  /\ MayRedeem
  /\ Begins(door, p)
  /\ UNCHANGED <<serviceVars, sessionVars, admitted>>

\* Only the raw field can be empty.
SubmitNothing ==
  /\ ~door.redeeming
  /\ door' = [door EXCEPT !.error = "empty"]
  /\ UNCHANGED <<serviceVars, sessionVars, admitted>>

InStage(i, stage) == i \in 1..Len(door.redeems) /\ door.redeems[i].stage = stage

Moves(i, stage, status) ==
  door' = [door EXCEPT !.redeems[i].stage = stage, !.redeems[i].status = status]

StopThenSend(i) ==
  /\ InStage(i, "stopping")
  /\ door' = [door EXCEPT !.redeems[i].stage = "sent", !.camera = FALSE]
  /\ UNCHANGED <<serviceVars, sessionVars, admitted>>

\* POST /api/passes/redeem: the pass is redeemed, then the scan is logged.
ServeRedeem(i) ==
  /\ InStage(i, "sent")
  /\ canAccessRole(Roles)
  /\ LET p == door.redeems[i].pass
     IN \/ RedeemPass(p) /\ Moves(i, "redeemed", "valid")
        \/ /\ ~frozen /\ ~Redeemable(p)
           /\ Moves(i, "redeemed", IF pass[p].used /\ ~pass[p].invalidated THEN "used"
                                   ELSE "invalid")
           /\ UNCHANGED serviceVars
  /\ UNCHANGED <<sessionVars, admitted>>

ServeLog(i) ==
  /\ InStage(i, "redeemed") /\ ~frozen
  /\ Moves(i, "answered", door.redeems[i].status)
  /\ UNCHANGED <<serviceVars, sessionVars, admitted>>

\* An expired session, the write fence, or an error: also after the pass was redeemed.
ServeRefuses(i) ==
  /\ InStage(i, "sent") \/ InStage(i, "redeemed")
  /\ Moves(i, "answered", IF frozen THEN "frozen" ELSE "error")
  /\ UNCHANGED <<serviceVars, sessionVars, admitted>>

Failure(i) == door.redeems[i].status \in {"frozen", "error"}

\* The status line is read; a body with a result is still to come.
RedeemAnswered(i) ==
  /\ InStage(i, "answered")
  /\ LET free == [door EXCEPT !.redeeming = FALSE, !.visible = FALSE]
     IN DoorShows(IF Failure(i)
                  THEN [free EXCEPT !.error = door.redeems[i].status,
                                    !.redeems = RemoveAt(@, i)]
                  ELSE [free EXCEPT !.redeems[i].stage = "reading"])
  /\ UNCHANGED <<serviceVars, sessionVars, admitted>>

ResultShown(i) ==
  /\ InStage(i, "reading")
  /\ LET r == door.redeems[i]
     IN /\ DoorShows([door EXCEPT !.result = [pass |-> r.pass, status |-> r.status],
                                  !.redeems = RemoveAt(@, i)])
        /\ admitted' = admitted \cup (IF r.status = "valid" THEN {r.pass} ELSE {})
  /\ UNCHANGED <<serviceVars, sessionVars>>

\* Mutant: the handler that tells of the uncertain admission leaves the form busy.
StaysBusy(d) == [d EXCEPT !.visible = FALSE, !.error = "uncertain"]

Uncertain(d) == [d EXCEPT !.redeeming = FALSE, !.visible = FALSE, !.error = "uncertain"]

\* The request or its answer is lost, whatever the server did.
RedeemLost(i) ==
  /\ InStage(i, "sent") \/ InStage(i, "redeemed") \/ InStage(i, "answered")
  /\ DoorShows([Uncertain(door) EXCEPT !.redeems = RemoveAt(@, i)])
  /\ UNCHANGED <<serviceVars, sessionVars, admitted>>

\* The body is lost behind the status line: nothing is shown at all.
ResultLost(i) ==
  /\ InStage(i, "reading")
  /\ door' = [door EXCEPT !.redeems = RemoveAt(@, i)]
  /\ UNCHANGED <<serviceVars, sessionVars, admitted>>

-----------------------------------------------------------------------------
DoorClicks ==
  \/ openScanner \/ CancelScan \/ scanNext \/ SubmitNothing
  \/ \E p \in Ids : handleManualSubmit(p)

\* A code comes before the camera.
DoorScans == \E p \in Ids : Decode(p)

DoorGoesOn ==
  \/ startScanner \/ CameraStarts
  \/ \E button \in {"cancel", "next"} : resetScanner(button)
  \/ \E i \in 1..MaxRedeems :
       StopThenSend(i) \/ ServeRedeem(i) \/ ServeLog(i) \/ RedeemAnswered(i) \/ ResultShown(i)

DoorFails ==
  \/ CameraFails
  \/ \E i \in 1..MaxRedeems : ServeRefuses(i) \/ RedeemLost(i) \/ ResultLost(i)

-----------------------------------------------------------------------------
(* Properties                                                                 *)

Accepts(d, p) == d # None /\ d.result = [pass |-> p, status |-> "valid"]

\* "Pass Accepted" is shown once for a pass: not by two requests of one page, the camera's
\* and the form's, not by another door, and not again after an answer was lost.
AcceptedOnce ==
  [][\A p \in Ids : Accepts(door', p) /\ ~Accepts(door, p) => p \notin admitted]_<<door, admitted>>

\* A door that verifies a pass comes to an end of it, whichever answers are lost, and takes
\* the next guest.
RedeemEnds == (door # None /\ door.redeeming) ~> (door = None \/ ~door.redeeming)
=============================================================================
