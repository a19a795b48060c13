---------------------------- MODULE PassDashboard ----------------------------
(***************************************************************************)
(* The page on which an administrator issues, lists, invalidates and        *)
(* e-mails hall passes.  "desk" is the page's React state; what it asks the *)
(* server for is answered later, in any order, or never.  A handler that    *)
(* awaits an answer keeps the values its render had: "filters" and          *)
(* "preview" of a call.  QR codes are drawn at once.                        *)
(***************************************************************************)
EXTENDS HallPassService, SiteSession, Sequences, SequencesExt

CONSTANTS
  Sizes,        \* the page sizes on offer
  DefaultSize,  \* the size the server falls back to
  Named,        \* the passes whose guest matches the one search term
  MaxLoads      \* bound: lists asked for and not answered

VARIABLE desk

Kinds == {"create", "limit", "invalidate", "email"}

FirstFilters == [tab |-> "active", status |-> "all", search |-> FALSE,
                 page |-> 1, size |-> DefaultSize]

-----------------------------------------------------------------------------
(* What the server answers                                                    *)

Row(p) == [id |-> p, used |-> pass[p].used, invalidated |-> pass[p].invalidated,
           email |-> pass[p].email]

Availability ==
  [limit |-> limit,
   left  |-> IF limit = Unlimited THEN Unlimited
             ELSE IF limit > Cardinality(Counted) THEN limit - Cardinality(Counted) ELSE 0]

Matches(f, p) ==
  /\ pass[p].issued
  /\ pass[p].invalidated = (f.tab = "invalidated")
  /\ f.tab = "active" /\ f.status # "all" => pass[p].used = (f.status = "used")
  /\ f.search => p \in Named

Found(f) == {p \in Ids : Matches(f, p)}

\* The newest passes come first.
Slice(f) ==
  LET Place(p) == Cardinality({q \in Found(f) : q >= p})
  IN {Row(p) : p \in {q \in Found(f) : /\ Place(q) > (f.page - 1) * f.size
                                       /\ Place(q) <= f.page * f.size}}

\* The page of the answer is never beyond the last one; its rows were cut before.
Totals(f) ==
  LET total == Cardinality(Found(f))
      pages == IF total = 0 THEN 1 ELSE (total + f.size - 1) \div f.size
  IN [total |-> total, pages |-> pages, page |-> IF f.page > pages THEN pages ELSE f.page,
      active |-> Cardinality(Counted), invalidated |-> Cardinality(Issued \ Counted)]

-----------------------------------------------------------------------------
NoCall == [phase |-> "idle", about |-> {}, count |-> 0, mail |-> FALSE, filters |-> None,
           preview |-> None, sent |-> {}, status |-> "none", rows |-> {}, available |-> None]

\* The page as the server renders it.
NewDesk ==
  [filters |-> FirstFilters, typed |-> FALSE,
   rows |-> Slice(FirstFilters), totals |-> Totals(FirstFilters), available |-> Availability,
   preview |-> None, toInvalidate |-> None, toEmail |-> None, toast |-> None,
   calls |-> [k \in Kinds |-> NoCall], loads |-> <<>>, loading |-> FALSE]

Idle(k) == desk.calls[k].phase = "idle"

\* A dialog is modal: nothing behind it can be pressed.
Uncovered == desk.toInvalidate = None /\ desk.toEmail = None

\* The table below and the preview, if there is one.
ShownRows == desk.rows \cup ({desk.preview} \ {None})

WithCall(d, k, call) == [d EXCEPT !.calls[k] = call]

\* The rows of a call, of which those of "ids" are taken now.
WithRows(call, ids) == [call EXCEPT !.rows = @ \cup {Row(p)' : p \in ids}]

\* The answer holds the passes as the last statement about them left them; what is left of
\* the tickets was looked up before any message was sent.
AnswersWith(k, call, ids, status) ==
  desk' = WithCall(desk, k, [WithRows(call, ids) EXCEPT !.phase = "answered", !.status = status])

Answers(k, call, status) == AnswersWith(k, [call EXCEPT !.available = Availability'], call.about, status)

\* The handler is called with what its render showed, as far as it looks at it later.
Called(k, about) ==
  [NoCall EXCEPT !.phase = "sent", !.about = about,
     !.filters = IF k \in {"create", "invalidate"} THEN desk.filters ELSE None,
     !.preview = IF k \in {"email", "invalidate"} /\ desk.preview # None THEN desk.preview.id
                 ELSE None]

Tells(what, ids) == [what |-> what, ids |-> ids]

-----------------------------------------------------------------------------
(* Lists: loadPasses                                                          *)

Load(f, silent) == [filters |-> f, silent |-> silent, answer |-> None]

Sent(d, load) == [d EXCEPT !.loads = Append(@, load), !.loading = @ \/ ~load.silent]

\* The effect asks for a list whenever tab, status, search, page or size have changed.
Refiltered(d, f) ==
  IF f = d.filters THEN d ELSE Sent([d EXCEPT !.filters = f], Load(f, FALSE))

MayLoad(n) == Len(desk.loads) + n <= MaxLoads

\* An expired session is refused, see ListFails and ServeError.
IsAdmin == canAccessRole({"super_admin"})

\* Rows, counts and availability are taken as of one moment.
Listed(f) == [rows |-> Slice(f), totals |-> Totals(f), available |-> Availability]

ServeList(i) ==
  /\ i <= Len(desk.loads) /\ desk.loads[i].answer = None
  /\ IsAdmin
  /\ desk' = [desk EXCEPT !.loads[i].answer = Listed(desk.loads[i].filters)]
  /\ UNCHANGED <<serviceVars, sessionVars>>

Unloaded(i) ==
  [desk EXCEPT !.loads = RemoveAt(@, i), !.loading = @ /\ desk.loads[i].silent]

\* Whichever list was asked for, its rows and its page replace those on the screen.
ListAnswered(i) ==
  /\ i <= Len(desk.loads) /\ desk.loads[i].answer # None
  /\ LET load   == desk.loads[i]
         answer == load.answer
         next   == [Unloaded(i) EXCEPT !.rows = answer.rows, !.totals = answer.totals,
                                       !.available = answer.available]
     IN desk' = Refiltered(next, [desk.filters EXCEPT !.page = answer.totals.page,
                                                      !.size = load.filters.size])
  /\ UNCHANGED <<serviceVars, sessionVars>>

\* Refused, failed or without a body.
ListFails(i) ==
  /\ desk' = Unloaded(i)
  /\ UNCHANGED <<serviceVars, sessionVars>>

-----------------------------------------------------------------------------
(* The filters above the list                                                 *)

Refilter(f) ==
  /\ f # desk.filters
  /\ MayLoad(1)
  /\ desk' = Refiltered(desk, f)
  /\ UNCHANGED <<serviceVars, sessionVars>>

SelectTab(tab) == Uncovered /\ Refilter([desk.filters EXCEPT !.tab = tab, !.page = 1])

SelectStatus(status) ==
  /\ Uncovered
  /\ desk.filters.tab = "active"
  /\ Refilter([desk.filters EXCEPT !.status = status, !.page = 1])

SelectSize(size) ==
  /\ Uncovered
  /\ desk.filters.size # size
  /\ Refilter([desk.filters EXCEPT !.size = size, !.page = 1])

TurnPage(page) ==
  /\ Uncovered
  /\ ~desk.loading
  /\ page \in 1..desk.totals.pages
  /\ page \in {desk.filters.page - 1, desk.filters.page + 1}
  /\ Refilter([desk.filters EXCEPT !.page = page])

TypeSearch ==
  /\ Uncovered
  /\ desk' = [desk EXCEPT !.typed = ~@]
  /\ UNCHANGED <<serviceVars, sessionVars>>

\* 300 ms after the last key.
Debounce ==
  /\ desk.typed # desk.filters.search
  /\ Refilter([desk.filters EXCEPT !.search = desk.typed, !.page = 1])

-----------------------------------------------------------------------------
(* Generating passes: handleCreatePass and POST /api/passes                   *)

\* What the form can be filled in with: one guest or many, mailed to them or not.
Batches    == 1..MaxBatch
Deliveries == BOOLEAN

CanSubmit(count) ==
  /\ Idle("create")
  /\ desk.available.left # 0
  /\ count \in Batches
  /\ desk.available.left # Unlimited => count <= desk.available.left

\* The form is filled in and sent.
Generate(count, mail) ==
  /\ Uncovered
  /\ CanSubmit(count)
  /\ desk' = [desk EXCEPT !.preview = None,
                !.calls["create"] = [Called("create", {}) EXCEPT !.count = count, !.mail = mail]]
  /\ UNCHANGED <<serviceVars, sessionVars>>

NextTickets(ids) == ids = {p \in Ids \ Issued : Cardinality({q \in Ids \ Issued : q < p}) < Cardinality(ids)}

ServeCreate ==
  LET call == desk.calls["create"]
  IN /\ call.phase = "sent"
     /\ IsAdmin
     /\ UNCHANGED sessionVars
     /\ \/ \E ids \in SUBSET Ids :
             /\ NextTickets(ids) /\ Cardinality(ids) = call.count
             /\ Issue(ids)
             /\ IF call.mail
                THEN desk' = WithCall(desk, "create",
                       [call EXCEPT !.phase = "mailing", !.about = ids, !.available = Availability'])
                ELSE Answers("create", [call EXCEPT !.about = ids], "ok")
        \/ /\ limit # Unlimited /\ Cardinality(Counted) + call.count > limit
           /\ UNCHANGED serviceVars
           /\ Answers("create", call, "refused")

\* The new passes are shown under the first tab without filters.  The list is loaded with
\* the tab, status and search of the render in which the button was pressed.
CreateAnswered ==
  LET call  == desk.calls["create"]
      first == CHOOSE r \in call.rows : \A other \in call.rows : r.id <= other.id
      done  == WithCall([desk EXCEPT !.available = call.available], "create", NoCall)
      toast == IF call.mail /\ \A r \in call.rows : r.email = "sent"
               THEN Tells("emailed", call.about) ELSE Tells("issued", call.about)
  IN /\ call.phase = "answered"
     /\ \/ call.status = "error" /\ desk' = WithCall(desk, "create", NoCall)
        \/ call.status = "refused" /\ desk' = done
        \/ /\ call.status = "ok"
           /\ MayLoad(2)
           /\ desk' = Refiltered(
                Sent([done EXCEPT !.preview = first, !.typed = FALSE, !.toast = toast],
                     Load([call.filters EXCEPT !.page = 1], TRUE)),
                [FirstFilters EXCEPT !.size = desk.filters.size])
     /\ UNCHANGED <<serviceVars, sessionVars>>

-----------------------------------------------------------------------------
(* The ticket limit: handleSaveTicketLimit and PUT /api/ticket-settings       *)

\* The box is opened, filled in and saved.
SaveLimit(n) ==
  /\ Uncovered
  /\ Idle("limit")
  /\ desk' = [desk EXCEPT !.calls["limit"] = [Called("limit", {}) EXCEPT !.count = n]]
  /\ UNCHANGED <<serviceVars, sessionVars>>

ServeLimit ==
  /\ desk.calls["limit"].phase = "sent"
  /\ IsAdmin
  /\ UNCHANGED sessionVars
  /\ SetTicketLimit(desk.calls["limit"].count)
  /\ Answers("limit", desk.calls["limit"], "ok")

LimitAnswered ==
  LET call == desk.calls["limit"]
  IN /\ call.phase = "answered"
     /\ desk' = WithCall(IF call.status = "ok" THEN [desk EXCEPT !.available = call.available]
                         ELSE desk, "limit", NoCall)
     /\ UNCHANGED <<serviceVars, sessionVars>>

-----------------------------------------------------------------------------
(* The preview                                                                *)

ViewPass(row) ==
  /\ Uncovered
  /\ row \in desk.rows
  /\ desk' = [desk EXCEPT !.preview = row]
  /\ UNCHANGED <<serviceVars, sessionVars>>

\* What the picture that is downloaded or printed says of the pass.
PrintedStatus(row) ==
  IF row.invalidated THEN "Invalidated" ELSE IF row.used THEN "Used" ELSE "Ready"

\* An answer about the pass that was shown when its button was pressed replaces the preview.
ShownAgain(call, rows) ==
  IF \E r \in rows : r.id = call.preview THEN CHOOSE r \in rows : r.id = call.preview
  ELSE desk.preview

-----------------------------------------------------------------------------
(* Sending a pass again: handleResendEmail and POST /api/passes/[id]/email    *)

OpenEmail(row) ==
  /\ Uncovered
  /\ row \in ShownRows
  /\ desk' = [desk EXCEPT !.toEmail = row.id]
  /\ UNCHANGED <<serviceVars, sessionVars>>

\* The dialog stays while its request is on its way.
CloseEmail ==
  /\ desk.toEmail # None
  /\ Idle("email")
  /\ desk' = [desk EXCEPT !.toEmail = None]
  /\ UNCHANGED <<serviceVars, sessionVars>>

SendEmail ==
  /\ desk.toEmail # None
  /\ Idle("email")
  /\ desk' = [desk EXCEPT !.calls["email"] = [Called("email", {desk.toEmail}) EXCEPT
                                                !.phase = "mailing", !.mail = TRUE]]
  /\ UNCHANGED <<serviceVars, sessionVars>>

\* One message for one pass, or for a part of a batch: some may be taken on and others fail,
\* and an error does not say whether the provider took the message on.
ServeMail(k) ==
  LET call == desk.calls[k]
  IN /\ call.phase = "mailing"
     /\ k = "email" => IsAdmin
     /\ UNCHANGED sessionVars
     /\ \E taken \in SUBSET call.about : \E sent \in SUBSET taken :
          /\ MailPasses(taken)
          /\ desk' = WithCall(desk, k, [call EXCEPT
                       !.phase = IF sent = {} THEN "regretting" ELSE "recording", !.sent = sent])

\* What was sent is recorded first, what failed by a statement of its own.
ServeRecord(k) ==
  LET call == desk.calls[k]
  IN /\ call.phase = "recording"
     /\ RecordEmail(call.sent, "sent")
     /\ UNCHANGED sessionVars
     /\ IF call.sent = call.about THEN AnswersWith(k, call, call.sent, "ok")
        ELSE desk' = WithCall(desk, k, [WithRows(call, call.sent) EXCEPT !.phase = "regretting"])

ServeRegret(k) ==
  LET call == desk.calls[k]
  IN /\ call.phase = "regretting"
     /\ RecordEmail(call.about \ call.sent, "failed")
     /\ UNCHANGED sessionVars
     /\ AnswersWith(k, call, call.about \ call.sent, IF k = "create" THEN "ok" ELSE "failed")

\* Mutant: an answer that carries the pass counts as sent.
CarriesPass(call) == call.rows # {}

Emailed(call) == call.status = "ok"

\* A failed delivery is answered with the pass too.
EmailAnswered ==
  LET call == desk.calls["email"]
      new(r) == IF \E s \in call.rows : s.id = r.id
                THEN CHOOSE s \in call.rows : s.id = r.id ELSE r
      kept == [desk EXCEPT !.rows = {new(r) : r \in desk.rows}, !.preview = ShownAgain(call, call.rows)]
  IN /\ call.phase = "answered"
     /\ desk' = WithCall(IF Emailed(call)
                         THEN [kept EXCEPT !.toEmail = None,
                                           !.toast = Tells("emailed", call.about)]
                         ELSE kept, "email", NoCall)
     /\ UNCHANGED <<serviceVars, sessionVars>>

-----------------------------------------------------------------------------
(* Invalidating: handleInvalidatePass and POST /api/passes/[id]/invalidate    *)

OpenInvalidate(row) ==
  /\ Uncovered
  /\ row \in desk.rows
  /\ desk.filters.tab = "active"
  /\ desk' = [desk EXCEPT !.toInvalidate = row.id]
  /\ UNCHANGED <<serviceVars, sessionVars>>

MayCloseInvalidate == desk.toInvalidate # None /\ Idle("invalidate")

CloseInvalidate ==
  /\ MayCloseInvalidate
  /\ desk' = [desk EXCEPT !.toInvalidate = None]
  /\ UNCHANGED <<serviceVars, sessionVars>>

ConfirmInvalidate ==
  /\ desk.toInvalidate # None
  /\ Idle("invalidate")
  /\ desk' = [desk EXCEPT !.calls["invalidate"] = Called("invalidate", {desk.toInvalidate})]
  /\ UNCHANGED <<serviceVars, sessionVars>>

ServeInvalidate ==
  /\ desk.calls["invalidate"].phase = "sent"
  /\ IsAdmin
  /\ UNCHANGED sessionVars
  /\ InvalidatePasses(desk.calls["invalidate"].about)
  /\ Answers("invalidate", desk.calls["invalidate"], "ok")

\* The counts are corrected here and again by the list that is asked for, with the filters
\* of the render in which the button was pressed.
InvalidateAnswered ==
  LET call == desk.calls["invalidate"]
      less(n) == IF n = 0 THEN 0 ELSE n - 1
      gone == [desk EXCEPT !.rows = {r \in desk.rows : r.id \notin call.about},
                !.totals.active = less(@), !.totals.total = less(@),
                !.totals.invalidated = @ + 1,
                !.available = call.available, !.preview = ShownAgain(call, call.rows),
                !.toInvalidate = None, !.toast = Tells("invalidated", call.about)]
  IN /\ call.phase = "answered"
     /\ \/ /\ call.status = "ok" /\ call.rows # {}
           /\ MayLoad(1)
           /\ desk' = Sent(WithCall(gone, "invalidate", NoCall), Load(call.filters, TRUE))
        \/ /\ call.status # "ok" \/ call.rows = {}
           /\ desk' = WithCall(desk, "invalidate", NoCall)
     /\ UNCHANGED <<serviceVars, sessionVars>>

-----------------------------------------------------------------------------
(* Requests                                                                   *)

\* An expired session, the write fence or an error of the server.
ServeError(k) ==
  LET call == desk.calls[k]
  IN /\ call.phase \in {"sent", "mailing", "recording", "regretting"} \/ call.status = "ok"
     /\ desk' = WithCall(desk, k, [NoCall EXCEPT !.phase = "answered", !.status = "error",
                                                 !.about = IF k \in {"email", "invalidate"}
                                                           THEN call.about ELSE {}])
     /\ UNCHANGED <<serviceVars, sessionVars>>

\* The connection fails: fetch rejects, nobody catches it and the button stays busy.
ConnectionFails(k) ==
  LET call == desk.calls[k]
  IN /\ call.phase \notin {"idle", "stuck"}
     /\ desk' = WithCall(desk, k, [NoCall EXCEPT !.phase = "stuck", !.about = call.about])
     /\ UNCHANGED <<serviceVars, sessionVars>>

\* The connection fails behind the status line.  Only create and limit read the body
\* without a fallback, after the button is free again.
BodyLost(k) ==
  LET call == desk.calls[k]
  IN /\ call.phase = "answered"
     /\ \/ k \in {"create", "limit"} /\ desk' = WithCall(desk, k, NoCall)
        \/ /\ k \in {"invalidate", "email"} /\ call.rows # {}
           /\ desk' = WithCall(desk, k, [call EXCEPT !.rows = {}])
     /\ UNCHANGED <<serviceVars, sessionVars>>

-----------------------------------------------------------------------------
DeskClicks ==
  \/ \E tab \in {"active", "invalidated"} : SelectTab(tab)
  \/ \E status \in {"all", "unused", "used"} : SelectStatus(status)
  \/ \E size \in Sizes : SelectSize(size)
  \/ \E page \in 1..MaxPasses : TurnPage(page)
  \/ TypeSearch
  \/ \E count \in Batches, mail \in Deliveries : Generate(count, mail)
  \/ \E n \in Limits : SaveLimit(n)
  \/ \E row \in desk.rows : ViewPass(row)
  \/ \E row \in ShownRows : OpenEmail(row)
  \/ CloseEmail \/ SendEmail
  \/ \E row \in desk.rows : OpenInvalidate(row)
  \/ CloseInvalidate \/ ConfirmInvalidate

\* What goes on by itself once it has begun.
DeskGoesOn ==
  \/ Debounce
  \/ \E i \in 1..Len(desk.loads) : ServeList(i) \/ ListAnswered(i)
  \/ ServeCreate \/ ServeLimit \/ ServeInvalidate
  \/ \E k \in Kinds : ServeMail(k) \/ ServeRecord(k) \/ ServeRegret(k)
  \/ CreateAnswered \/ LimitAnswered \/ EmailAnswered \/ InvalidateAnswered

DeskFails ==
  \/ \E i \in 1..Len(desk.loads) : ListFails(i)
  \/ \E k \in Kinds : ServeError(k) \/ ConnectionFails(k) \/ BodyLost(k)

-----------------------------------------------------------------------------
(* Properties                                                                 *)

\* What the page tells the administrator is so: a pass shown as used, invalidated or sent is,
\* and a toast of success is about something that happened, whichever answers were late,
\* lost or overtaken.
ToldIsTrue ==
  desk # None =>
    /\ \A r \in ShownRows :
         /\ PrintedStatus(r) = "Invalidated" => pass[r.id].invalidated
         /\ PrintedStatus(r) = "Used" => pass[r.id].used
         /\ r.email = "sent" => r.id \in mailed
    /\ desk.toast # None => \A p \in desk.toast.ids :
         /\ pass[p].issued
         /\ desk.toast.what = "invalidated" => pass[p].invalidated
         /\ desk.toast.what = "emailed" => p \in mailed
=============================================================================
