-------------------------- MODULE CoupleSiteProofs --------------------------
(***************************************************************************)
(* What one browser on the couple's site shows of the passes, the door, the *)
(* upload page and the gallery is so, for every number of passes, images,   *)
(* shelves, requests and acts, and whoever else uses the service meanwhile. *)
(*                                                                          *)
(* The passes' part has one invariant, PassesOK: what is so of a pass stays *)
(* so (Later), and every row, answer, toast and pending call the dashboard  *)
(* holds was so when it was read; every pass that a pending request of the  *)
(* door has won was used by that request alone and shown by no door yet.    *)
(* The predicates take the passes and the mail that was taken on as         *)
(* parameters, so that they can be stated of the state before and after a   *)
(* step.  The media part has another one, MediaOK.                          *)
(***************************************************************************)
EXTENDS CoupleSite, SequenceTheorems, WellFoundedInduction, TLAPS

-----------------------------------------------------------------------------
(* Sequences and numbers                                                      *)

\* Where the element at a place of a sequence was before the i-th was removed.
Before(i, j) == IF j < i THEN j ELSE j + 1

LEMMA RemoveAtIs ==
  ASSUME NEW S, NEW s \in Seq(S), NEW i \in 1..Len(s)
  PROVE  /\ RemoveAt(s, i) \in Seq(S)
         /\ Len(RemoveAt(s, i)) = Len(s) - 1
         /\ \A j \in 1..(Len(s) - 1) :
              Before(i, j) \in 1..Len(s) /\ Before(i, j) # i /\ RemoveAt(s, i)[j] = s[Before(i, j)]
<1> DEFINE a == SubSeq(s, 1, i - 1)
           b == SubSeq(s, i + 1, Len(s))
<1>1. Len(s) \in Nat /\ i \in Nat
  BY LenProperties
<1>2. a \in Seq(S) /\ Len(a) = i - 1 /\ \A j \in 1..(i - 1) : a[j] = s[j]
  BY <1>1, SubSeqProperties
<1>3. b \in Seq(S) /\ Len(b) = Len(s) - i /\ \A j \in 1..(Len(s) - i) : b[j] = s[j + i]
  BY <1>1, SubSeqProperties
<1> HIDE DEF a, b
<1>4. /\ a \o b \in Seq(S) /\ Len(a \o b) = Len(s) - 1
      /\ \A j \in 1..(Len(s) - 1) : (a \o b)[j] = IF j <= i - 1 THEN a[j] ELSE b[j - (i - 1)]
  <2>1. /\ a \o b \in Seq(S) /\ Len(a \o b) = Len(a) + Len(b)
        /\ \A j \in 1..Len(a) + Len(b) : (a \o b)[j] = IF j <= Len(a) THEN a[j] ELSE b[j - Len(a)]
    BY <1>2, <1>3, ConcatProperties
  <2> QED
    BY <1>1, <1>2, <1>3, <2>1
<1>5. RemoveAt(s, i) = a \o b
  BY DEF RemoveAt, a, b
<1>6. ASSUME NEW j \in 1..(Len(s) - 1)
      PROVE  Before(i, j) \in 1..Len(s) /\ Before(i, j) # i /\ (a \o b)[j] = s[Before(i, j)]
  BY <1>1, <1>2, <1>3, <1>4 DEF Before
<1> QED
  BY <1>4, <1>5, <1>6

LEMMA SmallestOf ==
  ASSUME NEW N, NEW S \in SUBSET (1..N), S # {}
  PROVE  \E n \in S : \A m \in S : n <= m
<1>1. S \subseteq Nat
  OBVIOUS
<1>2. PICK n \in S : \A m \in S : ~(<<m, n>> \in OpToRel(<, Nat))
  BY <1>1, NatLessThanWellFounded, WFMin
<1>3. \A m \in S : ~(m < n)
  BY <1>1, <1>2 DEF OpToRel
<1> QED
  BY <1>1, <1>3

-----------------------------------------------------------------------------
(* The service                                                                *)

\* What is so of the passes ps when the provider took on those in ml.
ServiceSo(ps, ml) ==
  /\ ps \in [Ids -> Pass]
  /\ \A p \in Ids : /\ ps[p].used \/ ps[p].invalidated => ps[p].issued
                    /\ ps[p].email = "sent" => p \in ml

\* What is once so of a pass stays so.
Later(ps, ml, ps2, ml2) ==
  /\ ml \subseteq ml2
  /\ \A p \in Ids : /\ ps[p].issued => ps2[p].issued
                    /\ ps[p].used => ps2[p].used
                    /\ ps[p].invalidated => ps2[p].invalidated

ServiceMoves == ServiceSo(pass', mailed') /\ Later(pass, mailed, pass', mailed')

\* The passes in ids become those of new, the others stay.
PassesBecome(ids, new) == pass' = [p \in Ids |-> IF p \in ids THEN new[p] ELSE pass[p]]

Follows(p, old, new, ml) ==
  /\ old.issued => new.issued
  /\ old.used => new.used
  /\ old.invalidated => new.invalidated
  /\ new.used \/ new.invalidated => new.issued
  /\ new.email = "sent" => p \in ml

LEMMA PassesMove ==
  ASSUME ServiceSo(pass, mailed), mailed \subseteq mailed',
         NEW ids \in SUBSET Ids, NEW new, new \in [Ids -> Pass],
         PassesBecome(ids, new), \A p \in ids : Follows(p, pass[p], new[p], mailed')
  PROVE  ServiceMoves
<1>1. pass \in [Ids -> Pass]
  BY DEF ServiceSo
<1>2. pass' \in [Ids -> Pass]
  BY <1>1 DEF PassesBecome
<1>3. \A p \in Ids : pass'[p] = IF p \in ids THEN new[p] ELSE pass[p]
  BY DEF PassesBecome
<1> QED
  BY <1>2, <1>3 DEF Follows, ServiceMoves, ServiceSo, Later

LEMMA PassIs ==
  ASSUME ServiceSo(pass, mailed), NEW p \in Ids
  PROVE  /\ pass[p] \in Pass
         /\ pass[p].used \/ pass[p].invalidated => pass[p].issued
         /\ pass[p].email = "sent" => p \in mailed
  BY DEF ServiceSo

LEMMA NoPassIs ==
  \A b \in BOOLEAN :
    LET new == [NoPass EXCEPT !.issued = b]
    IN new \in Pass /\ new.issued = b /\ ~new.used /\ ~new.invalidated /\ new.email = "not_sent"
<1>1. NoPass \in Pass /\ ~NoPass.used /\ ~NoPass.invalidated /\ NoPass.email = "not_sent"
  BY DEF NoPass, Pass
<1> QED
  BY <1>1 DEF Pass

LEMMA IssueMoves ==
  ASSUME ServiceSo(pass, mailed), NEW ids \in SUBSET Ids, Issue(ids)
  PROVE  ServiceMoves /\ \A p \in ids : pass'[p].issued
<1> DEFINE new == [p \in Ids |-> [NoPass EXCEPT !.issued = TRUE]]
<1>1. /\ [NoPass EXCEPT !.issued = TRUE] \in Pass /\ [NoPass EXCEPT !.issued = TRUE].issued
      /\ ~[NoPass EXCEPT !.issued = TRUE].used /\ ~[NoPass EXCEPT !.issued = TRUE].invalidated
      /\ [NoPass EXCEPT !.issued = TRUE].email = "not_sent"
  BY NoPassIs
<1>2. new \in [Ids -> Pass]
  BY <1>1
<1>3. /\ pass' = [p \in Ids |-> IF p \in ids THEN new[p] ELSE pass[p]] /\ mailed' = mailed
      /\ PassesBecome(ids, new) /\ \A p \in ids : ~pass[p].issued
  BY DEF Issue, Issued, PassesBecome
<1>4. \A p \in Ids : new[p].issued /\ ~new[p].used /\ ~new[p].invalidated /\ new[p].email = "not_sent"
  BY <1>1
<1>5. \A p \in ids : ~pass[p].used /\ ~pass[p].invalidated
  BY <1>3, PassIs
<1> HIDE DEF new
<1>6. ServiceMoves
  <2>1. \A p \in ids : Follows(p, pass[p], new[p], mailed')
    BY <1>3, <1>4, <1>5 DEF Follows
  <2> QED
    BY <1>2, <1>3, <2>1, PassesMove
<1> QED
  BY <1>3, <1>4, <1>6

LEMMA RedeemMoves ==
  ASSUME ServiceSo(pass, mailed), NEW p \in Ids, RedeemPass(p)
  PROVE  /\ ServiceMoves /\ ~pass[p].used /\ pass'[p].used
         /\ \A q \in Ids \ {p} : pass'[q] = pass[q]
<1> DEFINE row == [pass[p] EXCEPT !.used = TRUE]
           new == [q \in Ids |-> row]
<1>1. pass \in [Ids -> Pass]
  BY DEF ServiceSo
<1>2. pass' = [pass EXCEPT ![p] = row] /\ mailed' = mailed /\ pass[p].issued /\ ~pass[p].used
  BY DEF RedeemPass, Redeemable
<1>3. /\ row \in Pass /\ row.issued /\ row.used /\ row.invalidated = pass[p].invalidated
      /\ row.email = pass[p].email
  BY <1>1, <1>2, PassIs DEF Pass
<1> HIDE DEF row
<1>4. PassesBecome({p}, new)
  BY <1>1, <1>2 DEF PassesBecome
<1>5. ServiceMoves
  <2>1. new \in [Ids -> Pass] /\ new[p] = row
    BY <1>3
  <2> HIDE DEF new
  <2>2. \A q \in {p} : Follows(q, pass[q], new[q], mailed')
    BY <1>2, <1>3, <2>1, PassIs DEF Follows
  <2> QED
    BY <1>2, <1>4, <2>1, <2>2, PassesMove
<1> QED
  BY <1>1, <1>2, <1>3, <1>5

LEMMA InvalidateMoves ==
  ASSUME ServiceSo(pass, mailed), NEW ids \in SUBSET Ids, InvalidatePasses(ids)
  PROVE  ServiceMoves /\ \A p \in ids : pass[p].issued => pass'[p].invalidated
<1> DEFINE new == [p \in Ids |-> [pass[p] EXCEPT !.invalidated = TRUE]]
           on  == {p \in ids : pass[p].issued}
<1>1. \A p \in Ids : /\ new[p] \in Pass /\ new[p].issued = pass[p].issued /\ new[p].used = pass[p].used
                     /\ new[p].invalidated /\ new[p].email = pass[p].email
  BY PassIs DEF Pass
<1>2. new \in [Ids -> Pass]
  BY <1>1
<1>3. /\ pass' = [p \in Ids |-> IF p \in on THEN new[p] ELSE pass[p]] /\ mailed' = mailed
      /\ PassesBecome(on, new)
  BY DEF InvalidatePasses, PassesBecome
<1>4. on \in SUBSET Ids /\ \A p \in on : pass[p].issued
  OBVIOUS
<1>5. ServiceMoves
  <2> HIDE DEF new, on
  <2>1. \A p \in on : Follows(p, pass[p], new[p], mailed')
    BY <1>1, <1>3, <1>4, PassIs DEF Follows
  <2> QED
    BY <1>2, <1>3, <1>4, <2>1, PassesMove
<1> QED
  BY <1>1, <1>3, <1>5

LEMMA RecordMoves ==
  ASSUME ServiceSo(pass, mailed), NEW ids \in SUBSET Ids, NEW status \in {"sent", "failed"},
         RecordEmail(ids, status)
  PROVE  ServiceMoves /\ (status = "sent" => ids \subseteq mailed')
<1> DEFINE new == [p \in Ids |-> [pass[p] EXCEPT !.email = status]]
<1>1. \A p \in Ids : /\ new[p] \in Pass /\ new[p].issued = pass[p].issued /\ new[p].used = pass[p].used
                     /\ new[p].invalidated = pass[p].invalidated /\ new[p].email = status
  BY PassIs DEF Pass
<1>2. new \in [Ids -> Pass]
  BY <1>1
<1>3. PassesBecome(ids, new) /\ mailed' = mailed /\ (status = "sent" => ids \subseteq mailed)
  BY DEF RecordEmail, PassesBecome
<1> HIDE DEF new
<1>4. ServiceMoves
  <2>1. \A p \in ids : Follows(p, pass[p], new[p], mailed')
    BY <1>1, <1>3, PassIs DEF Follows
  <2> QED
    BY <1>2, <1>3, <2>1, PassesMove
<1> QED
  BY <1>3, <1>4

LEMMA PassesStay ==
  ASSUME ServiceSo(pass, mailed), UNCHANGED pass, mailed \subseteq mailed'
  PROVE  ServiceMoves
  BY DEF ServiceMoves, ServiceSo, Later

LEMMA ServiceSteps ==
  ASSUME ServiceSo(pass, mailed), ServiceNext
  PROVE  ServiceMoves
<1>1. CASE \E ids \in SUBSET Ids : Issue(ids) \/ InvalidatePasses(ids)
  BY <1>1, IssueMoves, InvalidateMoves
<1>2. CASE \/ \E ids \in SUBSET Ids : MailPasses(ids)
           \/ \E n \in Limits : SetTicketLimit(n)
           \/ SwitchFence
  BY <1>2, PassesStay DEF MailPasses, SetTicketLimit, SwitchFence
<1>3. CASE \E p \in Ids : RedeemPass(p)
  BY <1>3, RedeemMoves
<1>4. CASE \E ids \in SUBSET Ids, status \in {"sent", "failed"} : RecordEmail(ids, status)
  BY <1>4, RecordMoves
<1> QED
  BY <1>1, <1>2, <1>3, <1>4 DEF ServiceNext

LEMMA ServiceStarts ==
  ASSUME ServiceInit
  PROVE  ServiceSo(pass, mailed)
<1>1. PICK n \in 0..MaxPasses : pass = [p \in Ids |-> [NoPass EXCEPT !.issued = p <= n]]
  BY DEF ServiceInit
<1>2. ASSUME NEW p \in Ids
      PROVE  pass[p] \in Pass /\ ~pass[p].used /\ ~pass[p].invalidated /\ pass[p].email = "not_sent"
  <2>1. pass[p] = [NoPass EXCEPT !.issued = p <= n] /\ (p <= n) \in BOOLEAN
    BY <1>1
  <2> DEFINE b == p <= n
  <2>2. pass[p] = [NoPass EXCEPT !.issued = b] /\ b \in BOOLEAN
    BY <2>1
  <2> HIDE DEF b
  <2> QED
    BY <2>2, NoPassIs
<1>3. pass \in [Ids -> Pass]
  BY <1>1, <1>2
<1> QED
  BY <1>2, <1>3 DEF ServiceSo

-----------------------------------------------------------------------------
(* What the dashboard holds                                                   *)

Rows == [id: Ids, used: BOOLEAN, invalidated: BOOLEAN, email: {"not_sent", "sent", "failed"}]

\* A row that was read at some time tells nothing that is not so.
So(r, ps, ml) ==
  /\ r \in Rows
  /\ ps[r.id].issued
  /\ r.used => ps[r.id].used
  /\ r.invalidated => ps[r.id].invalidated
  /\ r.email = "sent" => r.id \in ml

AllSo(rows, ps, ml) == \A r \in rows : So(r, ps, ml)

AllIssued(ids, ps) == ids \in SUBSET Ids /\ \A p \in ids : ps[p].issued

ToastSo(toast, ps, ml) ==
  toast # None =>
    /\ AllIssued(toast.ids, ps)
    /\ toast.what = "invalidated" => \A p \in toast.ids : ps[p].invalidated
    /\ toast.what = "emailed" => toast.ids \subseteq ml

IsCall(c) ==
  c \in [phase: {c.phase}, about: {c.about}, count: {c.count}, mail: {c.mail}, filters: {c.filters},
         preview: {c.preview}, sent: {c.sent}, status: {c.status}, rows: {c.rows},
         available: {c.available}]

MailPhases == {"mailing", "recording", "regretting"}
USE DEF MailPhases

\* A call is about issued passes, holds true rows, and an answer of success is about
\* something that has happened.
CallSo(k, c, ps, ml) ==
  /\ IsCall(c)
  /\ AllIssued(c.about, ps) /\ AllSo(c.rows, ps, ml) /\ c.sent \subseteq c.about
  /\ c.phase = "sent" /\ k = "limit" => c.count \in Limits
  /\ c.phase \in MailPhases => k \in {"create", "email"}
  /\ c.phase \in MailPhases /\ k = "create" => c.about # {}
  /\ c.phase = "sent" => c.sent = {}
  /\ c.phase = "recording" => c.sent \subseteq ml
  /\ c.phase = "regretting" => \A p \in c.sent : \E r \in c.rows : r.id = p
  /\ c.phase = "answered" /\ c.status = "ok" =>
       /\ k = "create" => c.about # {} /\ \A p \in c.about : \E r \in c.rows : r.id = p
       /\ k = "email" => c.about \subseteq ml
       /\ k = "invalidate" => \A p \in c.about : ps[p].invalidated

LoadSo(l, ps, ml) ==
  /\ l \in [filters: {l.filters}, silent: {l.silent}, answer: {l.answer}]
  /\ l.answer # None => AllSo(l.answer.rows, ps, ml)

LoadsSo(loads, ps, ml) ==
  /\ \E S : loads \in Seq(S)
  /\ \A i \in 1..Len(loads) : LoadSo(loads[i], ps, ml)

IsDesk(d) ==
  d \in [filters: {d.filters}, typed: {d.typed}, rows: {d.rows}, totals: {d.totals},
         available: {d.available}, preview: {d.preview}, toInvalidate: {d.toInvalidate},
         toEmail: {d.toEmail}, toast: {d.toast}, calls: {d.calls}, loads: {d.loads},
         loading: {d.loading}]

PreviewSo(r, ps, ml) == r # None => So(r, ps, ml)
NamesIssued(p, ps)   == p # None => AllIssued({p}, ps)
CallsSo(calls, ps, ml) == DOMAIN calls = Kinds /\ \A k \in Kinds : CallSo(k, calls[k], ps, ml)

DeskSo(d, ps, ml) ==
  /\ IsDesk(d)
  /\ AllSo(d.rows, ps, ml) /\ PreviewSo(d.preview, ps, ml) /\ ToastSo(d.toast, ps, ml)
  /\ NamesIssued(d.toInvalidate, ps) /\ NamesIssued(d.toEmail, ps)
  /\ CallsSo(d.calls, ps, ml) /\ LoadsSo(d.loads, ps, ml)

\* What was so of the service stays so.
LEMMA SoStays ==
  ASSUME NEW ps, NEW ml, NEW ps2, NEW ml2, Later(ps, ml, ps2, ml2)
  PROVE  /\ \A r : So(r, ps, ml) => So(r, ps2, ml2)
         /\ \A rows : AllSo(rows, ps, ml) => AllSo(rows, ps2, ml2)
         /\ \A ids : AllIssued(ids, ps) => AllIssued(ids, ps2)
         /\ \A toast : ToastSo(toast, ps, ml) => ToastSo(toast, ps2, ml2)
         /\ \A k, c : CallSo(k, c, ps, ml) => CallSo(k, c, ps2, ml2)
         /\ \A l : LoadSo(l, ps, ml) => LoadSo(l, ps2, ml2)
<1>1. \A r : So(r, ps, ml) => So(r, ps2, ml2)
  BY DEF So, Later, Rows
<1>2. \A rows : AllSo(rows, ps, ml) => AllSo(rows, ps2, ml2)
  BY <1>1 DEF AllSo
<1>3. \A ids : AllIssued(ids, ps) => AllIssued(ids, ps2)
  BY DEF AllIssued, Later
<1>4. \A toast : ToastSo(toast, ps, ml) => ToastSo(toast, ps2, ml2)
  <2> SUFFICES ASSUME NEW toast, ToastSo(toast, ps, ml), toast # None
               PROVE  /\ AllIssued(toast.ids, ps2)
                      /\ toast.what = "invalidated" => \A p \in toast.ids : ps2[p].invalidated
                      /\ toast.what = "emailed" => toast.ids \subseteq ml2
    BY DEF ToastSo
  <2>1. AllIssued(toast.ids, ps)
    BY DEF ToastSo
  <2> QED
    BY <1>3, <2>1 DEF ToastSo, AllIssued, Later
<1>5. \A k, c : CallSo(k, c, ps, ml) => CallSo(k, c, ps2, ml2)
  <2> SUFFICES ASSUME NEW k, NEW c, CallSo(k, c, ps, ml)
               PROVE  CallSo(k, c, ps2, ml2)
    OBVIOUS
  <2>1. c.about \in SUBSET Ids
    BY DEF CallSo, AllIssued
  <2> QED
    BY <1>2, <1>3, <2>1 DEF CallSo, Later
<1>6. \A l : LoadSo(l, ps, ml) => LoadSo(l, ps2, ml2)
  BY <1>2 DEF LoadSo
<1> QED
  BY <1>1, <1>2, <1>3, <1>4, <1>5, <1>6

LEMMA DeskStays ==
  ASSUME NEW ps, NEW ml, NEW ps2, NEW ml2, Later(ps, ml, ps2, ml2), NEW d, DeskSo(d, ps, ml)
  PROVE  DeskSo(d, ps2, ml2)
<1>1. CallsSo(d.calls, ps2, ml2)
  BY SoStays DEF DeskSo, CallsSo
<1>2. LoadsSo(d.loads, ps2, ml2)
  BY SoStays DEF DeskSo, LoadsSo
<1>3. ToastSo(d.toast, ps2, ml2) /\ AllSo(d.rows, ps2, ml2)
  BY SoStays DEF DeskSo
<1>4. PreviewSo(d.preview, ps2, ml2) /\ NamesIssued(d.toInvalidate, ps2) /\ NamesIssued(d.toEmail, ps2)
  BY SoStays DEF DeskSo, PreviewSo, NamesIssued
<1> QED
  BY <1>1, <1>2, <1>3, <1>4 DEF DeskSo

\* What the server reads is so when it is read.
LEMMA RowSo ==
  ASSUME ServiceSo(pass, mailed), NEW p \in Ids, pass[p].issued
  PROVE  So(Row(p), pass, mailed) /\ Row(p).id = p
<1>1. pass[p] \in Pass
  BY PassIs
<1>2. Row(p) \in Rows /\ Row(p).id = p
  BY <1>1 DEF Row, Rows, Pass
<1> QED
  BY <1>1, <1>2, PassIs DEF So, Row

LEMMA SliceSo ==
  ASSUME ServiceSo(pass, mailed), NEW f
  PROVE  AllSo(Slice(f), pass, mailed)
<1> SUFFICES ASSUME NEW r \in Slice(f)
             PROVE  So(r, pass, mailed)
  BY DEF AllSo
<1>1. PICK p \in Found(f) : r = Row(p)
  BY DEF Slice
<1>2. p \in Ids /\ pass[p].issued
  BY DEF Found, Matches
<1> QED
  BY <1>1, <1>2, RowSo

LEMMA RowsAnsweredSo ==
  ASSUME ServiceSo(pass, mailed), NEW ids, AllIssued(ids, pass)
  PROVE  /\ AllSo({Row(p) : p \in ids}, pass, mailed)
         /\ \A p \in ids : \E r \in {Row(q) : q \in ids} : r.id = p
<1>1. \A p \in ids : So(Row(p), pass, mailed) /\ Row(p).id = p
  BY RowSo DEF AllIssued
<1> QED
  BY <1>1 DEF AllSo

-----------------------------------------------------------------------------
(* Calls and loads                                                            *)

LEMMA CallPlaced ==
  ASSUME NEW d, NEW ps, NEW ml, DeskSo(d, ps, ml), NEW k \in Kinds, NEW c, CallSo(k, c, ps, ml)
  PROVE  DeskSo(WithCall(d, k, c), ps, ml)
<1> DEFINE calls == [d.calls EXCEPT ![k] = c]
<1>1. CallsSo(d.calls, ps, ml)
  BY DEF DeskSo
<1>2. CallsSo(calls, ps, ml)
  BY <1>1 DEF CallsSo
<1>3. WithCall(d, k, c) = [d EXCEPT !.calls = calls]
  BY DEF WithCall
<1> HIDE DEF calls
<1> QED
  BY <1>2, <1>3 DEF DeskSo, IsDesk

LEMMA NoCallSo ==
  ASSUME NEW k, NEW ps, NEW ml
  PROVE  CallSo(k, NoCall, ps, ml)
<1>1. IsCall(NoCall) /\ NoCall.phase = "idle" /\ NoCall.about = {} /\ NoCall.sent = {} /\ NoCall.rows = {}
  BY DEF NoCall, IsCall
<1> QED
  BY <1>1 DEF CallSo, AllIssued, AllSo

\* A call that nothing has answered.
LEMMA PendingSo ==
  ASSUME NEW k \in Kinds, NEW c, NEW ps, NEW ml, IsCall(c), AllIssued(c.about, ps), c.rows = {},
         c.sent = {}, c.phase = "sent" /\ k = "limit" => c.count \in Limits,
         \/ c.phase \in {"sent", "stuck"}
         \/ c.phase = "mailing" /\ k \in {"create", "email"} /\ (k = "create" => c.about # {})
         \/ c.phase = "answered" /\ c.status # "ok"
  PROVE  CallSo(k, c, ps, ml)
  BY DEF CallSo, AllSo

LEMMA CalledIs ==
  ASSUME NEW k, NEW about
  PROVE  /\ IsCall(Called(k, about)) /\ Called(k, about).phase = "sent"
         /\ Called(k, about).about = about /\ Called(k, about).rows = {} /\ Called(k, about).sent = {}
<1>1. IsCall(NoCall) /\ NoCall.rows = {} /\ NoCall.sent = {}
  BY DEF NoCall, IsCall
<1> QED
  BY <1>1 DEF Called, IsCall

LEMMA RowsTaken ==
  ASSUME ServiceSo(pass', mailed'), NEW c, IsCall(c), AllSo(c.rows, pass', mailed'),
         NEW ids, AllIssued(ids, pass'), NEW w, w = WithRows(c, ids)
  PROVE  /\ IsCall(w) /\ w.phase = c.phase /\ w.about = c.about /\ w.count = c.count
         /\ w.sent = c.sent /\ w.status = c.status
         /\ AllSo(w.rows, pass', mailed') /\ c.rows \subseteq w.rows
         /\ \A p \in ids : \E r \in w.rows : r.id = p
<1> DEFINE new  == {Row(p)' : p \in ids}
           rows == c.rows \cup new
<1>1. AllSo(new, pass', mailed') /\ \A p \in ids : \E r \in new : r.id = p
  <2>1. \A p \in ids : So(Row(p)', pass', mailed') /\ Row(p)'.id = p
    <3> SUFFICES ASSUME NEW p \in ids PROVE So(Row(p)', pass', mailed') /\ Row(p)'.id = p
      OBVIOUS
    <3>1. p \in Ids /\ pass'[p].issued
      BY DEF AllIssued
    <3>2. pass'[p] \in Pass /\ (pass'[p].email = "sent" => p \in mailed')
      BY <3>1 DEF ServiceSo
    <3>3. Row(p)' = [id |-> p, used |-> pass'[p].used, invalidated |-> pass'[p].invalidated,
                     email |-> pass'[p].email]
      BY DEF Row
    <3>4. Row(p)' \in Rows
      BY <3>1, <3>2, <3>3 DEF Rows, Pass
    <3> QED
      BY <3>1, <3>2, <3>3, <3>4 DEF So
  <2> QED
    BY <2>1 DEF AllSo
<1> HIDE DEF new
<1>2. AllSo(rows, pass', mailed') /\ c.rows \subseteq rows /\ \A p \in ids : \E r \in rows : r.id = p
  BY <1>1 DEF AllSo
<1>3. w = [c EXCEPT !.rows = rows]
  BY DEF WithRows, new
<1> HIDE DEF rows
<1>4. IsCall(w) /\ w.rows = rows /\ w.phase = c.phase /\ w.about = c.about /\ w.count = c.count
      /\ w.sent = c.sent /\ w.status = c.status
  BY <1>3 DEF IsCall
<1> QED
  BY <1>2, <1>4

LEMMA AnswersWithSo ==
  ASSUME ServiceSo(pass', mailed'), DeskSo(desk, pass', mailed'), NEW k \in Kinds, NEW c, IsCall(c),
         AllIssued(c.about, pass'), AllSo(c.rows, pass', mailed'), c.sent \subseteq c.about,
         NEW ids \in SUBSET c.about, NEW status, AnswersWith(k, c, ids, status),
         status = "ok" =>
           /\ k = "create" => c.about # {} /\ \A p \in c.about \ ids : \E r \in c.rows : r.id = p
           /\ k = "email" => c.about \subseteq mailed'
           /\ k = "invalidate" => \A p \in c.about : pass'[p].invalidated
  PROVE  DeskSo(desk', pass', mailed')
<1> DEFINE w   == WithRows(c, ids)
           new == [w EXCEPT !.phase = "answered", !.status = status]
<1>1. desk' = WithCall(desk, k, new)
  BY DEF AnswersWith
<1>2. AllIssued(ids, pass')
  BY DEF AllIssued
<1>3. /\ IsCall(w) /\ w.about = c.about /\ w.sent = c.sent /\ AllSo(w.rows, pass', mailed')
      /\ c.rows \subseteq w.rows /\ \A p \in ids : \E r \in w.rows : r.id = p
  BY <1>2, RowsTaken
<1> HIDE DEF w
<1>4. /\ IsCall(new) /\ new.phase = "answered" /\ new.status = status /\ new.rows = w.rows
      /\ new.about = c.about /\ new.sent = c.sent
  BY <1>3 DEF IsCall
<1> HIDE DEF new
<1>5. status = "ok" /\ k = "create" => \A p \in c.about : \E r \in w.rows : r.id = p
  BY <1>3
<1>6. CallSo(k, new, pass', mailed')
  BY <1>3, <1>4, <1>5 DEF CallSo
<1> QED
  BY <1>1, <1>6, CallPlaced

LEMMA AnswersSo ==
  ASSUME ServiceSo(pass', mailed'), DeskSo(desk, pass', mailed'), NEW k \in Kinds, NEW c, IsCall(c),
         AllIssued(c.about, pass'), AllSo(c.rows, pass', mailed'), c.sent \subseteq c.about,
         NEW status, Answers(k, c, status),
         status = "ok" =>
           /\ k = "create" => c.about # {}
           /\ k = "email" => c.about \subseteq mailed'
           /\ k = "invalidate" => \A p \in c.about : pass'[p].invalidated
  PROVE  DeskSo(desk', pass', mailed')
<1> DEFINE new == [c EXCEPT !.available = Availability']
<1>1. AnswersWith(k, new, c.about, status)
  BY DEF Answers
<1>2. IsCall(new) /\ new.about = c.about /\ new.rows = c.rows /\ new.sent = c.sent
  BY DEF IsCall
<1> HIDE DEF new
<1> QED
  BY <1>1, <1>2, AnswersWithSo

LEMMA SentSo ==
  ASSUME NEW d, NEW ps, NEW ml, DeskSo(d, ps, ml), NEW load, LoadSo(load, ps, ml)
  PROVE  DeskSo(Sent(d, load), ps, ml)
<1> DEFINE loads == Append(d.loads, load)
           busy  == d.loading \/ ~load.silent
<1>1. PICK S : d.loads \in Seq(S)
  BY DEF DeskSo, LoadsSo
<1>2. d.loads \in Seq(S \cup {load}) /\ load \in S \cup {load}
  BY <1>1, SeqMonotonic
<1>3. /\ loads \in Seq(S \cup {load}) /\ Len(loads) = Len(d.loads) + 1
      /\ \A i \in 1..Len(d.loads) : loads[i] = d.loads[i]
      /\ loads[Len(d.loads) + 1] = load
  BY <1>2, AppendProperties
<1>4. Len(d.loads) \in Nat
  BY <1>1, LenProperties
<1> HIDE DEF loads
<1>5. LoadsSo(loads, ps, ml)
  <2>1. \A i \in 1..Len(d.loads) : LoadSo(d.loads[i], ps, ml)
    BY DEF DeskSo, LoadsSo
  <2>2. \A i \in 1..Len(loads) : LoadSo(loads[i], ps, ml)
    BY <1>3, <1>4, <2>1
  <2> QED
    BY <1>3, <2>2 DEF LoadsSo
<1>6. Sent(d, load) = [d EXCEPT !.loads = loads, !.loading = busy]
  BY DEF Sent, loads
<1> HIDE DEF busy
<1> QED
  BY <1>5, <1>6 DEF DeskSo, IsDesk

LEMMA NewLoadSo ==
  ASSUME NEW f, NEW silent, NEW ps, NEW ml
  PROVE  LoadSo(Load(f, silent), ps, ml)
  BY DEF Load, LoadSo

LEMMA RefilteredSo ==
  ASSUME NEW d, NEW ps, NEW ml, DeskSo(d, ps, ml), NEW f
  PROVE  DeskSo(Refiltered(d, f), ps, ml)
<1>1. DeskSo([d EXCEPT !.filters = f], ps, ml)
  BY DEF DeskSo, IsDesk
<1> QED
  BY <1>1, NewLoadSo, SentSo DEF Refiltered

LEMMA UnloadedSo ==
  ASSUME NEW ps, NEW ml, DeskSo(desk, ps, ml), NEW i \in 1..Len(desk.loads)
  PROVE  DeskSo(Unloaded(i), ps, ml)
<1> DEFINE loads == RemoveAt(desk.loads, i)
           busy  == desk.loading /\ desk.loads[i].silent
<1>1. PICK S : desk.loads \in Seq(S)
  BY DEF DeskSo, LoadsSo
<1>2. /\ loads \in Seq(S) /\ Len(loads) = Len(desk.loads) - 1
      /\ \A j \in 1..(Len(desk.loads) - 1) : Before(i, j) \in 1..Len(desk.loads) /\ loads[j] = desk.loads[Before(i, j)]
  BY <1>1, RemoveAtIs
<1> HIDE DEF loads
<1>3. LoadsSo(loads, ps, ml)
  <2>1. \A j \in 1..Len(desk.loads) : LoadSo(desk.loads[j], ps, ml)
    BY DEF DeskSo, LoadsSo
  <2> QED
    BY <1>2, <2>1 DEF LoadsSo
<1>4. Unloaded(i) = [desk EXCEPT !.loads = loads, !.loading = busy]
  BY DEF Unloaded, loads
<1> HIDE DEF busy
<1> QED
  BY <1>3, <1>4 DEF DeskSo, IsDesk

-----------------------------------------------------------------------------
(* The dashboard's steps                                                      *)

DeskOK == desk # None => DeskSo(desk, pass, mailed)

\* Neither the service nor what the desk tells of it becomes wrong.
DeskMoves == ServiceMoves /\ DeskSo(desk', pass', mailed')

LEMMA DeskAlone ==
  ASSUME ServiceSo(pass, mailed), UNCHANGED serviceVars, DeskSo(desk', pass, mailed)
  PROVE  DeskMoves
  BY PassesStay DEF DeskMoves, serviceVars

LEMMA DeskMovesOn ==
  ASSUME DeskSo(desk, pass, mailed), ServiceMoves
  PROVE  DeskSo(desk, pass', mailed')
  BY DeskStays DEF ServiceMoves

LEMMA FilterStep ==
  ASSUME ServiceSo(pass, mailed), DeskSo(desk, pass, mailed),
         \/ \E tab \in {"active", "invalidated"} : SelectTab(tab)
         \/ \E status \in {"all", "unused", "used"} : SelectStatus(status)
         \/ \E size \in Sizes : SelectSize(size)
         \/ \E page \in 1..MaxPasses : TurnPage(page)
         \/ Debounce \/ TypeSearch
  PROVE  DeskMoves
<1>1. CASE TypeSearch
  <2>1. UNCHANGED serviceVars /\ \E v : desk' = [desk EXCEPT !.typed = v]
    BY <1>1 DEF TypeSearch
  <2>2. DeskSo(desk', pass, mailed)
    BY <2>1 DEF DeskSo, IsDesk
  <2> QED
    BY <2>1, <2>2, DeskAlone
<1>2. CASE ~TypeSearch
  <2>1. UNCHANGED serviceVars /\ \E f : desk' = Refiltered(desk, f)
    BY <1>2 DEF SelectTab, SelectStatus, SelectSize, TurnPage, Debounce, Refilter
  <2>2. DeskSo(desk', pass, mailed)
    BY <2>1, RefilteredSo
  <2> QED
    BY <2>1, <2>2, DeskAlone
<1> QED
  BY <1>1, <1>2

\* A row that is shown names an issued pass.
LEMMA ShownSo ==
  ASSUME NEW ps, NEW ml, DeskSo(desk, ps, ml), NEW row \in ShownRows
  PROVE  So(row, ps, ml) /\ NamesIssued(row.id, ps)
<1>1. So(row, ps, ml)
  BY DEF ShownRows, DeskSo, AllSo, PreviewSo
<1> QED
  BY <1>1 DEF So, NamesIssued, AllIssued, Rows

LEMMA DialogStep ==
  ASSUME ServiceSo(pass, mailed), DeskSo(desk, pass, mailed),
         \/ \E row \in desk.rows : ViewPass(row) \/ OpenInvalidate(row)
         \/ \E row \in ShownRows : OpenEmail(row)
         \/ CloseEmail \/ CloseInvalidate
  PROVE  DeskMoves
<1>1. UNCHANGED serviceVars
  BY DEF ViewPass, OpenInvalidate, OpenEmail, CloseEmail, CloseInvalidate
<1>2. ASSUME NEW row \in desk.rows PROVE So(row, pass, mailed) /\ NamesIssued(row.id, pass)
  BY <1>2, ShownSo DEF ShownRows
<1>3. DeskSo(desk', pass, mailed)
  <2>1. CASE \E row \in desk.rows : ViewPass(row)
    <3>1. \E row \in desk.rows : desk' = [desk EXCEPT !.preview = row]
      BY <2>1 DEF ViewPass
    <3> QED
      BY <1>2, <3>1 DEF DeskSo, IsDesk, PreviewSo
  <2>2. CASE \E row \in desk.rows : OpenInvalidate(row)
    <3>1. \E row \in desk.rows : desk' = [desk EXCEPT !.toInvalidate = row.id]
      BY <2>2 DEF OpenInvalidate
    <3> QED
      BY <1>2, <3>1 DEF DeskSo, IsDesk
  <2>3. CASE \E row \in ShownRows : OpenEmail(row)
    <3>1. \E row \in ShownRows : desk' = [desk EXCEPT !.toEmail = row.id]
      BY <2>3 DEF OpenEmail
    <3> QED
      BY <3>1, ShownSo DEF DeskSo, IsDesk
  <2>4. CASE CloseEmail \/ CloseInvalidate
    <3>1. desk' = [desk EXCEPT !.toEmail = None] \/ desk' = [desk EXCEPT !.toInvalidate = None]
      BY <2>4 DEF CloseEmail, CloseInvalidate
    <3> QED
      BY <3>1 DEF DeskSo, IsDesk, NamesIssued
  <2> QED
    BY <2>1, <2>2, <2>3, <2>4
<1> QED
  BY <1>1, <1>3, DeskAlone

\* A button that sends a request.
LEMMA CallStep ==
  ASSUME ServiceSo(pass, mailed), DeskSo(desk, pass, mailed),
         \/ \E count \in Batches, mail \in Deliveries : Generate(count, mail)
         \/ \E n \in Limits : SaveLimit(n)
         \/ SendEmail \/ ConfirmInvalidate
  PROVE  DeskMoves
<1>1. UNCHANGED serviceVars
  BY DEF Generate, SaveLimit, SendEmail, ConfirmInvalidate
<1>2. AllIssued({}, pass)
  BY DEF AllIssued
<1>3. ASSUME NEW count \in Batches, NEW mail \in Deliveries, Generate(count, mail)
      PROVE  DeskSo(desk', pass, mailed)
  <2> DEFINE old == Called("create", {})
             c == [old EXCEPT !.count = count, !.mail = mail]
             d == [desk EXCEPT !.preview = None]
  <2>1. desk' = WithCall(d, "create", c)
    BY <1>3 DEF Generate, WithCall
  <2>2. DeskSo(d, pass, mailed)
    BY DEF DeskSo, IsDesk, PreviewSo
  <2>3. IsCall(old) /\ old.phase = "sent" /\ old.about = {} /\ old.rows = {} /\ old.sent = {}
    BY CalledIs
  <2> HIDE DEF old, d
  <2>4. IsCall(c) /\ c.phase = "sent" /\ c.about = {} /\ c.rows = {} /\ c.sent = {}
    BY <2>3 DEF IsCall
  <2> HIDE DEF c
  <2>5. CallSo("create", c, pass, mailed)
    BY <1>2, <2>4, PendingSo DEF Kinds
  <2> QED
    BY <2>1, <2>2, <2>5, CallPlaced DEF Kinds
<1>4. ASSUME NEW n \in Limits, SaveLimit(n)
      PROVE  DeskSo(desk', pass, mailed)
  <2> DEFINE old == Called("limit", {})
             c == [old EXCEPT !.count = n]
  <2>1. desk' = WithCall(desk, "limit", c)
    BY <1>4 DEF SaveLimit, WithCall
  <2>2. IsCall(old) /\ old.phase = "sent" /\ old.about = {} /\ old.rows = {} /\ old.sent = {}
    BY CalledIs
  <2> HIDE DEF old
  <2>3. IsCall(c) /\ c.phase = "sent" /\ c.about = {} /\ c.rows = {} /\ c.count = n /\ c.sent = {}
    BY <2>2 DEF IsCall
  <2> HIDE DEF c
  <2>4. CallSo("limit", c, pass, mailed)
    BY <1>2, <2>3, PendingSo DEF Kinds
  <2> QED
    BY <2>1, <2>4, CallPlaced DEF Kinds
<1>5. ASSUME SendEmail
      PROVE  DeskSo(desk', pass, mailed)
  <2> DEFINE old == Called("email", {desk.toEmail})
             c == [old EXCEPT !.phase = "mailing", !.mail = TRUE]
  <2>1. desk' = WithCall(desk, "email", c) /\ desk.toEmail # None
    BY <1>5 DEF SendEmail, WithCall
  <2>2. IsCall(old) /\ old.about = {desk.toEmail} /\ old.rows = {} /\ old.sent = {}
    BY CalledIs
  <2> HIDE DEF old
  <2>3. IsCall(c) /\ c.phase = "mailing" /\ c.about = {desk.toEmail} /\ c.rows = {} /\ c.sent = {}
    BY <2>2 DEF IsCall
  <2> HIDE DEF c
  <2>4. AllIssued(c.about, pass)
    BY <2>1, <2>3 DEF DeskSo, NamesIssued
  <2>5. CallSo("email", c, pass, mailed)
    BY <2>3, <2>4, PendingSo DEF Kinds
  <2> QED
    BY <2>1, <2>5, CallPlaced DEF Kinds
<1>6. ASSUME ConfirmInvalidate
      PROVE  DeskSo(desk', pass, mailed)
  <2> DEFINE c == Called("invalidate", {desk.toInvalidate})
  <2>1. desk' = WithCall(desk, "invalidate", c) /\ desk.toInvalidate # None
    BY <1>6 DEF ConfirmInvalidate, WithCall
  <2>2. IsCall(c) /\ c.phase = "sent" /\ c.about = {desk.toInvalidate} /\ c.rows = {} /\ c.sent = {}
    BY CalledIs
  <2> HIDE DEF c
  <2>3. AllIssued(c.about, pass)
    BY <2>1, <2>2 DEF DeskSo, NamesIssued
  <2>4. CallSo("invalidate", c, pass, mailed)
    BY <2>2, <2>3, PendingSo DEF Kinds
  <2> QED
    BY <2>1, <2>4, CallPlaced DEF Kinds
<1> QED
  BY <1>1, <1>3, <1>4, <1>5, <1>6, DeskAlone

LEMMA ListStep ==
  ASSUME ServiceSo(pass, mailed), DeskSo(desk, pass, mailed), NEW i \in 1..Len(desk.loads),
         ServeList(i) \/ ListAnswered(i) \/ ListFails(i)
  PROVE  DeskMoves
<1> DEFINE load == desk.loads[i]
<1>1. UNCHANGED serviceVars
  BY DEF ServeList, ListAnswered, ListFails
<1>2. LoadSo(load, pass, mailed) /\ LoadsSo(desk.loads, pass, mailed)
  BY DEF DeskSo, LoadsSo
<1>3. ASSUME ServeList(i) PROVE DeskSo(desk', pass, mailed)
  <2> DEFINE answer == Listed(load.filters)
             new    == [load EXCEPT !.answer = answer]
             loads  == [desk.loads EXCEPT ![i] = new]
  <2>1. desk' = [desk EXCEPT !.loads = loads]
    BY <1>3 DEF ServeList
  <2>2. AllSo(answer.rows, pass, mailed)
    BY SliceSo DEF Listed
  <2> HIDE DEF load, answer
  <2>3. LoadSo(new, pass, mailed)
    BY <1>2, <2>2 DEF LoadSo
  <2> HIDE DEF new
  <2>4. LoadsSo(loads, pass, mailed)
    <3>1. PICK S : desk.loads \in Seq(S)
      BY <1>2 DEF LoadsSo
    <3>2. desk.loads \in Seq(S \cup {new})
      BY <3>1, SeqMonotonic
    <3>3. /\ loads \in Seq(S \cup {new}) /\ Len(loads) = Len(desk.loads)
          /\ \A j \in 1..Len(desk.loads) : loads[j] = IF j = i THEN new ELSE desk.loads[j]
      BY <3>2, ExceptSeq
    <3> HIDE DEF loads
    <3> QED
      BY <1>2, <2>3, <3>3 DEF LoadsSo
  <2> HIDE DEF loads
  <2> QED
    BY <2>1, <2>4 DEF DeskSo, IsDesk
<1>4. ASSUME ListAnswered(i) PROVE DeskSo(desk', pass, mailed)
  <2> DEFINE old  == Unloaded(i)
             next == [old EXCEPT !.rows = load.answer.rows, !.totals = load.answer.totals,
                                 !.available = load.answer.available]
  <2>1. load.answer # None /\ \E f : desk' = Refiltered(next, f)
    BY <1>4 DEF ListAnswered
  <2>2. AllSo(load.answer.rows, pass, mailed)
    BY <1>2, <2>1 DEF LoadSo
  <2>3. DeskSo(old, pass, mailed)
    BY UnloadedSo
  <2> HIDE DEF old, load
  <2>4. DeskSo(next, pass, mailed)
    BY <2>2, <2>3 DEF DeskSo, IsDesk
  <2> HIDE DEF next
  <2> QED
    BY <2>1, <2>4, RefilteredSo
<1>5. ASSUME ListFails(i) PROVE DeskSo(desk', pass, mailed)
  BY <1>5, UnloadedSo DEF ListFails
<1> QED
  BY <1>1, <1>3, <1>4, <1>5, DeskAlone

\* A step of the server is about a call that is so.
LEMMA CallIs ==
  ASSUME NEW ps, NEW ml, DeskSo(desk, ps, ml), NEW k \in Kinds
  PROVE  CallSo(k, desk.calls[k], ps, ml)
  BY DEF DeskSo, CallsSo

LEMMA ServeCreateStep ==
  ASSUME ServiceSo(pass, mailed), DeskSo(desk, pass, mailed), ServeCreate
  PROVE  DeskMoves
<1> DEFINE c == desk.calls["create"]
<1>1. CallSo("create", c, pass, mailed) /\ c.phase = "sent"
  <2>1. "create" \in Kinds
    BY DEF Kinds
  <2>2. c.phase = "sent"
    BY ZenonT(60) DEF ServeCreate
  <2> QED
    BY <2>1, <2>2, CallIs
<1>2. ASSUME NEW ids \in SUBSET Ids, Issue(ids), ids # {},
             IF c.mail
             THEN desk' = WithCall(desk, "create", [c EXCEPT !.phase = "mailing", !.about = ids,
                                                            !.available = Availability'])
             ELSE Answers("create", [c EXCEPT !.about = ids], "ok")
      PROVE  DeskMoves
  <2>1. ServiceMoves /\ AllIssued(ids, pass')
    BY <1>2, IssueMoves DEF AllIssued
  <2>2. DeskSo(desk, pass', mailed')
    BY <2>1, DeskMovesOn
  <2>3. IsCall(c)
    BY <1>1 DEF CallSo
  <2>4. CallSo("create", c, pass', mailed')
    BY <2>2, CallIs DEF Kinds
  <2>5. CASE c.mail
    <3> DEFINE left == Availability'
               new  == [c EXCEPT !.phase = "mailing", !.about = ids, !.available = left]
    <3>1. desk' = WithCall(desk, "create", new)
      BY <1>2, <2>5
    <3> HIDE DEF c
    <3>2. IsCall(new) /\ new.phase = "mailing" /\ new.about = ids /\ new.rows = c.rows /\ new.sent = c.sent
      BY <2>3 DEF IsCall
    <3> HIDE DEF new
    <3>3. CallSo("create", new, pass', mailed')
      BY <1>1, <1>2, <2>1, <2>4, <3>2 DEF CallSo
    <3> QED
      BY <2>1, <2>2, <3>1, <3>3, CallPlaced DEF DeskMoves, Kinds
  <2>6. CASE ~c.mail
    <3> DEFINE new == [c EXCEPT !.about = ids]
    <3>1. Answers("create", new, "ok")
      BY <1>2, <2>6
    <3> HIDE DEF c
    <3>2. IsCall(new) /\ new.about = ids /\ new.rows = c.rows /\ new.sent = c.sent
      BY <2>3 DEF IsCall
    <3> HIDE DEF new
    <3>3. ServiceSo(pass', mailed') /\ AllSo(c.rows, pass', mailed') /\ c.sent = {}
      BY <1>1, <2>1, <2>4 DEF ServiceMoves, CallSo
    <3> QED
      BY <1>2, <2>1, <2>2, <3>1, <3>2, <3>3, AnswersSo DEF DeskMoves, Kinds
  <2> QED
    BY <2>5, <2>6
<1>3. ASSUME UNCHANGED serviceVars, Answers("create", c, "refused")
      PROVE  DeskMoves
  <2>1. ServiceMoves /\ ServiceSo(pass', mailed')
    BY <1>3, PassesStay DEF serviceVars, ServiceMoves
  <2>2. DeskSo(desk, pass', mailed')
    BY <2>1, DeskMovesOn
  <2>3. IsCall(c) /\ AllIssued(c.about, pass') /\ AllSo(c.rows, pass', mailed') /\ c.sent \subseteq c.about
    BY <2>2, CallIs DEF CallSo, Kinds
  <2> HIDE DEF c
  <2> QED
    BY <1>3, <2>1, <2>2, <2>3, AnswersSo DEF DeskMoves, Kinds
<1> QED
  BY ZenonT(60), <1>2, <1>3 DEF ServeCreate, Issue

LEMMA ServeLimitStep ==
  ASSUME ServiceSo(pass, mailed), DeskSo(desk, pass, mailed), ServeLimit
  PROVE  DeskMoves
<1> DEFINE c == desk.calls["limit"]
<1>1. UNCHANGED <<pass, mailed>> /\ Answers("limit", c, "ok")
  BY DEF ServeLimit, SetTicketLimit
<1>2. ServiceMoves /\ ServiceSo(pass', mailed')
  BY <1>1, PassesStay DEF ServiceMoves
<1>3. DeskSo(desk, pass', mailed')
  BY <1>2, DeskMovesOn
<1>4. IsCall(c) /\ AllIssued(c.about, pass') /\ AllSo(c.rows, pass', mailed') /\ c.sent \subseteq c.about
  BY <1>3, CallIs DEF CallSo, Kinds
<1> HIDE DEF c
<1> QED
  BY <1>1, <1>2, <1>3, <1>4, AnswersSo DEF DeskMoves, Kinds

LEMMA ServeInvalidateStep ==
  ASSUME ServiceSo(pass, mailed), DeskSo(desk, pass, mailed), ServeInvalidate
  PROVE  DeskMoves
<1> DEFINE c == desk.calls["invalidate"]
<1>1. InvalidatePasses(c.about) /\ Answers("invalidate", c, "ok")
  BY DEF ServeInvalidate
<1>2. AllIssued(c.about, pass)
  BY CallIs DEF CallSo, Kinds
<1>3. ServiceMoves /\ ServiceSo(pass', mailed') /\ \A p \in c.about : pass'[p].invalidated
  BY <1>1, <1>2, InvalidateMoves DEF AllIssued, ServiceMoves
<1>4. DeskSo(desk, pass', mailed')
  BY <1>3, DeskMovesOn
<1>5. IsCall(c) /\ AllIssued(c.about, pass') /\ AllSo(c.rows, pass', mailed') /\ c.sent \subseteq c.about
  BY <1>4, CallIs DEF CallSo, Kinds
<1> HIDE DEF c
<1> QED
  BY <1>1, <1>3, <1>4, <1>5, AnswersSo DEF DeskMoves, Kinds

LEMMA ServeMailStep ==
  ASSUME ServiceSo(pass, mailed), DeskSo(desk, pass, mailed), NEW k \in Kinds, ServeMail(k)
  PROVE  DeskMoves
<1> DEFINE c == desk.calls[k]
<1>1. PICK taken \in SUBSET c.about : \E sent \in SUBSET taken :
        /\ MailPasses(taken)
        /\ desk' = WithCall(desk, k, [c EXCEPT
                     !.phase = IF sent = {} THEN "regretting" ELSE "recording", !.sent = sent])
  BY Zenon DEF ServeMail
<1>11. PICK sent \in SUBSET taken :
        /\ MailPasses(taken)
        /\ desk' = WithCall(desk, k, [c EXCEPT
                     !.phase = IF sent = {} THEN "regretting" ELSE "recording", !.sent = sent])
  BY Zenon, <1>1
<1>2. c.phase = "mailing" /\ pass' = pass /\ mailed' = mailed \cup taken
  BY <1>11 DEF ServeMail, MailPasses
<1>3. ServiceMoves
  BY <1>2, PassesStay
<1>4. DeskSo(desk, pass', mailed')
  BY <1>3, DeskMovesOn
<1>5. CallSo(k, c, pass', mailed')
  BY <1>4, CallIs
<1> DEFINE phase == IF sent = {} THEN "regretting" ELSE "recording"
           new   == [c EXCEPT !.phase = phase, !.sent = sent]
<1>6. desk' = WithCall(desk, k, new)
  BY <1>11
<1>7. sent \subseteq c.about /\ sent \subseteq mailed'
  BY <1>1, <1>2, <1>11
<1>8. phase \in {"recording", "regretting"} /\ (phase = "regretting" => sent = {})
  OBVIOUS
<1> HIDE DEF c, phase
<1>9. /\ IsCall(new) /\ new.phase = phase /\ new.sent = sent /\ new.about = c.about /\ new.rows = c.rows
  BY <1>5 DEF CallSo, IsCall
<1> HIDE DEF new
<1>10. CallSo(k, new, pass', mailed')
  BY <1>2, <1>5, <1>7, <1>8, <1>9 DEF CallSo
<1> QED
  BY <1>3, <1>4, <1>6, <1>10, CallPlaced DEF DeskMoves

LEMMA ServeRecordStep ==
  ASSUME ServiceSo(pass, mailed), DeskSo(desk, pass, mailed), NEW k \in Kinds, ServeRecord(k)
  PROVE  DeskMoves
<1> DEFINE c == desk.calls[k]
<1>1. /\ c.phase = "recording" /\ RecordEmail(c.sent, "sent")
      /\ \/ c.sent = c.about /\ AnswersWith(k, c, c.sent, "ok")
         \/ desk' = WithCall(desk, k, [WithRows(c, c.sent) EXCEPT !.phase = "regretting"])
  BY DEF ServeRecord
<1>2. CallSo(k, c, pass, mailed)
  BY CallIs
<1>3. /\ AllIssued(c.about, pass) /\ c.sent \subseteq c.about /\ k \in {"create", "email"}
      /\ k = "create" => c.about # {}
  BY <1>1, <1>2 DEF CallSo
<1>4. ServiceMoves /\ ServiceSo(pass', mailed') /\ c.sent \subseteq mailed'
  BY <1>1, <1>3, RecordMoves DEF AllIssued, ServiceMoves
<1>5. DeskSo(desk, pass', mailed')
  BY <1>4, DeskMovesOn
<1>6. CallSo(k, c, pass', mailed')
  BY <1>5, CallIs
<1>7. IsCall(c) /\ AllIssued(c.about, pass') /\ AllIssued(c.sent, pass') /\ AllSo(c.rows, pass', mailed')
  BY <1>3, <1>6 DEF CallSo, AllIssued
<1>8. ASSUME c.sent = c.about, AnswersWith(k, c, c.sent, "ok")
      PROVE  DeskMoves
  <2> HIDE DEF c
  <2> QED
    BY <1>3, <1>4, <1>5, <1>7, <1>8, AnswersWithSo DEF DeskMoves
<1>9. ASSUME desk' = WithCall(desk, k, [WithRows(c, c.sent) EXCEPT !.phase = "regretting"])
      PROVE  DeskMoves
  <2> DEFINE w   == WithRows(c, c.sent)
             new == [w EXCEPT !.phase = "regretting"]
  <2>1. desk' = WithCall(desk, k, new)
    BY <1>9
  <2> HIDE DEF c
  <2>2. /\ IsCall(w) /\ w.about = c.about /\ w.sent = c.sent /\ AllSo(w.rows, pass', mailed')
        /\ \A p \in c.sent : \E r \in w.rows : r.id = p
    BY <1>4, <1>7, RowsTaken
  <2> HIDE DEF w
  <2>3. /\ IsCall(new) /\ new.phase = "regretting" /\ new.rows = w.rows /\ new.about = c.about
        /\ new.sent = c.sent
    BY <2>2 DEF IsCall
  <2> HIDE DEF new
  <2>4. CallSo(k, new, pass', mailed')
    BY <1>3, <1>7, <2>2, <2>3 DEF CallSo
  <2> QED
    BY <1>4, <1>5, <2>1, <2>4, CallPlaced DEF DeskMoves
<1> QED
  BY <1>1, <1>8, <1>9

LEMMA ServeRegretStep ==
  ASSUME ServiceSo(pass, mailed), DeskSo(desk, pass, mailed), NEW k \in Kinds, ServeRegret(k)
  PROVE  DeskMoves
<1> DEFINE c      == desk.calls[k]
           failed == c.about \ c.sent
           status == IF k = "create" THEN "ok" ELSE "failed"
<1>1. c.phase = "regretting" /\ RecordEmail(failed, "failed") /\ AnswersWith(k, c, failed, status)
  BY DEF ServeRegret
<1>2. CallSo(k, c, pass, mailed)
  BY CallIs
<1>3. /\ AllIssued(c.about, pass) /\ k \in {"create", "email"}
      /\ k = "create" => c.about # {}
  BY <1>1, <1>2 DEF CallSo
<1>4. ServiceMoves /\ ServiceSo(pass', mailed')
  BY <1>1, <1>3, RecordMoves DEF AllIssued, ServiceMoves
<1>5. DeskSo(desk, pass', mailed')
  BY <1>4, DeskMovesOn
<1>6. CallSo(k, c, pass', mailed')
  BY <1>5, CallIs
<1>7. /\ IsCall(c) /\ AllIssued(c.about, pass') /\ AllSo(c.rows, pass', mailed')
      /\ c.sent \subseteq c.about
      /\ \A p \in c.about \ failed : \E r \in c.rows : r.id = p
  BY <1>1, <1>6 DEF CallSo
<1>8. (status = "ok" => k = "create") /\ failed \in SUBSET c.about
  OBVIOUS
<1> HIDE DEF c, status, failed
<1> QED
  BY <1>1, <1>3, <1>4, <1>5, <1>7, <1>8, AnswersWithSo DEF DeskMoves

LEMMA ShownAgainSo ==
  ASSUME NEW ps, NEW ml, DeskSo(desk, ps, ml), NEW c, NEW rows, AllSo(rows, ps, ml)
  PROVE  PreviewSo(ShownAgain(c, rows), ps, ml)
<1>1. CASE \E r \in rows : r.id = c.preview
  <2>1. ShownAgain(c, rows) \in rows
    BY <1>1 DEF ShownAgain
  <2> QED
    BY <2>1 DEF PreviewSo, AllSo
<1>2. CASE ~ \E r \in rows : r.id = c.preview
  BY <1>2 DEF ShownAgain, DeskSo
<1> QED
  BY <1>1, <1>2

LEMMA CallDone ==
  ASSUME NEW ps, NEW ml, NEW d, DeskSo(d, ps, ml), NEW k \in Kinds
  PROVE  DeskSo(WithCall(d, k, NoCall), ps, ml)
  BY SMTT(30), CallPlaced, NoCallSo

LEMMA CreateAnsweredStep ==
  ASSUME ServiceSo(pass, mailed), DeskSo(desk, pass, mailed), CreateAnswered
  PROVE  DeskMoves
<1> DEFINE c == desk.calls["create"]
           first == CHOOSE r \in c.rows : \A other \in c.rows : r.id <= other.id
           toast == IF c.mail /\ \A r \in c.rows : r.email = "sent"
                    THEN Tells("emailed", c.about) ELSE Tells("issued", c.about)
           free == [desk EXCEPT !.available = c.available]
           done == WithCall(free, "create", NoCall)
           told == [done EXCEPT !.preview = first, !.typed = FALSE, !.toast = toast]
<1>1. UNCHANGED serviceVars /\ c.phase = "answered"
  BY DEF CreateAnswered
<1>2. CallSo("create", c, pass, mailed)
  BY CallIs DEF Kinds
<1>3. DeskSo(done, pass, mailed)
  <2>1. DeskSo(free, pass, mailed)
    BY DEF DeskSo, IsDesk
  <2> HIDE DEF free
  <2> QED
    BY <2>1, CallDone DEF Kinds
<1>4. CASE desk' = WithCall(desk, "create", NoCall) \/ desk' = done
  BY <1>1, <1>3, <1>4, CallDone, DeskAlone DEF Kinds
<1>5. ASSUME c.status = "ok",
             \E f, g : desk' = Refiltered(Sent(told, Load(f, TRUE)), g)
      PROVE  DeskMoves
  <2>1. c.about # {} /\ AllIssued(c.about, pass) /\ AllSo(c.rows, pass, mailed)
        /\ \A p \in c.about : \E r \in c.rows : r.id = p
    BY <1>1, <1>2, <1>5 DEF CallSo
  <2>2. first \in c.rows
    <3> DEFINE ids == {r.id : r \in c.rows}
    <3>1. ids \in SUBSET (1..MaxPasses) /\ ids # {}
      BY <2>1 DEF AllSo, So, Rows, Ids
    <3> HIDE DEF ids
    <3>2. PICK n \in ids : \A m \in ids : n <= m
      BY <3>1, SmallestOf
    <3>3. \E r \in c.rows : \A other \in c.rows : r.id <= other.id
      BY <3>2 DEF ids
    <3> QED
      BY <3>3
  <2>3. ToastSo(toast, pass, mailed)
    <3>1. CASE c.mail /\ \A r \in c.rows : r.email = "sent"
      <4>1. c.about \subseteq mailed
        BY <2>1, <3>1 DEF AllSo, So
      <4> QED
        BY <2>1, <3>1, <4>1 DEF ToastSo, Tells
    <3>2. CASE ~(c.mail /\ \A r \in c.rows : r.email = "sent")
      BY <2>1, <3>2 DEF ToastSo, Tells
    <3> QED
      BY <3>1, <3>2
  <2>4. PreviewSo(first, pass, mailed)
    BY <2>1, <2>2 DEF PreviewSo, AllSo
  <2> HIDE DEF done, first, toast
  <2>5. DeskSo(told, pass, mailed)
    BY <1>3, <2>3, <2>4 DEF DeskSo, IsDesk
  <2> HIDE DEF told
  <2>6. PICK f, g : desk' = Refiltered(Sent(told, Load(f, TRUE)), g)
    BY <1>5
  <2>7. DeskSo(Sent(told, Load(f, TRUE)), pass, mailed)
    BY <2>5, NewLoadSo, SentSo
  <2> QED
    BY <1>1, <2>6, <2>7, RefilteredSo, DeskAlone
<1> QED
  BY <1>4, <1>5 DEF CreateAnswered

LEMMA LimitAnsweredStep ==
  ASSUME ServiceSo(pass, mailed), DeskSo(desk, pass, mailed), LimitAnswered
  PROVE  DeskMoves
<1>1. UNCHANGED serviceVars
  BY DEF LimitAnswered
<1>2. PICK v : \/ desk' = WithCall([desk EXCEPT !.available = v], "limit", NoCall)
               \/ desk' = WithCall(desk, "limit", NoCall)
  BY DEF LimitAnswered
<1>3. DeskSo([desk EXCEPT !.available = v], pass, mailed)
  BY DEF DeskSo, IsDesk
<1> QED
  BY <1>1, <1>2, <1>3, CallDone, DeskAlone DEF Kinds

LEMMA EmailAnsweredStep ==
  ASSUME ServiceSo(pass, mailed), DeskSo(desk, pass, mailed), EmailAnswered
  PROVE  DeskMoves
<1> DEFINE c == desk.calls["email"]
           new(r) == IF \E s \in c.rows : s.id = r.id THEN CHOOSE s \in c.rows : s.id = r.id ELSE r
           rows == {new(r) : r \in desk.rows}
           view == ShownAgain(c, c.rows)
           kept == [desk EXCEPT !.rows = rows, !.preview = view]
           toast == Tells("emailed", c.about)
           told == [kept EXCEPT !.toEmail = None, !.toast = toast]
<1>1. UNCHANGED serviceVars /\ c.phase = "answered"
      /\ desk' = WithCall(IF Emailed(c) THEN told ELSE kept, "email", NoCall)
  BY DEF EmailAnswered
<1>2. CallSo("email", c, pass, mailed)
  BY CallIs DEF Kinds
<1>3. AllIssued(c.about, pass) /\ AllSo(c.rows, pass, mailed)
  BY <1>2 DEF CallSo
<1>4. AllSo(rows, pass, mailed)
  <2> SUFFICES ASSUME NEW r \in desk.rows PROVE So(new(r), pass, mailed)
    BY DEF AllSo
  <2>1. So(r, pass, mailed)
    BY DEF DeskSo, AllSo
  <2>2. CASE \E s \in c.rows : s.id = r.id
    <3>1. new(r) \in c.rows
      BY <2>2
    <3> QED
      BY <1>3, <3>1 DEF AllSo
  <2> QED
    BY <2>1, <2>2
<1>5. PreviewSo(view, pass, mailed)
  BY <1>3, ShownAgainSo
<1> HIDE DEF rows, view
<1>6. DeskSo(kept, pass, mailed)
  BY <1>4, <1>5 DEF DeskSo, IsDesk
<1>7. ASSUME Emailed(c) PROVE DeskSo(told, pass, mailed)
  <2>1. ToastSo(toast, pass, mailed)
    BY <1>1, <1>2, <1>3, <1>7 DEF Emailed, CallSo, ToastSo, Tells
  <2> HIDE DEF kept, toast
  <2> QED
    BY <1>6, <2>1 DEF DeskSo, IsDesk, NamesIssued
<1> HIDE DEF kept, told
<1>8. DeskSo(desk', pass, mailed)
  BY SMTT(30), <1>1, <1>6, <1>7, CallDone DEF Kinds
<1> QED
  BY <1>1, <1>8, DeskAlone

LEMMA InvalidateAnsweredStep ==
  ASSUME ServiceSo(pass, mailed), DeskSo(desk, pass, mailed), InvalidateAnswered
  PROVE  DeskMoves
<1> DEFINE c == desk.calls["invalidate"]
           less(n) == IF n = 0 THEN 0 ELSE n - 1
           rows == {r \in desk.rows : r.id \notin c.about}
           cut == [desk EXCEPT !.rows = rows]
           one == [cut EXCEPT !.totals.active = less(desk.totals.active)]
           two == [one EXCEPT !.totals.total = less(desk.totals.total)]
           three == [two EXCEPT !.totals.invalidated = desk.totals.invalidated + 1]
           view == ShownAgain(c, c.rows)
           toast == Tells("invalidated", c.about)
           gone == [three EXCEPT !.available = c.available, !.preview = view,
                                 !.toInvalidate = None, !.toast = toast]
<1>1. UNCHANGED serviceVars /\ c.phase = "answered"
  BY DEF InvalidateAnswered
<1>2. CallSo("invalidate", c, pass, mailed)
  BY CallIs DEF Kinds
<1>3. ASSUME c.status = "ok", \E f : desk' = Sent(WithCall(gone, "invalidate", NoCall), Load(f, TRUE))
      PROVE  DeskMoves
  <2>1. /\ AllIssued(c.about, pass) /\ AllSo(c.rows, pass, mailed)
        /\ \A p \in c.about : pass[p].invalidated
    BY <1>1, <1>2, <1>3 DEF CallSo
  <2>2. PreviewSo(view, pass, mailed) /\ ToastSo(toast, pass, mailed)
    BY <2>1, ShownAgainSo DEF ToastSo, Tells
  <2>3. AllSo(rows, pass, mailed)
    BY DEF DeskSo, AllSo
  <2> HIDE DEF rows, view, toast
  <2>4. DeskSo(cut, pass, mailed)
    BY <2>3 DEF DeskSo, IsDesk
  <2> HIDE DEF cut, less
  <2>5. DeskSo(one, pass, mailed)
    BY <2>4 DEF DeskSo, IsDesk
  <2> HIDE DEF one
  <2>6. DeskSo(two, pass, mailed)
    BY <2>5 DEF DeskSo, IsDesk
  <2> HIDE DEF two
  <2>7. DeskSo(three, pass, mailed)
    BY <2>6 DEF DeskSo, IsDesk
  <2> HIDE DEF three
  <2>8. DeskSo(gone, pass, mailed)
    BY <2>2, <2>7 DEF DeskSo, IsDesk, NamesIssued
  <2> HIDE DEF gone
  <2>9. DeskSo(WithCall(gone, "invalidate", NoCall), pass, mailed)
    BY <2>8, CallDone DEF Kinds
  <2>10. DeskSo(desk', pass, mailed)
    BY <1>3, <2>9, NewLoadSo, SentSo
  <2> QED
    BY <1>1, <2>10, DeskAlone
<1>4. CASE desk' = WithCall(desk, "invalidate", NoCall)
  BY <1>1, <1>4, CallDone, DeskAlone DEF Kinds
<1>5. \/ desk' = WithCall(desk, "invalidate", NoCall)
      \/ c.status = "ok" /\ desk' = Sent(WithCall(gone, "invalidate", NoCall), Load(c.filters, TRUE))
  BY DEF InvalidateAnswered
<1> QED
  BY <1>3, <1>4, <1>5

LEMMA CallBreaks ==
  ASSUME ServiceSo(pass, mailed), DeskSo(desk, pass, mailed), NEW k \in Kinds,
         ServeError(k) \/ ConnectionFails(k) \/ BodyLost(k)
  PROVE  DeskMoves
<1> DEFINE c == desk.calls[k]
<1>1. UNCHANGED serviceVars
  BY DEF ServeError, ConnectionFails, BodyLost
<1>2. CallSo(k, c, pass, mailed) /\ IsCall(c) /\ AllIssued(c.about, pass) /\ AllIssued({}, pass)
  BY CallIs DEF CallSo, AllIssued
<1>3. IsCall(NoCall) /\ NoCall.rows = {} /\ NoCall.sent = {}
  BY DEF NoCall, IsCall
<1>4. ASSUME NEW phase, NEW status, NEW about, AllIssued(about, pass),
             phase = "stuck" \/ (phase = "answered" /\ status # "ok"),
             desk' = WithCall(desk, k, [NoCall EXCEPT !.phase = phase, !.status = status, !.about = about])
      PROVE  DeskSo(desk', pass, mailed)
  <2> DEFINE new == [NoCall EXCEPT !.phase = phase, !.status = status, !.about = about]
  <2>1. IsCall(new) /\ new.phase = phase /\ new.status = status /\ new.about = about /\ new.rows = {}
        /\ new.sent = {}
    BY <1>3 DEF IsCall
  <2>2. desk' = WithCall(desk, k, new)
    BY <1>4
  <2> HIDE DEF new
  <2>3. CallSo(k, new, pass, mailed)
    BY <1>4, <2>1, PendingSo
  <2> QED
    BY <2>2, <2>3, CallPlaced
<1>5. CASE ServeError(k)
  <2> DEFINE about == IF k \in {"email", "invalidate"} THEN c.about ELSE {}
  <2>1. desk' = WithCall(desk, k, [NoCall EXCEPT !.phase = "answered", !.status = "error", !.about = about])
    BY <1>5 DEF ServeError
  <2>2. AllIssued(about, pass)
    BY <1>2
  <2> HIDE DEF about
  <2> QED
    <3>1. DeskSo(desk', pass, mailed)
      BY ZenonT(60), <1>4, <2>1, <2>2
    <3> QED
      BY <1>1, <3>1, DeskAlone
<1>6. CASE ConnectionFails(k)
  <2> DEFINE new == [NoCall EXCEPT !.phase = "stuck", !.about = c.about]
  <2>1. desk' = WithCall(desk, k, new)
    BY <1>6 DEF ConnectionFails
  <2> HIDE DEF c
  <2>2. IsCall(new) /\ new.phase = "stuck" /\ new.about = c.about /\ new.rows = {} /\ new.sent = {}
    BY <1>3 DEF IsCall
  <2> HIDE DEF new
  <2>3. CallSo(k, new, pass, mailed)
    BY <1>2, <2>2, PendingSo
  <2> QED
    BY <1>1, <2>1, <2>3, CallPlaced, DeskAlone
<1>7. CASE BodyLost(k)
  <2>1. CASE desk' = WithCall(desk, k, NoCall)
    BY <1>1, <2>1, CallDone, DeskAlone
  <2>2. CASE /\ k \in {"invalidate", "email"} /\ c.phase = "answered"
             /\ desk' = WithCall(desk, k, [c EXCEPT !.rows = {}])
    <3> DEFINE new == [c EXCEPT !.rows = {}]
    <3>1. desk' = WithCall(desk, k, new)
      BY <2>2
    <3> HIDE DEF c
    <3>2. IsCall(new) /\ new.rows = {} /\ new.phase = c.phase /\ new.status = c.status /\ new.about = c.about
          /\ new.sent = c.sent
      BY <1>2 DEF IsCall
    <3> HIDE DEF new
    <3>3. CallSo(k, new, pass, mailed)
      BY <1>2, <2>2, <3>2 DEF CallSo, AllSo
    <3> QED
      BY <1>1, <3>1, <3>3, CallPlaced, DeskAlone
  <2> QED
    BY <1>7, <2>1, <2>2 DEF BodyLost
<1> QED
  BY <1>5, <1>6, <1>7

LEMMA DeskStep ==
  ASSUME ServiceSo(pass, mailed), DeskSo(desk, pass, mailed), DeskClicks \/ DeskGoesOn \/ DeskFails
  PROVE  DeskMoves
<1>1. CASE DeskClicks
  BY <1>1, FilterStep, DialogStep, CallStep DEF DeskClicks
<1>2. CASE DeskGoesOn
  BY <1>2, FilterStep, ListStep, ServeCreateStep, ServeLimitStep, ServeInvalidateStep, ServeMailStep,
     ServeRecordStep, ServeRegretStep, CreateAnsweredStep, LimitAnsweredStep, EmailAnsweredStep, InvalidateAnsweredStep
     DEF DeskGoesOn
<1>3. CASE DeskFails
  BY <1>3, ListStep, CallBreaks DEF DeskFails
<1> QED
  BY <1>1, <1>2, <1>3

-----------------------------------------------------------------------------
(* The door                                                                   *)

Redeems == [pass: Ids, stage: {"stopping", "sent", "redeemed", "answered", "reading"},
            status: {"none", "valid", "used", "invalid", "frozen", "error"}]

IsDoor(d) ==
  d \in [visible: {d.visible}, starting: {d.starting}, frame: {d.frame}, start: {d.start},
         camera: {d.camera}, scanned: {d.scanned}, redeeming: {d.redeeming}, result: {d.result},
         error: {d.error}, redeems: {d.redeems}, resets: {d.resets}]

\* A pass that a pending request has won was used by it, and was shown by no door yet; no
\* other request has won it.
RedeemsSo(rs, ps, adm) ==
  /\ rs \in Seq(Redeems)
  /\ \A i \in 1..Len(rs) : rs[i].status = "valid" => ps[rs[i].pass].used /\ rs[i].pass \notin adm
  /\ \A i, j \in 1..Len(rs) :
       i # j /\ rs[i].status = "valid" /\ rs[j].status = "valid" => rs[i].pass # rs[j].pass

AdmittedSo(ps, adm) == \A p \in Ids : p \in adm => ps[p].used

DoorSo(d, ps, adm) == IsDoor(d) /\ RedeemsSo(d.redeems, ps, adm)

DoorOK == AdmittedSo(pass, admitted) /\ (door # None => DoorSo(door, pass, admitted))

\* What AcceptedOnce says of a step.
NewlyAccepted == \A p \in Ids : Accepts(door', p) /\ ~Accepts(door, p) => p \notin admitted

LEMMA RedeemBegins ==
  ASSUME NEW rs, NEW ps, NEW adm, RedeemsSo(rs, ps, adm), NEW r \in Redeems, r.status = "none"
  PROVE  RedeemsSo(Append(rs, r), ps, adm)
<1> DEFINE new == Append(rs, r)
<1>1. rs \in Seq(Redeems) /\ Len(rs) \in Nat
  BY LenProperties DEF RedeemsSo
<1>2. /\ new \in Seq(Redeems) /\ Len(new) = Len(rs) + 1
      /\ \A i \in 1..Len(rs) : new[i] = rs[i]
      /\ new[Len(rs) + 1] = r
  BY <1>1, AppendProperties
<1> HIDE DEF new
<1>3. \A i \in 1..Len(new) : new[i].status = "valid" => i \in 1..Len(rs) /\ new[i] = rs[i]
  BY <1>1, <1>2
<1>4. \A i \in 1..Len(new) : new[i].status = "valid" => ps[new[i].pass].used /\ new[i].pass \notin adm
  BY <1>3 DEF RedeemsSo
<1>5. \A i, j \in 1..Len(new) :
        i # j /\ new[i].status = "valid" /\ new[j].status = "valid" => new[i].pass # new[j].pass
  BY <1>3 DEF RedeemsSo
<1>6. RedeemsSo(new, ps, adm)
  BY <1>2, <1>4, <1>5 DEF RedeemsSo
<1> QED
  BY <1>6 DEF new

\* A request that ends leaves the pass it has won to the door, which may show it.
LEMMA RedeemOver ==
  ASSUME NEW rs, NEW ps, NEW adm, RedeemsSo(rs, ps, adm), NEW i \in 1..Len(rs)
  PROVE  /\ RedeemsSo(RemoveAt(rs, i), ps, adm)
         /\ rs[i].status = "valid" => RedeemsSo(RemoveAt(rs, i), ps, adm \cup {rs[i].pass})
<1> DEFINE new == RemoveAt(rs, i)
<1>1. rs \in Seq(Redeems)
  BY DEF RedeemsSo
<1>2. /\ new \in Seq(Redeems) /\ Len(new) = Len(rs) - 1
      /\ \A j \in 1..(Len(rs) - 1) :
           Before(i, j) \in 1..Len(rs) /\ Before(i, j) # i /\ new[j] = rs[Before(i, j)]
  BY <1>1, RemoveAtIs
<1>3. Len(rs) \in Nat
  BY <1>1, LenProperties
<1>4. \A j, k \in 1..(Len(rs) - 1) : j # k => Before(i, j) # Before(i, k)
  BY <1>3 DEF Before
<1> HIDE DEF new
<1>5. \A j \in 1..Len(new) : new[j].status = "valid" =>
        /\ ps[new[j].pass].used /\ new[j].pass \notin adm
        /\ rs[i].status = "valid" => new[j].pass # rs[i].pass
  BY <1>2 DEF RedeemsSo
<1>6. \A j, k \in 1..Len(new) :
        j # k /\ new[j].status = "valid" /\ new[k].status = "valid" => new[j].pass # new[k].pass
  <2> SUFFICES ASSUME NEW j \in 1..Len(new), NEW k \in 1..Len(new), j # k,
                      new[j].status = "valid", new[k].status = "valid"
               PROVE  new[j].pass # new[k].pass
    OBVIOUS
  <2>1. /\ Before(i, j) \in 1..Len(rs) /\ Before(i, k) \in 1..Len(rs) /\ Before(i, j) # Before(i, k)
        /\ new[j] = rs[Before(i, j)] /\ new[k] = rs[Before(i, k)]
    BY <1>2, <1>4
  <2> QED
    BY <2>1 DEF RedeemsSo
<1>7. /\ RedeemsSo(new, ps, adm)
      /\ rs[i].status = "valid" => RedeemsSo(new, ps, adm \cup {rs[i].pass})
  BY <1>2, <1>5, <1>6 DEF RedeemsSo
<1> QED
  BY <1>7 DEF new

\* A request goes on, without winning a pass by it.
LEMMA RedeemGoesOn ==
  ASSUME NEW rs, NEW ps, NEW adm, RedeemsSo(rs, ps, adm), NEW i \in 1..Len(rs),
         NEW r \in Redeems, r.pass = rs[i].pass, r.status = "valid" => rs[i].status = "valid"
  PROVE  RedeemsSo([rs EXCEPT ![i] = r], ps, adm)
<1> DEFINE new == [rs EXCEPT ![i] = r]
<1>1. /\ new \in Seq(Redeems) /\ Len(new) = Len(rs)
      /\ \A j \in 1..Len(rs) : new[j] = IF j = i THEN r ELSE rs[j]
  BY ExceptSeq DEF RedeemsSo
<1> HIDE DEF new
<1>2. \A j \in 1..Len(new) :
        new[j].pass = rs[j].pass /\ (new[j].status = "valid" => rs[j].status = "valid")
  BY <1>1
<1>3. RedeemsSo(new, ps, adm)
  BY <1>1, <1>2 DEF RedeemsSo
<1> QED
  BY <1>3 DEF new

\* Passes that become used, by whomever, were won by no request of this page.
LEMMA RedeemsStay ==
  ASSUME NEW rs, NEW ps, NEW adm, RedeemsSo(rs, ps, adm), NEW ps2, NEW adm2,
         \A p \in Ids : ps[p].used => ps2[p].used,
         \A p \in Ids : p \in adm2 => p \in adm \/ ~ps[p].used
  PROVE  RedeemsSo(rs, ps2, adm2)
<1>1. \A i \in 1..Len(rs) : rs[i] \in Redeems /\ rs[i].pass \in Ids
  <2>1. \A i \in 1..Len(rs) : rs[i] \in Redeems
    BY ElementOfSeq DEF RedeemsSo
  <2> QED
    BY <2>1 DEF Redeems
<1> QED
  BY <1>1 DEF RedeemsSo

LEMMA RenderedIs ==
  ASSUME NEW d, IsDoor(d)
  PROVE  IsDoor(Rendered(d)) /\ Rendered(d).redeems = d.redeems /\ Rendered(d).result = d.result
<1> DEFINE frame == d.visible /\ d.result = None
<1>1. Rendered(d) = d \/ Rendered(d) = [d EXCEPT !.frame = frame]
  BY DEF Rendered
<1> HIDE DEF frame
<1> QED
  BY <1>1 DEF IsDoor

DoorMoves ==
  ServiceMoves /\ DoorSo(door', pass', admitted') /\ AdmittedSo(pass', admitted') /\ NewlyAccepted

\* A step of the page that changes neither the service nor what was shown, and shows no
\* result that is new.
LEMMA DoorAlone ==
  ASSUME ServiceSo(pass, mailed), AdmittedSo(pass, admitted), door # None,
         UNCHANGED <<serviceVars, admitted>>,
         NEW d, IsDoor(d), RedeemsSo(d.redeems, pass, admitted), d.result \in {None, door.result},
         door' = d \/ door' = Rendered(d)
  PROVE  DoorMoves
<1>1. ServiceMoves
  BY PassesStay DEF serviceVars
<1>2. IsDoor(door') /\ door'.redeems = d.redeems /\ door'.result = d.result
  BY RenderedIs
<1>3. DoorSo(door', pass', admitted') /\ AdmittedSo(pass', admitted')
  BY <1>2 DEF DoorSo, serviceVars
<1>4. NewlyAccepted
  BY <1>2, NoneAssumption DEF NewlyAccepted, Accepts
<1> QED
  BY <1>1, <1>3, <1>4 DEF DoorMoves

LEMMA CameraStep ==
  ASSUME ServiceSo(pass, mailed), AdmittedSo(pass, admitted), door # None, DoorSo(door, pass, admitted),
         \/ openScanner \/ startScanner \/ CameraStarts \/ CameraFails \/ CancelScan \/ scanNext \/ SubmitNothing
         \/ \E button \in {"cancel", "next"} : resetScanner(button)
  PROVE  DoorMoves
<1>1. UNCHANGED <<serviceVars, admitted>>
  BY DEF openScanner, startScanner, CameraStarts, CameraFails, CancelScan, scanNext, SubmitNothing,
         Press, resetScanner
<1>2. IsDoor(door) /\ RedeemsSo(door.redeems, pass, admitted)
  BY DEF DoorSo
<1>3. ASSUME NEW d, IsDoor(d), d.redeems = door.redeems, d.result \in {None, door.result},
             door' = d \/ door' = Rendered(d)
      PROVE  DoorMoves
  BY <1>1, <1>2, <1>3, DoorAlone
<1>4. ASSUME NEW d, IsDoor(d)
      PROVE  IsDoor(OpenedDoor(d)) /\ OpenedDoor(d).redeems = d.redeems /\ OpenedDoor(d).result = None
  BY <1>4 DEF OpenedDoor, IsDoor
<1>5. IsDoor(Reset(door)) /\ Reset(door).redeems = door.redeems /\ Reset(door).result = None
  BY <1>2 DEF Reset, IsDoor
<1>6. CASE openScanner
  BY <1>2, <1>3, <1>4, <1>6 DEF openScanner, DoorShows
<1>13. ASSUME NEW button
       PROVE  /\ IsDoor(AfterReset(button)) /\ AfterReset(button).redeems = door.redeems
              /\ AfterReset(button).result = None
  BY <1>4, <1>5 DEF AfterReset
<1>7. ASSUME NEW button, Press(button) PROVE DoorMoves
  <2>1. CASE door' = Rendered(AfterReset(button))
    BY <1>3, <1>13, <2>1
  <2>2. CASE door' = [door EXCEPT !.resets = @ \cup {button}]
    <3> DEFINE d == [door EXCEPT !.resets = @ \cup {button}]
    <3>1. door' = d
      BY <2>2
    <3>2. IsDoor(d) /\ d.redeems = door.redeems /\ d.result = door.result
      BY <1>2 DEF IsDoor
    <3> HIDE DEF d
    <3> QED
      BY <1>3, <3>1, <3>2
  <2> QED
    BY <1>7, <2>1, <2>2 DEF Press, DoorShows
<1>8. ASSUME NEW button, resetScanner(button) PROVE DoorMoves
  <2> DEFINE after == AfterReset(button)
             d     == [after EXCEPT !.resets = @ \ {button}]
  <2>1. door' = Rendered(d)
    BY <1>8 DEF resetScanner, DoorShows
  <2>2. IsDoor(after) /\ after.redeems = door.redeems /\ after.result = None
    BY <1>13
  <2> HIDE DEF after
  <2>3. IsDoor(d) /\ d.redeems = door.redeems /\ d.result = None
    BY <2>2 DEF IsDoor
  <2> HIDE DEF d
  <2> QED
    BY <1>3, <2>1, <2>3
<1>9. CASE startScanner
  <2> DEFINE d == [door EXCEPT !.frame = FALSE, !.start = TRUE, !.starting = TRUE, !.camera = FALSE]
  <2>1. door' = d
    BY <1>9 DEF startScanner
  <2>2. IsDoor(d) /\ d.redeems = door.redeems /\ d.result = door.result
    BY <1>2 DEF IsDoor
  <2> HIDE DEF d
  <2> QED
    BY <1>3, <2>1, <2>2
<1>10. CASE CameraStarts
  <2> DEFINE d == [door EXCEPT !.start = FALSE, !.starting = FALSE, !.camera = TRUE]
  <2>1. door' = d
    BY <1>10 DEF CameraStarts
  <2>2. IsDoor(d) /\ d.redeems = door.redeems /\ d.result = door.result
    BY <1>2 DEF IsDoor
  <2> HIDE DEF d
  <2> QED
    BY <1>3, <2>1, <2>2
<1>11. CASE CameraFails
  <2> DEFINE d == [door EXCEPT !.start = FALSE, !.starting = FALSE, !.visible = FALSE, !.error = "camera"]
  <2>1. door' = Rendered(d)
    BY <1>11 DEF CameraFails, DoorShows
  <2>2. IsDoor(d) /\ d.redeems = door.redeems /\ d.result = door.result
    BY <1>2 DEF IsDoor
  <2> HIDE DEF d
  <2> QED
    BY <1>3, <2>1, <2>2
<1>12. CASE SubmitNothing
  <2> DEFINE d == [door EXCEPT !.error = "empty"]
  <2>1. door' = d
    BY <1>12 DEF SubmitNothing
  <2>2. IsDoor(d) /\ d.redeems = door.redeems /\ d.result = door.result
    BY <1>2 DEF IsDoor
  <2> HIDE DEF d
  <2> QED
    BY <1>3, <2>1, <2>2
<1> QED
  BY <1>6, <1>7, <1>8, <1>9, <1>10, <1>11, <1>12 DEF CancelScan, scanNext

LEMMA BeginStep ==
  ASSUME ServiceSo(pass, mailed), AdmittedSo(pass, admitted), door # None, DoorSo(door, pass, admitted),
         NEW p \in Ids, handleManualSubmit(p) \/ Decode(p)
  PROVE  DoorMoves
<1> DEFINE r == [pass |-> p, stage |-> "stopping", status |-> "none"]
           rs == Append(door.redeems, r)
<1>1. UNCHANGED <<serviceVars, admitted>>
  BY DEF handleManualSubmit, Decode
<1>2. IsDoor(door) /\ RedeemsSo(door.redeems, pass, admitted)
  BY DEF DoorSo
<1>3. r \in Redeems /\ r.status = "none"
  BY DEF Redeems
<1> HIDE DEF r
<1>4. RedeemsSo(rs, pass, admitted)
  BY <1>2, <1>3, RedeemBegins
<1>5. ASSUME NEW old, IsDoor(old), old.redeems = door.redeems, Begins(old, p)
      PROVE  DoorMoves
  <2> DEFINE d == [old EXCEPT !.error = "none", !.result = None, !.redeeming = TRUE, !.redeems = rs]
  <2>1. door' = Rendered(d)
    BY <1>5 DEF Begins, DoorShows, r
  <2> HIDE DEF rs
  <2>2. IsDoor(d) /\ d.redeems = rs /\ d.result = None
    BY <1>5 DEF IsDoor
  <2> HIDE DEF d
  <2> QED
    BY <1>1, <1>4, <2>1, <2>2, DoorAlone
<1>6. CASE handleManualSubmit(p)
  BY <1>2, <1>5, <1>6 DEF handleManualSubmit
<1>7. CASE Decode(p)
  <2> DEFINE old == [door EXCEPT !.scanned = TRUE]
  <2>1. Begins(old, p)
    BY <1>7 DEF Decode
  <2>2. IsDoor(old) /\ old.redeems = door.redeems
    BY <1>2 DEF IsDoor
  <2> HIDE DEF old
  <2> QED
    BY <1>5, <2>1, <2>2
<1> QED
  BY <1>6, <1>7

LEMMA RedeemIs ==
  ASSUME DoorSo(door, pass, admitted), NEW i, NEW stage, InStage(i, stage)
  PROVE  i \in 1..Len(door.redeems) /\ door.redeems[i] \in Redeems /\ door.redeems[i].stage = stage
<1>1. i \in 1..Len(door.redeems) /\ door.redeems \in Seq(Redeems)
  BY DEF InStage, DoorSo, RedeemsSo
<1> QED
  BY <1>1, ElementOfSeq DEF InStage

\* A request is sent, logged, refused or answered.
LEMMA RequestStep ==
  ASSUME ServiceSo(pass, mailed), AdmittedSo(pass, admitted), door # None, DoorSo(door, pass, admitted),
         NEW i, StopThenSend(i) \/ ServeLog(i) \/ ServeRefuses(i) \/ RedeemAnswered(i)
  PROVE  DoorMoves
<1> DEFINE rs == door.redeems
           old == rs[i]
<1>1. UNCHANGED <<serviceVars, admitted>>
  BY DEF StopThenSend, ServeLog, ServeRefuses, RedeemAnswered
<1>2. IsDoor(door) /\ RedeemsSo(rs, pass, admitted)
  BY DEF DoorSo
<1>3. i \in 1..Len(rs) /\ old \in Redeems
  BY RedeemIs DEF StopThenSend, ServeLog, ServeRefuses, RedeemAnswered
<1>4. ASSUME NEW new, new \in Seq(Redeems), RedeemsSo(new, pass, admitted), NEW d, IsDoor(d), d.redeems = new,
             d.result = door.result, door' = d \/ door' = Rendered(d)
      PROVE  DoorMoves
  BY <1>1, <1>4, DoorAlone
<1>5. ASSUME NEW r \in Redeems, r.pass = old.pass, r.status = "valid" => old.status = "valid",
             NEW free, IsDoor(free), free.redeems = rs, free.result = door.result,
             NEW d, d = [free EXCEPT !.redeems = [rs EXCEPT ![i] = r]], door' = d \/ door' = Rendered(d)
      PROVE  DoorMoves
  <2> DEFINE new == [rs EXCEPT ![i] = r]
  <2>1. RedeemsSo(new, pass, admitted)
    BY <1>2, <1>3, <1>5, RedeemGoesOn
  <2>2. d = [free EXCEPT !.redeems = new]
    BY <1>5
  <2> HIDE DEF new
  <2>3. IsDoor(d) /\ d.redeems = new /\ d.result = door.result
    BY <1>5, <2>2 DEF IsDoor
  <2> QED
    BY <1>1, <1>5, <2>1, <2>3, DoorAlone
<1>6. CASE StopThenSend(i)
  <2> DEFINE r == [old EXCEPT !.stage = "sent"]
             free == [door EXCEPT !.camera = FALSE]
  <2>1. door' = [free EXCEPT !.redeems = [rs EXCEPT ![i] = r]]
    BY <1>2, <1>6 DEF StopThenSend, IsDoor
  <2>2. IsDoor(free) /\ free.redeems = rs /\ free.result = door.result
    BY <1>2 DEF IsDoor
  <2> HIDE DEF old, free
  <2>3. r \in Redeems /\ r.pass = old.pass /\ r.status = old.status
    BY <1>3 DEF Redeems
  <2> HIDE DEF r
  <2> QED
    BY <1>5, <2>1, <2>2, <2>3
<1>7. ASSUME NEW status \in {"none", "valid", "used", "invalid", "frozen", "error"},
             status = "valid" => old.status = "valid", NEW stage \in {"redeemed", "answered"},
             Moves(i, stage, status)
      PROVE  DoorMoves
  <2> DEFINE r == [old EXCEPT !.stage = stage, !.status = status]
  <2>1. door' = [door EXCEPT !.redeems = [rs EXCEPT ![i] = r]]
    BY <1>2, <1>3, <1>7 DEF Moves, IsDoor
  <2> HIDE DEF old
  <2>2. r \in Redeems /\ r.pass = old.pass /\ r.status = status
    BY <1>3, <1>7 DEF Redeems
  <2> HIDE DEF r
  <2> QED
    BY <1>2, <1>5, <1>7, <2>1, <2>2
<1>8. CASE ServeLog(i)
  <2>1. Moves(i, "answered", old.status)
    BY <1>8 DEF ServeLog
  <2>2. old.status \in {"none", "valid", "used", "invalid", "frozen", "error"}
    BY <1>3 DEF Redeems
  <2> QED
    BY <1>7, <2>1, <2>2
<1>9. CASE ServeRefuses(i)
  <2>1. Moves(i, "answered", "frozen") \/ Moves(i, "answered", "error")
    BY <1>9 DEF ServeRefuses
  <2> QED
    BY <1>7, <2>1
<1>10. CASE RedeemAnswered(i)
  <2> DEFINE free == [door EXCEPT !.redeeming = FALSE, !.visible = FALSE]
  <2>1. IsDoor(free) /\ free.redeems = rs /\ free.result = door.result
    BY <1>2 DEF IsDoor
  <2>2. CASE Failure(i)
    <3> DEFINE new == RemoveAt(rs, i)
               d == [free EXCEPT !.error = old.status, !.redeems = new]
    <3>1. door' = Rendered(d)
      BY <1>2, <1>10, <2>2 DEF RedeemAnswered, DoorShows, IsDoor
    <3>2. RedeemsSo(new, pass, admitted)
      BY <1>2, <1>3, RedeemOver
    <3> HIDE DEF new, free, old
    <3>3. IsDoor(d) /\ d.redeems = new /\ d.result = door.result
      BY <2>1 DEF IsDoor
    <3> HIDE DEF d
    <3> QED
      BY <1>1, <3>1, <3>2, <3>3, DoorAlone
  <2>3. CASE ~Failure(i)
    <3> DEFINE r == [old EXCEPT !.stage = "reading"]
               d == [free EXCEPT !.redeems = [rs EXCEPT ![i] = r]]
    <3>1. door' = Rendered(d)
      BY <1>2, <1>10, <2>3 DEF RedeemAnswered, DoorShows, IsDoor
    <3>2. d = [free EXCEPT !.redeems = [rs EXCEPT ![i] = r]]
      OBVIOUS
    <3> HIDE DEF d, free, old
    <3>3. r \in Redeems /\ r.pass = old.pass /\ r.status = old.status
      BY <1>3 DEF Redeems
    <3> HIDE DEF r
    <3> QED
      BY <1>5, <2>1, <3>1, <3>2, <3>3
  <2> QED
    BY <2>2, <2>3
<1> QED
  BY <1>6, <1>8, <1>9, <1>10

\* The server redeems the pass or finds that it cannot.
LEMMA ServeRedeemStep ==
  ASSUME ServiceSo(pass, mailed), AdmittedSo(pass, admitted), door # None, DoorSo(door, pass, admitted),
         NEW i, ServeRedeem(i)
  PROVE  DoorMoves
<1> DEFINE rs == door.redeems
           old == rs[i]
<1>1. IsDoor(door) /\ RedeemsSo(rs, pass, admitted) /\ rs \in Seq(Redeems)
  BY DEF DoorSo, RedeemsSo
<1>2. i \in 1..Len(rs) /\ old \in Redeems
  BY RedeemIs DEF ServeRedeem
<1>3. old.pass \in Ids
  BY <1>2 DEF Redeems
<1>4. ASSUME NEW status \in {"valid", "used", "invalid"}, Moves(i, "redeemed", status)
      PROVE  \E r \in Redeems :
               /\ r.pass = old.pass /\ r.status = status
               /\ IsDoor(door') /\ door'.redeems = [rs EXCEPT ![i] = r] /\ door'.result = door.result
  <2> DEFINE r == [old EXCEPT !.stage = "redeemed", !.status = status]
             new == [rs EXCEPT ![i] = r]
  <2>1. door' = [door EXCEPT !.redeems = new]
    BY <1>1, <1>2, <1>4 DEF Moves, IsDoor
  <2>2. IsDoor(door') /\ door'.redeems = new /\ door'.result = door.result
    <3> HIDE DEF new
    <3> QED
      BY <1>1, <2>1 DEF IsDoor
  <2> HIDE DEF old
  <2>3. r \in Redeems /\ r.pass = old.pass /\ r.status = status
    BY <1>2 DEF Redeems
  <2> HIDE DEF r
  <2> QED
    BY <2>2, <2>3
<1>5. UNCHANGED admitted
  BY DEF ServeRedeem
<1>6. CASE RedeemPass(old.pass) /\ Moves(i, "redeemed", "valid")
  <2>1. PICK r \in Redeems :
          /\ r.pass = old.pass /\ r.status = "valid"
          /\ IsDoor(door') /\ door'.redeems = [rs EXCEPT ![i] = r] /\ door'.result = door.result
    BY <1>4, <1>6
  <2>2. ServiceMoves /\ ~pass[old.pass].used /\ pass'[old.pass].used
    BY <1>3, <1>6, RedeemMoves
  <2>3. \A p \in Ids : pass[p].used => pass'[p].used
    BY <2>2 DEF ServiceMoves, Later
  <2> DEFINE new == [rs EXCEPT ![i] = r]
  <2>4. /\ new \in Seq(Redeems) /\ Len(new) = Len(rs)
        /\ \A j \in 1..Len(rs) : new[j] = IF j = i THEN r ELSE rs[j]
    BY <1>1, <1>2, ExceptSeq
  <2>5. \A j \in 1..Len(rs) : rs[j] \in Redeems /\ rs[j].pass \in Ids
    <3>1. \A j \in 1..Len(rs) : rs[j] \in Redeems
      BY <1>1, ElementOfSeq
    <3> QED
      BY <3>1 DEF Redeems
  <2>6. old.pass \notin admitted
    BY <1>3, <2>2 DEF AdmittedSo
  <2> HIDE DEF new, old
  <2>7. \A j \in 1..Len(new) : new[j].status = "valid" =>
          /\ pass'[new[j].pass].used /\ new[j].pass \notin admitted
          /\ j # i => new[j].pass # r.pass
    <3> SUFFICES ASSUME NEW j \in 1..Len(new), new[j].status = "valid"
                 PROVE  /\ pass'[new[j].pass].used /\ new[j].pass \notin admitted
                        /\ j # i => new[j].pass # r.pass
      OBVIOUS
    <3>1. CASE j = i
      BY <2>1, <2>2, <2>4, <2>6, <3>1
    <3>2. CASE j # i
      <4>1. new[j] = rs[j] /\ j \in 1..Len(rs)
        BY <2>4, <3>2
      <4>2. pass[rs[j].pass].used /\ rs[j].pass \notin admitted
        BY <1>1, <4>1 DEF RedeemsSo
      <4> QED
        BY <2>1, <2>2, <2>3, <2>5, <4>1, <4>2
    <3> QED
      BY <3>1, <3>2
  <2>8. \A j, k \in 1..Len(new) :
          j # k /\ new[j].status = "valid" /\ new[k].status = "valid" => new[j].pass # new[k].pass
    <3> SUFFICES ASSUME NEW j \in 1..Len(new), NEW k \in 1..Len(new), j # k,
                        new[j].status = "valid", new[k].status = "valid"
                 PROVE  new[j].pass # new[k].pass
      OBVIOUS
    <3>1. CASE j # i /\ k # i
      BY <1>1, <2>4, <3>1 DEF RedeemsSo
    <3>2. CASE j = i \/ k = i
      BY <1>2, <2>4, <2>7, <3>2
    <3> QED
      BY <3>1, <3>2
  <2>9. RedeemsSo(new, pass', admitted)
    BY <2>4, <2>7, <2>8 DEF RedeemsSo
  <2>10. DoorSo(door', pass', admitted')
    BY <1>5, <2>1, <2>9 DEF DoorSo, new
  <2>11. AdmittedSo(pass', admitted')
    BY <1>5, <2>3 DEF AdmittedSo
  <2>12. NewlyAccepted
    BY <2>1 DEF NewlyAccepted, Accepts
  <2> QED
    BY <2>2, <2>10, <2>11, <2>12 DEF DoorMoves
<1>7. ASSUME NEW status \in {"used", "invalid"}, Moves(i, "redeemed", status), UNCHANGED serviceVars
      PROVE  DoorMoves
  <2>1. PICK r \in Redeems :
          /\ r.pass = old.pass /\ r.status = status
          /\ IsDoor(door') /\ door'.redeems = [rs EXCEPT ![i] = r] /\ door'.result = door.result
    BY <1>4, <1>7
  <2>2. RedeemsSo([rs EXCEPT ![i] = r], pass, admitted)
    BY <1>1, <1>2, <1>7, <2>1, RedeemGoesOn
  <2> QED
    BY <1>5, <1>7, <2>1, <2>2, DoorAlone
<1>8. \/ RedeemPass(old.pass) /\ Moves(i, "redeemed", "valid")
      \/ UNCHANGED serviceVars /\ \E status \in {"used", "invalid"} : Moves(i, "redeemed", status)
  BY DEF ServeRedeem
<1> QED
  BY <1>6, <1>7, <1>8

\* The answer is shown, or lost.
LEMMA RedeemEndStep ==
  ASSUME ServiceSo(pass, mailed), AdmittedSo(pass, admitted), door # None, DoorSo(door, pass, admitted),
         NEW i, ResultShown(i) \/ RedeemLost(i) \/ ResultLost(i)
  PROVE  DoorMoves
<1> DEFINE rs == door.redeems
           r == rs[i]
           new == RemoveAt(rs, i)
<1>1. IsDoor(door) /\ RedeemsSo(rs, pass, admitted)
  BY DEF DoorSo
<1>2. i \in 1..Len(rs) /\ r \in Redeems
  BY RedeemIs DEF ResultShown, RedeemLost, ResultLost
<1>3. /\ RedeemsSo(new, pass, admitted)
      /\ r.status = "valid" => RedeemsSo(new, pass, admitted \cup {r.pass})
  BY <1>1, <1>2, RedeemOver
<1>4. r.pass \in Ids /\ (r.status = "valid" => pass[r.pass].used /\ r.pass \notin admitted)
  BY <1>1, <1>2 DEF Redeems, RedeemsSo
<1>5. UNCHANGED serviceVars
  BY DEF ResultShown, RedeemLost, ResultLost
<1>6. CASE ResultShown(i)
  <2> DEFINE result == [pass |-> r.pass, status |-> r.status]
             d == [door EXCEPT !.result = result, !.redeems = new]
  <2>1. door' = Rendered(d) /\ admitted' = admitted \cup (IF r.status = "valid" THEN {r.pass} ELSE {})
    BY <1>6 DEF ResultShown, DoorShows
  <2> HIDE DEF new, r
  <2>2. result.pass = r.pass /\ result.status = r.status
    OBVIOUS
  <2> HIDE DEF result
  <2>3. IsDoor(d) /\ d.redeems = new /\ d.result = result
    BY <1>1 DEF IsDoor
  <2> HIDE DEF d
  <2>4. IsDoor(door') /\ door'.redeems = new /\ door'.result = result
    BY <2>1, <2>3, RenderedIs
  <2>5. RedeemsSo(new, pass, admitted')
    <3>1. CASE r.status = "valid"
      BY <1>3, <2>1, <3>1
    <3>2. CASE r.status # "valid"
      <4>1. admitted' = admitted
        BY <2>1, <3>2
      <4> QED
        BY <1>3, <4>1
    <3> QED
      BY <3>1, <3>2
  <2>6. AdmittedSo(pass, admitted')
    BY <1>4, <2>1 DEF AdmittedSo
  <2>7. NewlyAccepted
    <3> SUFFICES ASSUME NEW p \in Ids, Accepts(door', p)
                 PROVE  p \notin admitted
      BY DEF NewlyAccepted
    <3>1. result = [pass |-> p, status |-> "valid"]
      BY <2>4 DEF Accepts
    <3>2. r.pass = p /\ r.status = "valid"
      BY <2>2, <3>1
    <3> QED
      BY <1>4, <3>2
  <2>8. ServiceMoves
    BY <1>5, PassesStay DEF serviceVars
  <2> QED
    BY <1>5, <2>4, <2>5, <2>6, <2>7, <2>8 DEF DoorMoves, DoorSo, serviceVars
<1>7. CASE RedeemLost(i)
  <2> DEFINE d == [Uncertain(door) EXCEPT !.redeems = new]
  <2>1. IsDoor(Uncertain(door)) /\ Uncertain(door).result = door.result /\ Uncertain(door).redeems = rs
    BY <1>1 DEF Uncertain, IsDoor
  <2>2. door' = Rendered(d) /\ UNCHANGED admitted
    BY <1>7, <2>1 DEF RedeemLost, DoorShows
  <2> HIDE DEF new
  <2>3. IsDoor(d) /\ d.redeems = new /\ d.result = door.result
    BY <2>1 DEF IsDoor
  <2> HIDE DEF d
  <2> QED
    BY <1>3, <1>5, <2>2, <2>3, DoorAlone
<1>8. CASE ResultLost(i)
  <2> DEFINE d == [door EXCEPT !.redeems = new]
  <2>1. door' = d /\ UNCHANGED admitted
    BY <1>8 DEF ResultLost
  <2> HIDE DEF new
  <2>2. IsDoor(d) /\ d.redeems = new /\ d.result = door.result
    BY <1>1 DEF IsDoor
  <2> HIDE DEF d
  <2> QED
    BY <1>3, <1>5, <2>1, <2>2, DoorAlone
<1> QED
  BY <1>6, <1>7, <1>8

LEMMA DoorStep ==
  ASSUME ServiceSo(pass, mailed), AdmittedSo(pass, admitted), door # None, DoorSo(door, pass, admitted),
         DoorClicks \/ DoorScans \/ DoorGoesOn \/ DoorFails
  PROVE  DoorMoves
<1>1. CASE DoorClicks
  BY <1>1, CameraStep, BeginStep DEF DoorClicks
<1>2. CASE DoorScans
  BY <1>2, BeginStep DEF DoorScans
<1>3. CASE DoorGoesOn
  BY <1>3, CameraStep, RequestStep, ServeRedeemStep, RedeemEndStep DEF DoorGoesOn
<1>4. CASE DoorFails
  BY <1>4, CameraStep, RequestStep, RedeemEndStep DEF DoorFails
<1> QED
  BY <1>1, <1>2, <1>3, <1>4

-----------------------------------------------------------------------------
(* The passes, on both pages and beside everybody else                        *)

PassesOK == ServiceSo(pass, mailed) /\ DeskOK /\ DoorOK

LEMMA NewDeskSo ==
  ASSUME ServiceSo(pass, mailed)
  PROVE  DeskSo(NewDesk, pass, mailed)
<1> DEFINE rows == Slice(FirstFilters)
           calls == [k \in Kinds |-> NoCall]
<1>1. AllSo(rows, pass, mailed)
  BY SliceSo
<1>2. CallsSo(calls, pass, mailed)
  BY NoCallSo DEF CallsSo
<1>3. LoadsSo(<<>>, pass, mailed)
  <2>1. <<>> \in Seq({}) /\ Len(<<>>) = 0
    BY EmptySeq
  <2> QED
    BY <2>1 DEF LoadsSo
<1>4. /\ IsDesk(NewDesk) /\ NewDesk.rows = rows /\ NewDesk.calls = calls /\ NewDesk.loads = <<>>
      /\ NewDesk.preview = None /\ NewDesk.toInvalidate = None /\ NewDesk.toEmail = None
      /\ NewDesk.toast = None
  BY DEF NewDesk, IsDesk
<1> HIDE DEF rows, calls
<1> QED
  BY <1>1, <1>2, <1>3, <1>4 DEF DeskSo, PreviewSo, ToastSo, NamesIssued

LEMMA NewDoorSo ==
  ASSUME NEW ps, NEW adm
  PROVE  DoorSo(NewDoor, ps, adm)
<1>1. IsDoor(NewDoor) /\ NewDoor.redeems = <<>>
  BY DEF NewDoor, IsDoor
<1>2. <<>> \in Seq(Redeems) /\ Len(<<>>) = 0
  BY EmptySeq
<1> QED
  BY <1>1, <1>2 DEF DoorSo, RedeemsSo

\* A desk that does nothing is as true as before, whatever the service did.
LEMMA DeskWaits ==
  ASSUME DeskOK, ServiceMoves, UNCHANGED desk
  PROVE  DeskOK'
<1>1. CASE desk = None
  BY <1>1 DEF DeskOK
<1>2. CASE desk # None
  BY <1>2, DeskMovesOn DEF DeskOK
<1> QED
  BY <1>1, <1>2

\* A door that does nothing keeps what it has won, whoever is shown as accepted elsewhere.
LEMMA DoorWaits ==
  ASSUME DoorOK, ServiceMoves, UNCHANGED door,
         \A p \in Ids : p \in admitted' => p \in admitted \/ (pass'[p].used /\ ~pass[p].used)
  PROVE  DoorOK' /\ NewlyAccepted
<1>1. \A p \in Ids : pass[p].used => pass'[p].used
  BY DEF ServiceMoves, Later
<1>2. AdmittedSo(pass', admitted')
  BY <1>1 DEF DoorOK, AdmittedSo
<1>3. ASSUME door # None PROVE DoorSo(door', pass', admitted')
  BY <1>1, <1>3, RedeemsStay DEF DoorOK, DoorSo
<1>4. NewlyAccepted
  BY DEF NewlyAccepted
<1> QED
  BY <1>2, <1>3, <1>4 DEF DoorOK

LEMMA PassesStart ==
  ASSUME SiteInit
  PROVE  PassesOK
<1>1. ServiceSo(pass, mailed) /\ desk = None /\ door = None /\ admitted = {p \in Ids : pass[p].used}
  BY ServiceStarts DEF SiteInit
<1> QED
  BY <1>1 DEF PassesOK, DeskOK, DoorOK, AdmittedSo

LEMMA PassesGoOn ==
  ASSUME PassesOK, [SiteNext]_siteVars
  PROVE  PassesOK' /\ NewlyAccepted
<1>1. ServiceSo(pass, mailed) /\ DeskOK /\ DoorOK
  BY DEF PassesOK
<1>2. CASE Browses \/ PagesGoOn
  <2>1. /\ UNCHANGED <<serviceVars, admitted>>
        /\ desk' \in {None, desk, NewDesk} /\ door' \in {None, door, NewDoor}
    BY <1>2 DEF Browses, PagesGoOn, Mounts
  <2>2. pass' = pass /\ mailed' = mailed /\ admitted' = admitted
    BY <2>1 DEF serviceVars
  <2>3. DeskOK'
    BY <1>1, <2>1, <2>2, NewDeskSo DEF DeskOK
  <2>4. DoorOK'
    BY <1>1, <2>1, <2>2, NewDoorSo DEF DoorOK
  <2>5. NewlyAccepted
    BY <2>1, NoneAssumption DEF NewlyAccepted, Accepts, NewDoor
  <2> QED
    BY <1>1, <2>2, <2>3, <2>4, <2>5 DEF PassesOK
<1>3. ASSUME UNCHANGED <<pass, mailed, desk, door, admitted>>
      PROVE  PassesOK' /\ NewlyAccepted
  <2>1. ServiceMoves
    BY <1>1, <1>3, PassesStay
  <2> QED
    BY <1>1, <1>3, <2>1, DeskWaits, DoorWaits DEF PassesOK, ServiceMoves
<1>4. CASE \/ Expires \/ UsesUploader \/ UploaderRuns \/ UploaderBreaks \/ UsesGallery \/ GalleryRuns
           \/ UNCHANGED siteVars
  <2>1. UNCHANGED <<pass, mailed, desk, door, admitted>>
    BY <1>4 DEF Expires, UsesUploader, UploaderRuns, UploaderBreaks, UsesGallery, GalleryRuns, AtUploader,
                InGallery, serviceVars, pageVars, siteVars
  <2> QED
    BY <1>3, <2>1
<1>5. CASE UsesDesk \/ DeskRuns \/ DeskBreaks
  <2>1. desk # None /\ UNCHANGED <<door, admitted>> /\ (DeskClicks \/ DeskGoesOn \/ DeskFails)
    BY <1>5 DEF UsesDesk, DeskRuns, DeskBreaks, AtDesk
  <2>2. ServiceMoves /\ DeskSo(desk', pass', mailed')
    BY <1>1, <2>1, DeskStep DEF DeskOK, DeskMoves
  <2> QED
    BY <1>1, <2>1, <2>2, DoorWaits DEF PassesOK, DeskOK, ServiceMoves
<1>6. CASE UsesDoor \/ DoorRuns \/ DoorBreaks
  <2>1. door # None /\ UNCHANGED desk /\ (DoorClicks \/ DoorScans \/ DoorGoesOn \/ DoorFails)
    BY <1>6 DEF UsesDoor, DoorRuns, DoorBreaks, AtDoor
  <2>2. DoorMoves
    BY <1>1, <2>1, DoorStep DEF DoorOK
  <2> QED
    BY <1>1, <2>1, <2>2, DeskWaits DEF PassesOK, DoorOK, DoorMoves, ServiceMoves
<1>7. CASE Others
  <2>1. /\ ServiceNext /\ UNCHANGED <<desk, door>>
        /\ admitted' = admitted \cup {p \in Ids : pass'[p].used /\ ~pass[p].used}
    BY <1>7 DEF Others
  <2>2. ServiceMoves
    BY <1>1, <2>1, ServiceSteps
  <2> QED
    BY <1>1, <2>1, <2>2, DeskWaits, DoorWaits DEF PassesOK, ServiceMoves
<1> QED
  BY <1>2, <1>4, <1>5, <1>6, <1>7 DEF SiteNext

LEMMA PassesAlways == SiteSpec => []PassesOK
<1>1. SiteInit => PassesOK
  BY PassesStart
<1>2. PassesOK /\ [SiteNext]_siteVars => PassesOK'
  BY PassesGoOn
<1> QED
  BY <1>1, <1>2, PTL DEF SiteSpec

\* Whatever answers are late, lost or overtaken, and whatever other administrators, doors and
\* the fence do meanwhile: no row, preview or toast of the dashboard says what is not so.
THEOREM DashboardTellsTruth == SiteSpec => []ToldIsTrue
<1>1. PassesOK => ToldIsTrue
  <2> SUFFICES ASSUME PassesOK, desk # None
               PROVE  /\ \A r \in ShownRows :
                           /\ PrintedStatus(r) = "Invalidated" => pass[r.id].invalidated
                           /\ PrintedStatus(r) = "Used" => pass[r.id].used
                           /\ r.email = "sent" => r.id \in mailed
                      /\ desk.toast # None => \A p \in desk.toast.ids :
                           /\ pass[p].issued
                           /\ desk.toast.what = "invalidated" => pass[p].invalidated
                           /\ desk.toast.what = "emailed" => p \in mailed
    BY DEF ToldIsTrue
  <2>1. DeskSo(desk, pass, mailed)
    BY DEF PassesOK, DeskOK
  <2>2. \A r \in ShownRows : So(r, pass, mailed)
    BY <2>1, ShownSo
  <2>3. ToastSo(desk.toast, pass, mailed)
    BY <2>1 DEF DeskSo
  <2>4. ASSUME NEW r \in ShownRows
        PROVE  /\ PrintedStatus(r) = "Invalidated" => pass[r.id].invalidated
               /\ PrintedStatus(r) = "Used" => pass[r.id].used
               /\ r.email = "sent" => r.id \in mailed
    BY <2>2, <2>4 DEF So, PrintedStatus, Rows
  <2> QED
    BY <2>3, <2>4 DEF ToastSo, AllIssued
<1> QED
  BY <1>1, PassesAlways, PTL

\* The door never shows "Pass Accepted" for a pass that it or another door has shown it for,
\* however many of its own requests are on their way and whichever answers are lost.
THEOREM PassesAreAcceptedOnce == SiteSpec => AcceptedOnce
<1>1. PassesOK /\ [SiteNext]_siteVars => NewlyAccepted
  BY PassesGoOn
<1> QED
  BY <1>1, PassesAlways, PTL DEF SiteSpec, AcceptedOnce, NewlyAccepted

-----------------------------------------------------------------------------
(* The pages and the service                                                  *)

LEMMA DeskAsks ==
  ASSUME ServiceSo(pass, mailed), DeskSo(desk, pass, mailed), DeskClicks \/ DeskGoesOn \/ DeskFails
  PROVE  ServiceNext \/ UNCHANGED serviceVars
<1>1. \A k \in Kinds : CallSo(k, desk.calls[k], pass, mailed) /\ desk.calls[k].about \in SUBSET Ids
  <2>1. ASSUME NEW k \in Kinds PROVE CallSo(k, desk.calls[k], pass, mailed)
    BY CallIs
  <2>2. ASSUME NEW k \in Kinds PROVE desk.calls[k].about \in SUBSET Ids
    BY <2>1 DEF CallSo, AllIssued
  <2> QED
    BY <2>1, <2>2
<1>2. CASE ServeCreate
  <2>1. (\E ids \in SUBSET Ids : Issue(ids)) \/ UNCHANGED serviceVars
    BY ZenonT(60), <1>2 DEF ServeCreate
  <2> QED
    BY <2>1 DEF ServiceNext
<1>3. CASE ServeLimit
  <2>1. SetTicketLimit(desk.calls["limit"].count) /\ desk.calls["limit"].phase = "sent"
    BY <1>3 DEF ServeLimit
  <2>2. desk.calls["limit"].count \in Limits
    BY <1>1, <2>1 DEF CallSo, Kinds
  <2> QED
    BY <2>1, <2>2 DEF ServiceNext
<1>4. CASE ServeInvalidate
  BY <1>1, <1>4 DEF ServeInvalidate, ServiceNext, Kinds
<1>5. CASE \E k \in Kinds : ServeMail(k)
  BY <1>1, <1>5 DEF ServeMail, ServiceNext
<1>6. CASE \E k \in Kinds : ServeRecord(k) \/ ServeRegret(k)
  <2>1. PICK k \in Kinds : \/ RecordEmail(desk.calls[k].sent, "sent")
                           \/ RecordEmail(desk.calls[k].about \ desk.calls[k].sent, "failed")
    BY <1>6 DEF ServeRecord, ServeRegret
  <2>2. desk.calls[k].sent \in SUBSET Ids /\ desk.calls[k].about \ desk.calls[k].sent \in SUBSET Ids
    BY <1>1, <2>1 DEF CallSo
  <2> QED
    BY <2>1, <2>2 DEF ServiceNext
<1>7. CASE \/ DeskClicks \/ DeskFails \/ Debounce
           \/ \E i \in 1..Len(desk.loads) : ServeList(i) \/ ListAnswered(i)
           \/ CreateAnswered \/ LimitAnswered \/ EmailAnswered \/ InvalidateAnswered
  <2>1. CASE DeskClicks \/ Debounce
    BY ZenonT(60), <2>1
    DEF DeskClicks, Debounce, SelectTab, SelectStatus, SelectSize, TurnPage, Refilter, TypeSearch, Generate,
        SaveLimit, ViewPass, OpenEmail, CloseEmail, SendEmail, OpenInvalidate, CloseInvalidate,
        ConfirmInvalidate
  <2>2. CASE DeskFails
    BY ZenonT(60), <2>2 DEF DeskFails, ListFails, ServeError, ConnectionFails, BodyLost
  <2>3. CASE \/ \E i \in 1..Len(desk.loads) : ServeList(i) \/ ListAnswered(i)
             \/ CreateAnswered \/ LimitAnswered \/ EmailAnswered \/ InvalidateAnswered
    BY <2>3 DEF ServeList, ListAnswered, CreateAnswered, LimitAnswered, EmailAnswered, InvalidateAnswered
  <2> QED
    BY SMTT(30), <1>7, <2>1, <2>2, <2>3
<1> QED
  BY <1>2, <1>3, <1>4, <1>5, <1>6, <1>7 DEF DeskGoesOn

LEMMA DoorAsks ==
  ASSUME DoorSo(door, pass, admitted), DoorClicks \/ DoorScans \/ DoorGoesOn \/ DoorFails
  PROVE  ServiceNext \/ UNCHANGED serviceVars
<1>1. CASE \E i \in 1..MaxRedeems : ServeRedeem(i)
  <2>1. PICK i \in 1..MaxRedeems : ServeRedeem(i)
    BY <1>1
  <2>2. door.redeems[i].pass \in Ids
    BY SMTT(30), <2>1, RedeemIs DEF ServeRedeem, Redeems
  <2> QED
    BY <2>1, <2>2 DEF ServeRedeem, ServiceNext
<1>2. CASE ~ \E i \in 1..MaxRedeems : ServeRedeem(i)
  BY <1>2 DEF DoorClicks, DoorScans, DoorGoesOn, DoorFails, openScanner, CancelScan, scanNext, SubmitNothing,
              handleManualSubmit, Decode, startScanner, CameraStarts, CameraFails, StopThenSend, ServeLog,
              ServeRefuses, RedeemAnswered, ResultShown, RedeemLost, ResultLost, Press, resetScanner
<1> QED
  BY <1>1, <1>2

\* Both pages, in whatever order their requests are served, do to the passes what the service
\* promises its callers, and nothing else: they can be read against that module, which the
\* statements of the code implement.
THEOREM PagesUseService == SiteSpec => ServiceSpec
<1>1. SiteInit => ServiceInit
  BY DEF SiteInit
<1>2. PassesOK /\ [SiteNext]_siteVars => [ServiceNext]_serviceVars
  <2> SUFFICES ASSUME PassesOK, [SiteNext]_siteVars
               PROVE  ServiceNext \/ UNCHANGED serviceVars
    OBVIOUS
  <2>1. CASE UsesDesk \/ DeskRuns \/ DeskBreaks
    BY <2>1, DeskAsks DEF UsesDesk, DeskRuns, DeskBreaks, AtDesk, PassesOK, DeskOK
  <2>2. CASE UsesDoor \/ DoorRuns \/ DoorBreaks
    BY <2>2, DoorAsks DEF UsesDoor, DoorRuns, DoorBreaks, AtDoor, PassesOK, DoorOK
  <2>3. CASE Others
    BY <2>3 DEF Others
  <2>4. CASE \/ Browses \/ PagesGoOn \/ Expires
             \/ UsesUploader \/ UploaderRuns \/ UploaderBreaks \/ UsesGallery \/ GalleryRuns
             \/ UNCHANGED siteVars
    BY <2>4 DEF Browses, PagesGoOn, Mounts, Expires, UsesUploader, UploaderRuns, UploaderBreaks, UsesGallery,
                GalleryRuns, AtUploader, InGallery, siteVars
  <2> QED
    BY <2>1, <2>2, <2>3, <2>4 DEF SiteNext
<1> QED
  BY <1>1, <1>2, PassesAlways, PTL DEF SiteSpec, ServiceSpec

-----------------------------------------------------------------------------
(* Steps of the site, as the media and the upload page see them               *)

\* The gallery and the upload page change only by their own actions, by a page that is
\* rendered or left, or not at all.
MediaStep ==
  \/ uploader # None /\ (UploaderClicks \/ UploaderGoesOn \/ UploaderFails)
  \/ Visitors \/ GalleryGoesOn \/ GalleryLoses \/ \E s \in Shelf, image \in Images : Added(s, image)
  \/ uploader' \in {None, uploader, NewUploader} /\ UNCHANGED <<stored, cache, fill>>

LEMMA MediaSteps ==
  ASSUME [SiteNext]_siteVars
  PROVE  MediaStep
<1>1. CASE Browses \/ PagesGoOn
  BY <1>1 DEF Browses, PagesGoOn, Mounts, MediaStep
<1>2. CASE UNCHANGED mediaVars
  BY <1>2 DEF mediaVars, MediaStep
<1>3. CASE UsesUploader \/ UploaderRuns \/ UploaderBreaks
  BY <1>3 DEF UsesUploader, UploaderRuns, UploaderBreaks, AtUploader, MediaStep
<1>4. CASE UsesGallery \/ GalleryRuns
  BY <1>4 DEF UsesGallery, GalleryRuns, MediaStep
<1>5. ASSUME \/ Expires \/ UsesDesk \/ DeskRuns \/ DeskBreaks \/ UsesDoor \/ DoorRuns \/ DoorBreaks \/ Others
             \/ UNCHANGED siteVars
      PROVE  UNCHANGED mediaVars
  BY <1>5 DEF Expires, UsesDesk, DeskRuns, DeskBreaks, UsesDoor, DoorRuns, DoorBreaks, Others, AtDesk, AtDoor,
              siteVars, pageVars
<1> QED
  BY <1>1, <1>2, <1>3, <1>4, <1>5 DEF SiteNext
-----------------------------------------------------------------------------
(* The upload page                                                            *)

Folders   == PhotoShelves \cup {FirstShelf}
ItemStates == {"queued", "processing", "uploading", "complete", "error"}
Queues    == UNION {[files -> ItemStates] : files \in SUBSET Images}
RunStages == {"signing", "next", "processing", "uploading", "stored", "refreshing", "over"}
Runs      == [stage: RunStages, todo: SUBSET Images, now: Images \cup {None}, folder: Folders, some: BOOLEAN]
Uploaders == [category: Folders, items: Queues, uploading: BOOLEAN, run: Runs \cup {None},
              sync: {"idle", "sent", "served", "synced", "refused"}, error: {"none", "no images", "failed"}]

AtImage == {"processing", "uploading", "stored"}

\* A run has a queue of images that are not complete, and the one it is at is none of them.
RunOK(items, run) ==
  /\ run \in Runs
  /\ run.todo \subseteq DOMAIN items /\ \A f \in run.todo : items[f] # "complete"
  /\ run.stage \in AtImage =>
       run.now \in DOMAIN items /\ items[run.now] # "complete" /\ run.now \notin run.todo

UploaderOK ==
  uploader # None =>
    /\ uploader \in Uploaders
    /\ uploader.run # None => uploader.uploading /\ RunOK(uploader.items, uploader.run)

\* What CompleteStays says of a step.
QueueKept ==
  uploader # None /\ uploader' # None /\ uploader'.uploading
    => \A f \in Items(uploader) : uploader.items[f] = "complete" => uploader'.items[f] = "complete"

\* What the page becomes, as far as its queue is concerned.
PageBecomes(items, uploading, run) ==
  /\ uploader' \in Uploaders
  /\ uploader'.items = items /\ uploader'.uploading = uploading /\ uploader'.run = run

LEMMA QueueIs == \A q \in Queues : DOMAIN q \subseteq Images /\ \A f \in DOMAIN q : q[f] \in ItemStates
  BY DEF Queues

LEMMA QueueMoves ==
  ASSUME NEW q \in Queues, NEW f \in DOMAIN q, NEW status \in ItemStates,
         NEW new, new = [q EXCEPT ![f] = status]
  PROVE  /\ new \in Queues /\ DOMAIN new = DOMAIN q /\ new[f] = status
         /\ \A g \in DOMAIN q \ {f} : new[g] = q[g]
<1>1. PICK files \in SUBSET Images : q \in [files -> ItemStates]
  BY DEF Queues
<1>2. new \in [files -> ItemStates]
  BY <1>1
<1> QED
  BY <1>1, <1>2 DEF Queues

LEMMA UploaderMoves ==
  ASSUME NEW items, NEW uploading, NEW run, PageBecomes(items, uploading, run),
         run # None => uploading /\ RunOK(items, run),
         uploader # None /\ uploading =>
           \A f \in DOMAIN uploader.items : uploader.items[f] = "complete" => items[f] = "complete"
  PROVE  UploaderOK' /\ QueueKept
  BY DEF UploaderOK, PageBecomes, QueueKept, Items, RunOK

\* Everything about the queue stays but the stage of its run.
LEMMA StageMoves ==
  ASSUME UploaderOK, uploader # None, uploader.run # None, NEW stage \in RunStages \ AtImage,
         uploader' = [uploader EXCEPT !.run.stage = stage]
  PROVE  UploaderOK' /\ QueueKept
<1> DEFINE u == uploader
           run == [u.run EXCEPT !.stage = stage]
<1>1. u \in Uploaders /\ u.uploading /\ RunOK(u.items, u.run)
  BY DEF UploaderOK
<1>2. run \in Runs /\ run.todo = u.run.todo /\ run.stage = stage
  BY <1>1 DEF RunOK, Runs
<1>3. uploader' = [u EXCEPT !.run = run]
  OBVIOUS
<1> HIDE DEF run
<1>4. PageBecomes(u.items, u.uploading, run)
  BY <1>1, <1>2, <1>3 DEF PageBecomes, Uploaders
<1>5. RunOK(u.items, run)
  BY <1>1, <1>2 DEF RunOK
<1> QED
  BY <1>1, <1>4, <1>5, UploaderMoves

\* The upload page's steps.
LEMMA UploaderStep ==
  ASSUME UploaderOK, MediaStep
  PROVE  UploaderOK' /\ QueueKept
<1> DEFINE u == uploader
           r == uploader.run
<1>1. ASSUME UNCHANGED uploader PROVE UploaderOK' /\ QueueKept
  BY <1>1 DEF UploaderOK, QueueKept, RunOK
<1>2. ASSUME uploader' \in {None, uploader, NewUploader} PROVE UploaderOK' /\ QueueKept
  <2>1. CASE uploader' = NewUploader
    <3>1. <<>> \in Queues
      <4>1. <<>> \in [{} -> ItemStates]
        OBVIOUS
      <4> QED
        BY <4>1 DEF Queues
    <3>2. NewUploader \in Uploaders /\ NewUploader.run = None /\ NewUploader.uploading = FALSE
      BY <3>1 DEF NewUploader, Uploaders, Folders
    <3> QED
      BY <2>1, <3>2 DEF UploaderOK, QueueKept
  <2>2. CASE uploader' = None
    BY <2>2 DEF UploaderOK, QueueKept
  <2> QED
    BY <1>1, <1>2, <2>1, <2>2
<1>3. ASSUME uploader # None
      PROVE  /\ u \in Uploaders /\ u.items \in Queues /\ u.uploading \in BOOLEAN /\ u.run \in Runs \cup {None}
             /\ r # None => u.uploading /\ RunOK(u.items, r)
  BY <1>3 DEF UploaderOK, Uploaders
<1>4. ASSUME uploader # None, NEW files \in SUBSET Images, handleFiles(files) PROVE UploaderOK' /\ QueueKept
  <2> DEFINE items == [f \in files |-> "queued"]
  <2>1. ~u.uploading /\ r = None
    BY <1>3, <1>4 DEF handleFiles
  <2>2. items \in Queues
    BY DEF Queues, ItemStates
  <2>3. uploader' = [u EXCEPT !.items = items, !.error = IF files = {} THEN "no images" ELSE "none"]
    BY <1>4 DEF handleFiles
  <2> HIDE DEF items
  <2>4. PageBecomes(items, u.uploading, r)
    BY <1>3, <1>4, <2>2, <2>3 DEF PageBecomes, Uploaders
  <2> QED
    BY <2>1, <2>4, UploaderMoves
<1>5. ASSUME uploader # None,
             \/ \E s \in PhotoShelves : SelectCategory(s)
             \/ PressSync \/ ServeSync \/ SyncAnswered \/ SyncRefused
      PROVE  UploaderOK' /\ QueueKept
  <2>1. PageBecomes(u.items, u.uploading, r)
    BY <1>3, <1>5 DEF SelectCategory, PressSync, ServeSync, SyncAnswered, SyncRefused, PageBecomes, Uploaders, Folders
  <2> QED
    BY <1>3, <1>5, <2>1, UploaderMoves
<1>6. ASSUME uploader # None, handleUpload PROVE UploaderOK' /\ QueueKept
  <2> DEFINE run == [stage |-> "signing", todo |-> Todo(u), now |-> None, folder |-> u.category, some |-> FALSE]
  <2>1. uploader' = [u EXCEPT !.uploading = TRUE, !.error = "none", !.run = run]
    BY <1>6 DEF handleUpload
  <2>2. Todo(u) \subseteq DOMAIN u.items /\ Todo(u) \in SUBSET Images /\ \A f \in Todo(u) : u.items[f] # "complete"
    BY <1>3, <1>6, QueueIs DEF Todo, Items
  <2>3. run \in Runs /\ run.todo = Todo(u) /\ run.stage = "signing"
    BY <1>3, <1>6, <2>2 DEF Runs, RunStages, Uploaders
  <2> HIDE DEF run
  <2>4. RunOK(u.items, run)
    BY <2>2, <2>3 DEF RunOK, AtImage
  <2>5. PageBecomes(u.items, TRUE, run)
    BY <1>3, <1>6, <2>1, <2>3 DEF PageBecomes, Uploaders
  <2> QED
    BY <1>3, <1>6, <2>4, <2>5, UploaderMoves
<1>7. ASSUME uploader # None, ServeSignature \/ AllDone \/ ServeRefresh PROVE UploaderOK' /\ QueueKept
  <2>1. r # None /\ \E stage \in {"next", "refreshing", "over"} : uploader' = [uploader EXCEPT !.run.stage = stage]
    BY <1>7 DEF ServeSignature, AllDone, ServeRefresh, RunStage, Proceeds
  <2> QED
    BY <1>7, <2>1, StageMoves DEF RunStages, AtImage
\* The run is at an image: what becomes of the image and of the run.
<1>8. ASSUME uploader # None, r # None, NEW f \in DOMAIN u.items, NEW status \in ItemStates, NEW run \in Runs,
             u.items[f] # "complete", run.todo \subseteq r.todo, f \notin run.todo,
             run.stage \in AtImage => run.now = f /\ status # "complete",
             uploader' = [u EXCEPT !.items = [u.items EXCEPT ![f] = status], !.run = run]
      PROVE  UploaderOK' /\ QueueKept
  <2> DEFINE items == [u.items EXCEPT ![f] = status]
  <2>1. uploader' = [u EXCEPT !.items = items, !.run = run]
    BY <1>8
  <2>2. /\ items \in Queues /\ DOMAIN items = DOMAIN u.items /\ items[f] = status
        /\ \A g \in DOMAIN u.items \ {f} : items[g] = u.items[g]
    <3>1. items = [u.items EXCEPT ![f] = status]
      OBVIOUS
    <3> HIDE DEF items
    <3> QED
      BY <1>3, <1>8, <3>1, QueueMoves
  <2>3. r.todo \subseteq DOMAIN u.items /\ \A g \in r.todo : u.items[g] # "complete"
    BY <1>3, <1>8 DEF RunOK
  <2> HIDE DEF items
  <2>4. RunOK(items, run)
    BY <1>8, <2>2, <2>3 DEF RunOK
  <2>5. PageBecomes(items, u.uploading, run)
    BY <1>3, <1>8, <2>1, <2>2 DEF PageBecomes, Uploaders
  <2> QED
    BY <1>3, <1>8, <2>2, <2>4, <2>5, UploaderMoves
<1>9. ASSUME uploader # None, NextItem PROVE UploaderOK' /\ QueueKept
  <2>1. r # None
    BY <1>9 DEF NextItem, RunStage
  <2>2. PICK f \in r.todo :
          uploader' = [uploader EXCEPT !.items[f] = "processing", !.run.stage = "processing",
                                       !.run.now = f, !.run.todo = @ \ {f}]
    BY <1>9 DEF NextItem
  <2>3. f \in DOMAIN u.items /\ u.items[f] # "complete" /\ r \in Runs
    BY <1>3, <1>9, <2>1, <2>2 DEF RunOK
  <2> DEFINE todo == r.todo \ {f}
             run == [r EXCEPT !.stage = "processing", !.now = f, !.todo = todo]
  <2>4. uploader' = [u EXCEPT !.items = [u.items EXCEPT ![f] = "processing"], !.run = run]
    BY <1>3, <1>9, <2>2 DEF Uploaders
  <2>5. f \in Images
    BY <1>3, <1>9, <2>3, QueueIs
  <2>6. run \in Runs /\ run.stage = "processing" /\ run.todo = todo /\ run.now = f
    <3> HIDE DEF r
    <3> QED
      BY <2>3, <2>5 DEF Runs, RunStages
  <2> HIDE DEF run
  <2> QED
    BY <1>8, <1>9, <2>1, <2>3, <2>4, <2>6 DEF ItemStates
<1>10. ASSUME uploader # None, Optimized \/ CloudinaryStores \/ ItemComplete \/ ItemFails
       PROVE  r # None /\ r \in Runs /\ r.now \in DOMAIN u.items /\ u.items[r.now] # "complete" /\ r.now \notin r.todo
  <2>1. r # None /\ r.stage \in AtImage
    BY <1>10 DEF Optimized, CloudinaryStores, ItemComplete, ItemFails, RunStage, AtImage
  <2> QED
    BY <1>3, <1>10, <2>1 DEF RunOK
<1>11. ASSUME uploader # None, Optimized PROVE UploaderOK' /\ QueueKept
  <2> DEFINE run == [r EXCEPT !.stage = "uploading"]
  <2>1. uploader' = [u EXCEPT !.items = [u.items EXCEPT ![r.now] = "uploading"], !.run = run]
    BY <1>3, <1>11 DEF Optimized, ItemGoes, Uploaders
  <2>2. run \in Runs /\ run.stage = "uploading" /\ run.todo = r.todo /\ run.now = r.now
    <3>1. r \in Runs
      BY <1>10, <1>11
    <3> HIDE DEF r
    <3> QED
      BY <3>1 DEF Runs, RunStages
  <2> HIDE DEF run
  <2> QED
    BY <1>8, <1>10, <1>11, <2>1, <2>2 DEF ItemStates, AtImage
<1>12. ASSUME uploader # None, CloudinaryStores PROVE UploaderOK' /\ QueueKept
  <2> DEFINE run == [r EXCEPT !.stage = "stored"]
  <2>1. uploader' = [u EXCEPT !.run = run]
    BY <1>12 DEF CloudinaryStores
  <2>2. RunOK(u.items, r) /\ r # None /\ u.uploading /\ r.stage = "uploading"
    BY <1>3, <1>12 DEF CloudinaryStores, RunStage
  <2>3. run \in Runs /\ run.stage = "stored" /\ run.todo = r.todo /\ run.now = r.now
    <3> HIDE DEF r
    <3> QED
      BY <2>2 DEF Runs, RunStages, RunOK
  <2> HIDE DEF run
  <2>4. RunOK(u.items, run)
    BY <2>2, <2>3 DEF RunOK, AtImage
  <2>5. PageBecomes(u.items, u.uploading, run)
    BY <1>3, <1>12, <2>1, <2>3 DEF PageBecomes, Uploaders
  <2> QED
    BY <1>12, <2>2, <2>4, <2>5, UploaderMoves
<1>13. ASSUME uploader # None, ItemComplete PROVE UploaderOK' /\ QueueKept
  <2> DEFINE run == [r EXCEPT !.stage = "next", !.now = None, !.some = TRUE]
  <2>1. uploader' = [u EXCEPT !.items = [u.items EXCEPT ![r.now] = "complete"], !.run = run]
    BY <1>3, <1>13 DEF ItemComplete, Uploaders
  <2>2. run \in Runs /\ run.stage = "next" /\ run.todo = r.todo /\ run.now = None
    <3>1. r \in Runs
      BY <1>10, <1>13
    <3> HIDE DEF r
    <3> QED
      BY <3>1 DEF Runs, RunStages
  <2> HIDE DEF run
  <2> QED
    BY <1>8, <1>10, <1>13, <2>1, <2>2 DEF ItemStates, AtImage
<1>14. ASSUME uploader # None, ItemFails PROVE UploaderOK' /\ QueueKept
  <2> DEFINE run == [r EXCEPT !.stage = "next", !.now = None]
  <2>1. uploader' = [u EXCEPT !.items = [u.items EXCEPT ![r.now] = "error"], !.run = run]
    BY <1>3, <1>14 DEF ItemFails, Uploaders
  <2>2. run \in Runs /\ run.stage = "next" /\ run.todo = r.todo /\ run.now = None
    <3>1. r \in Runs
      BY <1>10, <1>14
    <3> HIDE DEF r
    <3> QED
      BY <3>1 DEF Runs, RunStages
  <2> HIDE DEF run
  <2> QED
    BY <1>8, <1>10, <1>14, <2>1, <2>2 DEF ItemStates, AtImage
<1>15. ASSUME uploader # None, UploadStops \/ UploadOver PROVE UploaderOK' /\ QueueKept
  <2>1. PageBecomes(u.items, FALSE, None)
    BY <1>3, <1>15 DEF UploadStops, UploadOver, Freed, PageBecomes, Uploaders
  <2> QED
    BY <2>1, UploaderMoves
<1>16. ASSUME Visitors \/ GalleryGoesOn \/ GalleryLoses \/ \E s \in Shelf, image \in Images : Added(s, image)
       PROVE  UNCHANGED uploader
  BY <1>16 DEF Visitors, GalleryGoesOn, GalleryLoses, PageUnreadable, StartFill, ReadPage, LastPage, PageFails, EndFill, Added
<1>17. CASE uploader # None /\ (UploaderClicks \/ UploaderGoesOn \/ UploaderFails)
  BY <1>4, <1>5, <1>6, <1>7, <1>9, <1>11, <1>12, <1>13, <1>14, <1>15, <1>17
     DEF UploaderClicks, UploaderGoesOn, UploaderFails
<1> QED
  BY <1>1, <1>2, <1>16, <1>17 DEF MediaStep

-----------------------------------------------------------------------------
(* The gallery's cache                                                        *)

Gathers == [read: SUBSET Images, before: SUBSET Images, over: BOOLEAN, cut: BOOLEAN]

\* Every shelf of the list of a source is a gathering, and only photos lose a page unseen.
IsList(list, source) ==
  /\ DOMAIN list = Shelves[source]
  /\ \A s \in Shelves[source] : list[s] \in Gathers /\ (list[s].cut => source = "photos")

\* A gathering that has not ended began with what is still on its shelf; one that has ended
\* is whole, empty or cut.
Honest(g, s) == /\ g.before \subseteq stored[s]
                /\ g.over => g.read = {} \/ g.before \subseteq g.read \/ g.cut

Whole(g) == g.read = {} \/ g.before \subseteq g.read \/ g.cut

GalleryOK ==
  /\ stored \in [Shelf -> SUBSET Images]
  /\ DOMAIN cache = Sources /\ DOMAIN fill = Sources
  /\ \A source \in Sources : fill[source] # None =>
       IsList(fill[source], source) /\ \A s \in Shelves[source] : Honest(fill[source][s], s)
  /\ \A source \in Sources : cache[source] # None =>
       \A s \in Shelves[source] : /\ Whole(cache[source][s])
                                  /\ cache[source][s].cut => source = "photos"

LEMMA ShelvesOfSources == \A source \in Sources : Shelves[source] \subseteq Shelf
  BY DEF Sources, Shelves, Shelf

\* What is stored stays.
LEMMA HonestStays ==
  ASSUME NEW g, NEW s, stored[s] \subseteq stored'[s], Honest(g, s)
  PROVE  Honest(g, s)'
  BY DEF Honest

\* One shelf of a list goes on.
LEMMA OneShelfMoves ==
  ASSUME GalleryOK, NEW source \in Sources, NEW s \in Shelves[source], fill[source] # None,
         NEW new \in Gathers, fill' = [fill EXCEPT ![source][s] = new], Honest(new, s),
         new.cut => source = "photos",
         UNCHANGED <<stored, cache>>
  PROVE  GalleryOK'
<1> DEFINE list == [fill[source] EXCEPT ![s] = new]
<1>1. IsList(fill[source], source) /\ \A t \in Shelves[source] : Honest(fill[source][t], t)
  BY DEF GalleryOK
<1>2. IsList(list, source) /\ \A t \in Shelves[source] : Honest(list[t], t)
  BY <1>1 DEF IsList
<1>3. fill' = [fill EXCEPT ![source] = list]
  OBVIOUS
<1> HIDE DEF list
<1>4. DOMAIN fill' = Sources /\ \A r \in Sources : fill'[r] = IF r = source THEN list ELSE fill[r]
  BY <1>3 DEF GalleryOK
<1> QED
  BY <1>2, <1>4 DEF GalleryOK, Honest

LEMMA StoredGrows ==
  ASSUME GalleryOK, stored' \in [Shelf -> SUBSET Images], \A s \in Shelf : stored[s] \subseteq stored'[s],
         fill' = fill, cache' = cache \/ cache' = [source \in Sources |-> None]
  PROVE  GalleryOK'
<1>1. ASSUME NEW source \in Sources, fill[source] # None, NEW s \in Shelves[source]
      PROVE  Honest(fill[source][s], s)'
  BY <1>1, ShelvesOfSources DEF GalleryOK, Honest
<1>2. DOMAIN cache' = Sources /\ \A source \in Sources : cache'[source] # None => cache'[source] = cache[source]
  BY DEF GalleryOK
<1> QED
  BY <1>1, <1>2 DEF GalleryOK

LEMMA GalleryStep ==
  ASSUME GalleryOK, UploaderOK, MediaStep
  PROVE  GalleryOK'
<1>1. ASSUME UNCHANGED <<stored, fill>>, cache' = cache \/ cache' = [source \in Sources |-> None]
      PROVE  GalleryOK'
  BY <1>1, StoredGrows DEF GalleryOK
<1>2. ASSUME NEW source \in Sources, StartFill(source) PROVE GalleryOK'
  <2> DEFINE list == [s \in Shelves[source] |-> [read |-> {}, before |-> stored[s], over |-> FALSE,
                                               cut |-> FALSE]]
  <2>1. fill' = [fill EXCEPT ![source] = list] /\ UNCHANGED <<stored, cache>>
    BY <1>2 DEF StartFill
  <2>2. IsList(list, source) /\ \A s \in Shelves[source] : Honest(list[s], s)
    <3> SUFFICES ASSUME NEW s \in Shelves[source]
                 PROVE  list[s] \in Gathers /\ ~list[s].cut /\ Honest(list[s], s)
      BY DEF IsList
    <3>1. stored[s] \in SUBSET Images
      BY ShelvesOfSources DEF GalleryOK
    <3> QED
      BY <3>1 DEF Gathers, Honest
  <2> HIDE DEF list
  <2>3. DOMAIN fill' = Sources /\ \A r \in Sources : fill'[r] = IF r = source THEN list ELSE fill[r]
    BY <2>1 DEF GalleryOK
  <2> QED
    BY <2>1, <2>2, <2>3 DEF GalleryOK, Honest
<1>3. ASSUME NEW source \in Sources, NEW s \in Shelves[source], fill[source] # None
      PROVE  /\ fill[source][s] \in Gathers /\ Honest(fill[source][s], s)
             /\ fill[source][s].cut => source = "photos"
  BY <1>3 DEF GalleryOK, IsList
<1>4. ASSUME NEW source \in Sources, NEW s \in Shelves[source], NEW image \in Images, ReadPage(source, s, image)
      PROVE  GalleryOK'
  <2> DEFINE old == fill[source][s]
             new == [old EXCEPT !.read = @ \cup {image}]
  <2>1. fill[source] # None /\ ~old.over /\ UNCHANGED <<stored, cache>>
        /\ fill' = [fill EXCEPT ![source][s].read = @ \cup {image}]
    BY <1>4 DEF ReadPage
  <2>2. old \in Gathers /\ Honest(old, s)
    BY <1>3, <2>1
  <2>3. new \in Gathers /\ new.before = old.before /\ ~new.over /\ new.cut = old.cut
    <3> HIDE DEF old
    <3> QED
      BY <2>1, <2>2 DEF Gathers
  <2>4. Honest(new, s)
    BY <2>2, <2>3 DEF Honest
  <2>5. fill' = [fill EXCEPT ![source][s] = new]
    BY <2>1
  <2> HIDE DEF new
  <2> QED
    BY <1>3, <2>1, <2>3, <2>4, <2>5, OneShelfMoves
<1>5. ASSUME NEW source \in Sources, NEW s \in Shelves[source], LastPage(source, s)
      PROVE  GalleryOK'
  <2> DEFINE old == fill[source][s]
             new == [old EXCEPT !.over = TRUE]
  <2>1. fill[source] # None /\ stored[s] \subseteq old.read /\ UNCHANGED <<stored, cache>>
        /\ fill' = [fill EXCEPT ![source][s].over = TRUE]
    BY <1>5 DEF LastPage
  <2>2. old \in Gathers /\ Honest(old, s)
    BY <1>3, <2>1
  <2>3. new \in Gathers /\ new.before = old.before /\ new.read = old.read /\ new.cut = old.cut
    <3> HIDE DEF old
    <3> QED
      BY <2>2 DEF Gathers
  <2>4. Honest(new, s)
    BY <2>1, <2>2, <2>3 DEF Honest
  <2>5. fill' = [fill EXCEPT ![source][s] = new]
    BY <2>1
  <2> HIDE DEF new
  <2> QED
    BY <1>3, <2>1, <2>3, <2>4, <2>5, OneShelfMoves
<1>6. ASSUME NEW source \in Sources, NEW s \in Shelves[source], PageFails(source, s)
      PROVE  GalleryOK'
  <2> DEFINE old == fill[source][s]
             new == Emptied(old)
  <2>1. fill[source] # None /\ UNCHANGED <<stored, cache>> /\ fill' = [fill EXCEPT ![source][s] = Emptied(@)]
    BY <1>6 DEF PageFails
  <2>2. old \in Gathers /\ Honest(old, s)
    BY <1>3, <2>1
  <2>3. new \in Gathers /\ new.before = old.before /\ new.read = {} /\ new.cut = old.cut
    <3> HIDE DEF old
    <3> QED
      BY <2>2 DEF Gathers, Emptied
  <2>4. Honest(new, s)
    BY <2>2, <2>3 DEF Honest
  <2>5. fill' = [fill EXCEPT ![source][s] = new]
    BY <2>1
  <2> HIDE DEF new
  <2> QED
    BY <1>3, <2>1, <2>3, <2>4, <2>5, OneShelfMoves
<1>12. ASSUME NEW s \in PhotoShelves, PageUnreadable(s) PROVE GalleryOK'
  <2> DEFINE old == fill["photos"][s]
             new == [old EXCEPT !.over = TRUE, !.cut = TRUE]
  <2>1. fill["photos"] # None /\ UNCHANGED <<stored, cache>>
        /\ fill' = [fill EXCEPT !["photos"][s].over = TRUE, !["photos"][s].cut = TRUE]
    BY <1>12 DEF PageUnreadable
  <2>2. "photos" \in Sources /\ s \in Shelves["photos"]
    BY DEF Sources, Shelves
  <2>3. old \in Gathers /\ Honest(old, s) /\ IsList(fill["photos"], "photos") /\ DOMAIN fill = Sources
    BY <1>3, <2>1, <2>2 DEF GalleryOK
  <2>4. new \in Gathers /\ new.before = old.before /\ new.cut
    <3> HIDE DEF old
    <3> QED
      BY <2>3 DEF Gathers
  <2>5. Honest(new, s)
    BY <2>3, <2>4 DEF Honest
  <2>6. fill' = [fill EXCEPT !["photos"][s] = new]
    BY <2>1, <2>2, <2>3 DEF IsList
  <2> HIDE DEF new
  <2> QED
    BY <2>1, <2>2, <2>4, <2>5, <2>6, OneShelfMoves
<1>7. ASSUME NEW source \in Sources, EndFill(source) PROVE GalleryOK'
  <2>1. /\ fill[source] # None /\ UNCHANGED stored
        /\ \A s \in Shelves[source] : fill[source][s].over
        /\ cache' = [cache EXCEPT ![source] = fill[source]] /\ fill' = [fill EXCEPT ![source] = None]
    BY <1>7 DEF EndFill
  <2>2. /\ DOMAIN cache' = Sources /\ DOMAIN fill' = Sources
        /\ \A r \in Sources : /\ cache'[r] = IF r = source THEN fill[source] ELSE cache[r]
                              /\ fill'[r] = IF r = source THEN None ELSE fill[r]
    BY <2>1 DEF GalleryOK
  <2>3. \A s \in Shelves[source] : Whole(fill[source][s]) /\ (fill[source][s].cut => source = "photos")
    BY <1>3, <2>1 DEF Honest, Whole
  <2> QED
    BY <2>1, <2>2, <2>3 DEF GalleryOK, Honest
<1>8. ASSUME NEW s \in Shelf, NEW image \in Images, Added(s, image) PROVE GalleryOK'
  <2>1. stored' = [stored EXCEPT ![s] = @ \cup {image}] /\ UNCHANGED <<cache, fill>>
    BY <1>8 DEF Added
  <2> QED
    BY <2>1, StoredGrows DEF GalleryOK
<1>9. ASSUME uploader # None, CloudinaryStores PROVE GalleryOK'
  <2>1. /\ stored' = [stored EXCEPT ![uploader.run.folder] = @ \cup {uploader.run.now}]
        /\ UNCHANGED <<cache, fill>> /\ RunStage("uploading")
    BY <1>9 DEF CloudinaryStores
  <2>2. uploader.items \in Queues /\ uploader.run.now \in DOMAIN uploader.items
    BY <1>9, <2>1 DEF UploaderOK, Uploaders, RunOK, RunStage, AtImage
  <2>3. uploader.run.now \in Images
    BY <2>2, QueueIs
  <2> QED
    BY <2>1, <2>3, StoredGrows DEF GalleryOK
<1>10. CASE uploader # None /\ (UploaderClicks \/ UploaderGoesOn \/ UploaderFails)
  <2>1. CASE CloudinaryStores
    BY <1>9, <1>10, <2>1
  <2>2. CASE ServeSync \/ ServeRefresh
    BY <1>1, <2>2 DEF ServeSync, ServeRefresh, Expire
  <2>3. CASE \/ \E files \in SUBSET Images : handleFiles(files)
             \/ \E s \in PhotoShelves : SelectCategory(s)
             \/ PressSync \/ handleUpload \/ SyncAnswered \/ ServeSignature \/ NextItem
             \/ Optimized \/ ItemComplete \/ AllDone \/ UploadOver \/ SyncRefused \/ ItemFails
             \/ UploadStops
    <3>1. UNCHANGED <<stored, cache, fill>>
      BY <2>3 DEF handleFiles, SelectCategory, PressSync, handleUpload, SyncAnswered, ServeSignature, NextItem,
                  Optimized, ItemComplete, AllDone, UploadOver, SyncRefused, ItemFails, UploadStops, Proceeds
    <3> QED
      BY <1>1, <3>1
  <2> QED
    BY <1>10, <2>1, <2>2, <2>3 DEF UploaderClicks, UploaderGoesOn, UploaderFails
<1>11. CASE Visitors \/ GalleryGoesOn \/ GalleryLoses
  BY <1>2, <1>4, <1>5, <1>6, <1>7, <1>11, <1>12 DEF Visitors, GalleryGoesOn, GalleryLoses
<1> QED
  BY <1>1, <1>8, <1>10, <1>11 DEF MediaStep

-----------------------------------------------------------------------------
(* The theorems                                                               *)

\* What is true of the upload page and the gallery in every state.
MediaOK == UploaderOK /\ GalleryOK

LEMMA MediaStarts ==
  ASSUME SiteInit
  PROVE  MediaOK
<1>1. stored \in [Shelf -> SUBSET Images] /\ uploader = None
      /\ cache = [source \in Sources |-> None] /\ fill = [source \in Sources |-> None]
  BY DEF SiteInit, MediaInit
<1> QED
  BY <1>1 DEF MediaOK, UploaderOK, GalleryOK

LEMMA MediaGoesOn ==
  ASSUME MediaOK, [SiteNext]_siteVars
  PROVE  MediaOK' /\ QueueKept
  BY MediaSteps, UploaderStep, GalleryStep DEF MediaOK

LEMMA MediaAlways == SiteSpec => []MediaOK
<1>1. SiteInit => MediaOK
  BY MediaStarts
<1>2. MediaOK /\ [SiteNext]_siteVars => MediaOK'
  BY MediaGoesOn
<1> QED
  BY <1>1, <1>2, PTL DEF SiteSpec

\* Whatever is uploaded or added while a list is read, whichever page of it fails and whenever
\* the tag expires, the gallery never caches a part of a shelf of films, and a part of a shelf
\* of photos only behind a successful answer whose body could not be read.
THEOREM CachedShelvesAreWhole == SiteSpec => []WholeShelves
<1>1. MediaOK => WholeShelves
  BY DEF MediaOK, GalleryOK, Whole, WholeShelves
<1> QED
  BY <1>1, MediaAlways, PTL

\* No step of a run, of a retry or of a failure takes an image back from "complete".
THEOREM CompleteImagesStay == SiteSpec => CompleteStays
<1>1. MediaOK /\ [SiteNext]_siteVars => QueueKept
  BY MediaGoesOn
<1> QED
  BY <1>1, MediaAlways, PTL DEF SiteSpec, CompleteStays, QueueKept
=============================================================================
