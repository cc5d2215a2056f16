-------------------------- MODULE PortalRowsProofs --------------------------
(***************************************************************************)
(* One filling of a form makes one row: the invariant that keeps it, for   *)
(* any rows and any number of requests, page by page.                      *)
(*                                                                         *)
(* On most pages the button is off from the click until the form that was  *)
(* sent is gone, or is shown to have failed.  Where a key is unique the    *)
(* database keeps a second row away, and the post that is edited makes no  *)
(* row at all.                                                             *)
(***************************************************************************)
EXTENDS PortalProofs

-----------------------------------------------------------------------------
(* The invariant. *)

\* The pages on which a filling may be sent again once the button is on: there the key keeps a
\* second row away.
OncePages == {"accountant form", "blog create", "register"}
ReceiptPages == {"request service", "book consultation"}
\* The pages that reload while the form is still open.
ReloadFirst == {"staff", "testimonials", "services", "social links"}
FillPages == EditorPages \cup ReceiptPages \cup {"content", "request", "portal documents", "contact"}

\* The request that sends the form, the reload that follows it, and the flag that keeps the
\* button off until both are answered.
SendOp(p) == IF p = "request" THEN "send" ELSE IF p = "portal documents" THEN "upload" ELSE "save"
ReloadOp(p) == IF p = "request" THEN "send" ELSE IF p = "portal documents" THEN "uploaded" ELSE "saved"
Button(p) == IF p = "request" THEN "sending" ELSE IF p = "portal documents" THEN "uploading" ELSE "saving"
Cards(v) == "loading" \notin v.busy /\ FirstRow \in DOMAIN v.rows
Holds(p, v, q) == q.op \in {SendOp(p), ReloadOp(p)} /\ (p = "request" => Cards(v) /\ q.life = v.mounted)

\* A filling is sent by one request, and is not made before that is served.
Sends == \A q \in flight :
    /\ q.verb \in Creates => q.op = SendOp(page)
    /\ page = "request" /\ q.op = "send" => q.life <= view.mounted
    /\ q.op = SendOp(page) =>
         /\ q.fill < clicks
         /\ q.state = "sent" => q.fill \notin ledger.made
         /\ \A h \in flight : h.op = SendOp(page) /\ h.fill = q.fill => h = q
\* The button is off for one request at a time.
OneHolds == \A q \in flight : Holds(page, view, q) =>
    Button(page) \in view.busy /\ \A h \in flight : Holds(page, view, h) => h = q
\* A form that was sent cannot be sent: the button is off, or the receipt is shown instead.
Used(n) == n \in ledger.made \/ \E q \in flight : q.op = SendOp(page) /\ q.fill = n
SentFor(q, n) == Holds(page, view, q) /\ ((q.op = SendOp(page) /\ q.fill = n) \/ (page \in ReloadFirst /\ q.op = "saved"))
Offered == view.form # NONE =>
    /\ page # "content" /\ view.form.fill <= clicks
    /\ Used(view.form.fill) => (page \in ReceiptPages /\ view.open) \/ \E q \in flight : SentFor(q, view.form.fill)
Filling == Sends /\ OneHolds /\ Offered /\ \A n \in ledger.made : n < clicks

\* The rows with what was typed: none, or one that keeps the others away.
KeyTaken == \E r \in SparePool : server[r] = "typed"
Keyed == /\ \A q \in flight : q.op = "save" /\ q.verb = "createOnce" /\ q.text = "typed"
         /\ view.form # NONE => view.form.row = NONE /\ view.form.text \in {"", "typed"}
         /\ KeyTaken \/ (ledger.made = {} /\ \A r \in SparePool : server[r] = NONE)
Edits == (\A q \in flight : q.verb \notin Creates) /\ (view.form # NONE => view.form.row # NONE)

OneRow == /\ ~ledger.twice
          /\ page \in FillPages => Filling
          /\ page \in OncePages => Keyed
          /\ page = "blog edit" => Edits

-----------------------------------------------------------------------------
(* Steps that send no form and answer none. *)

\* A request that neither sends a form nor waits with the button.
Idle(n) == n.verb \notin Creates /\ n.op \notin {SendOp(page), ReloadOp(page)}
\* The view v offers no form that was not offered before, but a new filling.
Calm(v) ==
    /\ \/ v.form = NONE
       \/ page # "content" /\ v.form.fill = clicks
       \/ view.form # NONE /\ v.form.fill = view.form.fill /\ (page \in ReceiptPages /\ view.open => v.open)
    /\ Button(page) \in v.busy <=> Button(page) \in view.busy
    /\ page = "request" => v.mounted = view.mounted /\ (Cards(v) <=> Cards(view))

LEMMA Typed ==
    ASSUME IInv
    PROVE  /\ clicks \in Nat /\ ledger.made \subseteq Nat /\ ledger.twice \in BOOLEAN /\ view \in TextedView
           /\ \A q \in flight : q.fill \in Nat /\ q.life \in Nat /\ q \in AskFields
           /\ view.form # NONE => view.form.fill \in Nat /\ view.form \in TextedForm
<1>1. view.form \in TextedForm \cup {NONE} /\ view \in TextedView /\ clicks \in Nat
  BY ReadyFacts DEF TextedView
<1>2. \A q \in flight : q \in AskFields
  BY ReadyFacts DEF TextedAsk
<1>3. \A q \in AskFields : q.fill \in Nat /\ q.life \in Nat
  BY DEF AskFields
<1>4. \A f \in TextedForm : f.fill \in Nat
  BY DEF TextedForm, Form
<1>5. ledger.made \subseteq Nat /\ ledger.twice \in BOOLEAN
  BY DEF IInv, Data
<1> QED
  BY <1>1, <1>2, <1>3, <1>4, <1>5

LEMMA CalmStep ==
    ASSUME IInv, OneRow, page \in FillPages, page' = page, NEW v, view' = v, Calm(v),
           ledger'.made \subseteq ledger.made, ledger'.twice = ledger.twice, clicks' \in Nat, clicks <= clicks',
           \A q \in flight' : q \in flight \/ Idle(q),
           \A q \in flight : Holds(page, view, q) => q \in flight'
    PROVE  OneRow'
<1>1. Filling /\ ~ledger.twice
  BY DEF OneRow
<1>2. \A q \in flight' : q.op \in {SendOp(page), ReloadOp(page)} \/ q.verb \in Creates => q \in flight
  BY DEF Idle
<1>3. \A q : Holds(page, v, q) <=> Holds(page, view, q)
  BY DEF Calm, Holds
<1>4. \A n \in ledger'.made : n < clicks'
  BY <1>1, Typed DEF Filling
<1>5. Sends'
  <2>1. ASSUME NEW q \in flight'
        PROVE  /\ q.verb \in Creates => q.op = SendOp(page)
               /\ page = "request" /\ q.op = "send" => q.life <= v.mounted
               /\ q.op = SendOp(page) =>
                    /\ q.fill < clicks'
                    /\ q.state = "sent" => q.fill \notin ledger'.made
                    /\ \A h \in flight' : h.op = SendOp(page) /\ h.fill = q.fill => h = q
    <3>1. CASE q.op = SendOp(page) \/ q.verb \in Creates
      <4>1. q \in flight
        BY <1>2, <3>1
      <4>2. q.op = SendOp(page) /\ q.fill < clicks /\ (q.state = "sent" => q.fill \notin ledger.made)
            /\ (page = "request" /\ q.op = "send" => q.life <= view.mounted)
            /\ \A h \in flight : h.op = SendOp(page) /\ h.fill = q.fill => h = q
        BY <1>1, <3>1, <4>1 DEF Filling, Sends
      <4>3. q.fill < clicks'
        BY <4>1, <4>2, Typed
      <4> QED
        BY <1>2, <4>2, <4>3 DEF Calm
    <3>2. CASE ~(q.op = SendOp(page) \/ q.verb \in Creates)
      BY <3>2 DEF SendOp
    <3> QED
      BY <3>1, <3>2
  <2> QED
    BY <2>1 DEF Sends
<1>6. OneHolds'
  <2>1. \A q \in flight' : Holds(page, v, q) => q \in flight /\ Holds(page, view, q)
    BY <1>2, <1>3 DEF Holds
  <2> QED
    BY <1>1, <2>1 DEF Filling, OneHolds, Calm
<1>7. Offered'
  <2>1. \A n : Used(n)' => Used(n)
    BY <1>2 DEF Used
  <2>2. CASE v.form = NONE
    BY <2>2 DEF Offered
  <2>3. CASE page # "content" /\ v.form.fill = clicks
    <3>1. ~Used(clicks)
      BY <1>1, Typed DEF Filling, Sends, Used
    <3> QED
      BY <2>1, <2>3, <3>1, Typed DEF Offered
  <2>4. CASE view.form # NONE /\ v.form.fill = view.form.fill /\ (page \in ReceiptPages /\ view.open => v.open)
    <3>1. page # "content" /\ view.form.fill <= clicks'
      BY <1>1, <2>4, Typed DEF Filling, Offered
    <3>2. ASSUME NEW q \in flight, SentFor(q, view.form.fill) PROVE q \in flight' /\ SentFor(q, v.form.fill)'
      BY <1>3, <2>4, <3>2 DEF SentFor
    <3> QED
      BY <1>1, <2>1, <2>4, <3>1, <3>2 DEF Filling, Offered, Calm
  <2> QED
    BY <2>2, <2>3, <2>4 DEF Calm
<1>8. page \notin OncePages /\ page # "blog edit"
  BY DEF FillPages, EditorPages, OncePages, ReceiptPages
<1> QED
  BY <1>1, <1>4, <1>5, <1>6, <1>7, <1>8 DEF OneRow, Filling

-----------------------------------------------------------------------------
(* Steps that send a form, and those that answer one. *)

LEMMA SendStep ==
    ASSUME IInv, OneRow, page \in FillPages, NEW v, NEW n, UserAsks(v, n),
           Button(page) \in v.busy, Button(page) \notin view.busy, v.form = view.form,
           page \in ReceiptPages => ~view.open,
           page = "request" => v.mounted = view.mounted,
           n.op = SendOp(page), n.state = "sent", n.life = view.mounted, page = "request" => Cards(v),
           \/ view.form # NONE /\ n.fill = view.form.fill
           \/ page = "content" /\ n.fill = clicks
    PROVE  OneRow'
<1>1. Filling /\ ~ledger.twice /\ clicks \in Nat
  BY Typed DEF OneRow
<1>2. /\ page' = page /\ view' = v /\ flight' = flight \cup {n} /\ clicks' = clicks + 1 /\ ledger' = ledger
  BY DEF UserAsks, UserAsksAll
<1>3. ~Used(n.fill) /\ n.fill \in Nat /\ n.fill <= clicks
  <2>1. CASE view.form # NONE /\ n.fill = view.form.fill
    <3>1. \A q \in flight : ~SentFor(q, n.fill)
      BY <1>1 DEF Filling, OneHolds, SentFor
    <3> QED
      BY <1>1, <2>1, <3>1, Typed DEF Filling, Offered
  <2>2. CASE page = "content" /\ n.fill = clicks
    BY <1>1, <2>2, Typed DEF Filling, Sends, Used
  <2> QED
    BY <2>1, <2>2
<1>4. \A q : Holds(page, v, q) => q.op \in {SendOp(page), ReloadOp(page)} /\ (page = "request" => q.life = view.mounted)
  BY DEF Holds
<1>5. \A k \in ledger'.made : k < clicks'
  BY <1>1, <1>2, Typed DEF Filling
<1>6. Sends'
  <2>1. ASSUME NEW q \in flight
        PROVE  /\ q.verb \in Creates => q.op = SendOp(page)
               /\ page = "request" /\ q.op = "send" => q.life <= v.mounted
               /\ q.op = SendOp(page) =>
                    /\ q.fill < clicks + 1 /\ q.fill # n.fill
                    /\ q.state = "sent" => q.fill \notin ledger.made
                    /\ \A h \in flight : h.op = SendOp(page) /\ h.fill = q.fill => h = q
    BY <1>1, <1>3, Typed DEF Filling, Sends, Used
  <2>2. /\ page = "request" => n.life <= v.mounted
        /\ n.fill < clicks + 1 /\ n.fill \notin ledger.made
    BY <1>1, <1>3, Typed DEF Used, TextedView
  <2> QED
    BY <1>2, <2>1, <2>2 DEF Sends
<1>7. OneHolds'
  <2>1. ASSUME NEW q \in flight, Holds(page, v, q) PROVE q = n
    <3>1. CASE page # "request"
      BY <1>1, <2>1, <3>1 DEF Filling, OneHolds, Holds
    <3>2. CASE page = "request" /\ Cards(view)
      BY <1>1, <2>1, <3>2 DEF Filling, OneHolds, Holds
    <3>3. CASE page = "request" /\ ~Cards(view)
      <4>1. view.form = NONE
        BY <3>3, ReadyFacts DEF ViewOn, Cards
      <4> QED
        BY <3>3, <4>1
    <3> QED
      BY <3>1, <3>2, <3>3
  <2> QED
    BY <1>2, <2>1 DEF OneHolds
<1>8. Offered'
  <2>1. CASE v.form = NONE
    BY <1>2, <2>1 DEF Offered
  <2>2. CASE view.form # NONE /\ n.fill = view.form.fill
    <3>1. Holds(page, v, n) /\ page # "content" /\ view.form.fill <= clicks + 1
      BY <1>1, <2>2, Typed DEF Holds, Filling, Offered
    <3>2. n \in flight' /\ SentFor(n, v.form.fill)'
      BY <1>2, <2>2, <3>1 DEF SentFor
    <3> QED
      BY <1>2, <3>1, <3>2 DEF Offered
  <2>3. CASE page = "content" /\ view.form # NONE
    BY <1>1, <2>3 DEF Filling, Offered
  <2> QED
    BY <2>1, <2>2, <2>3
<1>9. page \notin OncePages /\ page # "blog edit"
  BY DEF FillPages, EditorPages, OncePages, ReceiptPages
<1> QED
  BY <1>1, <1>2, <1>5, <1>6, <1>7, <1>8, <1>9 DEF OneRow, Filling

\* What may become of the form when the request q that the button waits for is answered, and the
\* requests of more are sent.
FormLeft(v, q, more) ==
    \/ v.form = NONE
    \/ page # "content" /\ v.form.fill = clicks
    \/ /\ view.form # NONE /\ v.form.fill = view.form.fill
       /\ \/ q.op = SendOp(page) /\ q.fill \notin ledger'.made
          \/ page \in ReceiptPages /\ v.open
          \/ q.op # SendOp(page) /\ page \notin ReloadFirst
          \/ page \in ReloadFirst /\ \E n \in more : n.op = "saved"

LEMMA EndStep ==
    ASSUME IInv, OneRow, page \in FillPages, NEW v, NEW q \in flight, NEW more, Holds(page, view, q),
           page' = page, view' = v, flight' = (flight \ {q}) \cup more, clicks' = clicks,
           ledger'.made \subseteq ledger.made, ledger'.twice = ledger.twice,
           \A n \in more : /\ n.verb \notin Creates /\ n.op # SendOp(page)
                           /\ n.op = ReloadOp(page) => Button(page) \in v.busy /\ \A m \in more : m = n,
           page = "request" => v.mounted = view.mounted /\ (Cards(v) => Cards(view)),
           page \in ReceiptPages /\ view.open => v.open,
           FormLeft(v, q, more)
    PROVE  OneRow'
<1>1. Filling /\ ~ledger.twice /\ clicks \in Nat
  BY Typed DEF OneRow
<1>2. \A h : Holds(page, v, h) => Holds(page, view, h)
  BY DEF Holds
<1>3. \A h \in flight : Holds(page, view, h) => h = q
  BY <1>1 DEF Filling, OneHolds
<1>4. \A k \in ledger'.made : k < clicks'
  BY <1>1 DEF Filling
<1>5. Sends'
  <2>1. ASSUME NEW a \in flight'
        PROVE  /\ a.verb \in Creates => a.op = SendOp(page)
               /\ page = "request" /\ a.op = "send" => a.life <= v.mounted
               /\ a.op = SendOp(page) =>
                    /\ a.fill < clicks'
                    /\ a.state = "sent" => a.fill \notin ledger'.made
                    /\ \A h \in flight' : h.op = SendOp(page) /\ h.fill = a.fill => h = a
    <3>1. CASE a \in more
      BY <3>1 DEF SendOp
    <3>2. CASE a \in flight
      <4>1. /\ a.verb \in Creates => a.op = SendOp(page)
            /\ page = "request" /\ a.op = "send" => a.life <= view.mounted
            /\ a.op = SendOp(page) =>
                 /\ a.fill < clicks
                 /\ a.state = "sent" => a.fill \notin ledger.made
                 /\ \A h \in flight : h.op = SendOp(page) /\ h.fill = a.fill => h = a
        BY <1>1, <3>2 DEF Filling, Sends
      <4> QED
        BY <4>1
    <3> QED
      BY <3>1, <3>2
  <2> QED
    BY <2>1 DEF Sends
<1>6. OneHolds'
  <2>1. \A h \in flight' : Holds(page, v, h) => h \in more /\ h.op = ReloadOp(page)
    BY <1>2, <1>3 DEF Holds
  <2> QED
    BY <2>1 DEF OneHolds
<1>7. Offered'
  <2>1. \A k : Used(k)' => Used(k)
    BY DEF Used
  <2>2. CASE v.form = NONE
    BY <2>2 DEF Offered
  <2>3. CASE page # "content" /\ v.form.fill = clicks
    <3>1. ~Used(clicks)
      BY <1>1, Typed DEF Filling, Sends, Used
    <3> QED
      BY <2>1, <2>3, <3>1, Typed DEF Offered
  <2>4. CASE /\ view.form # NONE /\ v.form.fill = view.form.fill
             /\ \/ q.op = SendOp(page) /\ q.fill \notin ledger'.made
                \/ page \in ReceiptPages /\ v.open
                \/ q.op # SendOp(page) /\ page \notin ReloadFirst
                \/ page \in ReloadFirst /\ \E n \in more : n.op = "saved"
    <3>0. page # "content" /\ view.form.fill <= clicks
      BY <1>1, <2>4 DEF Filling, Offered
    <3>1. ASSUME q.op = SendOp(page), q.fill \notin ledger'.made, Used(v.form.fill)'
          PROVE  page \in ReceiptPages /\ view.open
      <4>1. Used(v.form.fill) /\ q.fill # v.form.fill
        <5>1. \A h \in flight : h.op = SendOp(page) /\ h.fill = q.fill => h = q
          BY <1>1, <3>1 DEF Filling, Sends
        <5>2. q.fill = v.form.fill => FALSE
          BY <3>1, <5>1 DEF Used
        <5> QED
          BY <2>1, <3>1, <5>2
      <4>2. \A h \in flight : SentFor(h, v.form.fill) => FALSE
        BY <1>3, <3>1, <4>1 DEF SentFor, ReloadFirst, EditorPages, SendOp
      <4> QED
        BY <1>1, <2>4, <4>1, <4>2 DEF Filling, Offered
    <3>2. ASSUME q.op # SendOp(page), page \notin ReloadFirst, Used(v.form.fill)
          PROVE  page \in ReceiptPages /\ view.open
      <4>1. \A h \in flight : ~SentFor(h, v.form.fill)
        BY <1>3, <3>2 DEF SentFor
      <4> QED
        BY <1>1, <2>4, <3>2, <4>1 DEF Filling, Offered
    <3>3. ASSUME page \in ReloadFirst, NEW n \in more, n.op = "saved" PROVE n \in flight' /\ SentFor(n, v.form.fill)'
      <4>1. Holds(page, v, n)
        BY <3>3 DEF Holds, ReloadFirst, ReloadOp
      <4> QED
        BY <3>3, <4>1 DEF SentFor
    <3>4. CASE q.op = SendOp(page) /\ q.fill \notin ledger'.made
      <4>1. Used(v.form.fill)' => page \in ReceiptPages /\ v.open
        BY <3>1, <3>4
      <4> QED
        BY <2>4, <3>0, <4>1 DEF Offered
    <3>5. CASE page \in ReceiptPages /\ v.open
      BY <2>4, <3>0, <3>5 DEF Offered
    <3>6. CASE q.op # SendOp(page) /\ page \notin ReloadFirst
      <4>1. Used(v.form.fill)' => page \in ReceiptPages /\ v.open
        BY <2>1, <3>2, <3>6
      <4> QED
        BY <2>4, <3>0, <4>1 DEF Offered
    <3>7. CASE page \in ReloadFirst /\ \E n \in more : n.op = "saved"
      <4>1. \E n \in flight' : SentFor(n, v.form.fill)'
        BY <3>3, <3>7
      <4> QED
        BY <2>4, <3>0, <4>1 DEF Offered
    <3> QED
      BY <2>4, <3>4, <3>5, <3>6, <3>7
  <2> QED
    BY <2>2, <2>3, <2>4 DEF FormLeft
<1>8. page \notin OncePages /\ page # "blog edit"
  BY DEF FillPages, EditorPages, OncePages, ReceiptPages
<1> QED
  BY <1>1, <1>4, <1>5, <1>6, <1>7, <1>8 DEF OneRow, Filling

\* The cards of a request go, or come back in another life.
LEMMA RemountStep ==
    ASSUME IInv, OneRow, page = "request", page' = page, view'.form = NONE, clicks' = clicks, ledger' = ledger,
           \A q \in flight' : q \in flight \/ Idle(q),
           \/ ~Cards(view') /\ view'.mounted = view.mounted
           \/ view'.mounted = view.mounted + 1
    PROVE  OneRow'
<1>1. Filling /\ page \in FillPages
  BY DEF OneRow, FillPages
<1>2. view.mounted \in Nat /\ \A q \in flight : q.life \in Nat
  BY Typed DEF TextedView
<1>3. Sends'
  BY <1>1, <1>2 DEF Filling, Sends, Idle, SendOp
<1>4. \A q \in flight' : ~Holds(page, view', q)
  <2>1. ASSUME NEW q \in flight', Holds(page, view', q) PROVE FALSE
    <3>1. q.op = "send" /\ q.life = view'.mounted /\ q \in flight /\ Cards(view')
      BY <2>1 DEF Holds, Idle, SendOp, ReloadOp
    <3>2. q.life <= view.mounted
      BY <1>1, <3>1 DEF Filling, Sends
    <3> QED
      BY <1>2, <3>1, <3>2
  <2> QED
    BY <2>1
<1>5. OneHolds' /\ Offered'
  BY <1>4 DEF OneHolds, Offered
<1> QED
  BY <1>1, <1>3, <1>5 DEF OneRow, Filling, OncePages

-----------------------------------------------------------------------------
(* The same for the steps as the pages take them. *)

LEMMA RowDoes ==
    ASSUME IInv, OneRow, page \in FillPages, NEW v, Calm(v), UserDoes(v)
    PROVE  OneRow'
  BY Typed, CalmStep DEF UserDoes

LEMMA RowAsks ==
    ASSUME IInv, OneRow, page \in FillPages, NEW v, Calm(v), NEW n, Idle(n), UserAsks(v, n)
    PROVE  OneRow'
<1>1. /\ page' = page /\ view' = v /\ flight' = flight \cup {n} /\ clicks' = clicks + 1 /\ ledger' = ledger
  BY DEF UserAsks, UserAsksAll
<1>2. clicks' \in Nat /\ clicks <= clicks'
  BY <1>1, Typed
<1> QED
  BY <1>1, <1>2, CalmStep

LEMMA RowTakes ==
    ASSUME IInv, OneRow, page \in FillPages, NEW v, Calm(v), NEW q \in flight, ~Holds(page, view, q), Takes(q, v) \/ Fails(q, v)
    PROVE  OneRow'
<1>1. page' = page /\ view' = v /\ flight' = flight \ {q} /\ clicks' = clicks
  BY DEF Takes, Fails
<1>2. ledger'.made \subseteq ledger.made /\ ledger'.twice = ledger.twice
  BY ReadyFacts, Typed DEF Takes, Fails, IInv, Data
<1>3. clicks' \in Nat /\ clicks <= clicks'
  BY <1>1, Typed
<1> QED
  BY <1>1, <1>2, <1>3, CalmStep

LEMMA RowTakesAsks ==
    ASSUME IInv, OneRow, page \in FillPages, NEW v, Calm(v), NEW q \in flight, ~Holds(page, view, q),
           NEW more, \A n \in more : Idle(n), TakesThenAsksAll(q, v, more)
    PROVE  OneRow'
<1>1. page' = page /\ view' = v /\ flight' = (flight \ {q}) \cup more /\ clicks' = clicks /\ ledger' = ledger
  BY DEF TakesThenAsksAll
<1>2. clicks' \in Nat /\ clicks <= clicks'
  BY <1>1, Typed
<1> QED
  BY <1>1, <1>2, CalmStep

LEMMA IdleAsks ==
    ASSUME NEW op, op \notin {SendOp(page), ReloadOp(page)}
    PROVE  /\ Idle(GetList(op)) /\ (\A r : Idle(GetRow(op, r)) /\ Idle(Patch(op, r)) /\ Idle(Delete(op, r)))
           /\ \A f : Idle(Upload(op, f))
  BY DEF Idle, GetList, GetRow, Patch, Delete, Upload, Request, Creates

\* On most pages only the form and the flags matter.
LEMMA PlainCalm ==
    ASSUME page \notin ReceiptPages \cup {"request"}, NEW v, Button(page) \in v.busy <=> Button(page) \in view.busy,
           v.form = NONE \/ (page # "content" /\ v.form.fill = clicks) \/ v.form = view.form
    PROVE  Calm(v)
  BY DEF Calm

LEMMA SameCalm == Calm(view)
  BY DEF Calm

-----------------------------------------------------------------------------
(* The admin's pages that keep the content of the public site, and the others with a form over a *)
(* table. *)

LEMMA EditorOps ==
    page \in EditorPages =>
        /\ SendOp(page) = "save" /\ ReloadOp(page) = "saved" /\ Button(page) = "saving"
        /\ page \notin ReceiptPages \cup {"request", "content"} /\ page \in FillPages
        /\ \A q : Holds(page, view, q) <=> q.op \in {"save", "saved"}
  BY DEF EditorPages, ReceiptPages, FillPages, SendOp, ReloadOp, Button, Holds

\* An answer to something else than the form.
LEMMA OtherAnswers ==
    ASSUME IInv, page \in EditorPages, NEW op, op \notin {"save", "saved"}
    PROVE  /\ \A q \in Answers(op) : q \in flight /\ ~Holds(page, view, q) /\ q.got \in TextedRows
           /\ Idle(GetList(op)) /\ \A r : Idle(GetRow(op, r)) /\ Idle(Patch(op, r)) /\ Idle(Upload(op, r))
<1>1. ASSUME NEW q \in Answers(op) PROVE q \in flight /\ ~Holds(page, view, q) /\ q.got \in TextedRows
  <2>1. q \in flight /\ q.op = op /\ q.got \in TextedRows
    BY AnswerFacts
  <2> QED
    BY <2>1, EditorOps
<1>2. op \notin {SendOp(page), ReloadOp(page)}
  BY EditorOps
<1>3. Idle(GetList(op)) /\ \A r : Idle(GetRow(op, r)) /\ Idle(Patch(op, r)) /\ Idle(Upload(op, r))
  BY <1>2, IdleAsks
<1> QED
  BY <1>1, <1>3

LEMMA ListTakenRow ==
    ASSUME IInv, OneRow, page \in EditorPages, LoadTaken
    PROVE  OneRow'
<1>1. PICK q \in Answers("load") : Takes(q, ListTaken(q, view))
  BY DEF LoadTaken
<1>2. q \in flight /\ q.op = "load" /\ q.got \in TextedRows
  BY AnswerFacts
<1>3. ListTaken(q, view).busy = view.busy \ {"loading"} /\ ListTaken(q, view).form = view.form
  BY <1>2, ReadyFacts, ListTakenFacts
<1>4. Calm(ListTaken(q, view))
  BY <1>3, EditorOps, PlainCalm
<1> QED
  BY <1>1, <1>2, <1>4, EditorOps, RowTakes

LEMMA ReloadsRow ==
    ASSUME IInv, OneRow, page \in EditorPages, NEW op \in {"delete", "toggle"}, ReloadsAfter(op)
    PROVE  OneRow'
<1>1. \A q \in Answers(op) : q \in flight /\ ~Holds(page, view, q)
  BY AnswerFacts, EditorOps
<1>2. CASE \E q \in Good(op) : TakesThenAsks(q, Busy(view, {"loading"}), GetList("load"))
  <2>1. PICK q \in Good(op) : TakesThenAsks(q, Busy(view, {"loading"}), GetList("load"))
    BY <1>2
  <2>2. Busy(view, {"loading"}).busy = view.busy \cup {"loading"} /\ Busy(view, {"loading"}).form = view.form
    BY ReadyFacts, FlagFacts DEF Flag
  <2>3. Calm(Busy(view, {"loading"})) /\ Idle(GetList("load"))
    BY <2>2, EditorOps, PlainCalm, IdleAsks
  <2> QED
    BY <1>1, <2>1, <2>3, GoodBad, EditorOps, RowTakesAsks DEF TakesThenAsks
<1>3. CASE \E q \in Bad(op) : Fails(q, view)
  BY <1>1, <1>3, GoodBad, EditorOps, RowTakes, SameCalm
<1> QED
  BY <1>2, <1>3 DEF ReloadsAfter

LEMMA FormOpensRow ==
    ASSUME IInv, OneRow, page \in FillPages, page \notin ReceiptPages \cup {"request", "content"},
           NEW f \in TextedForm, f.fill = clicks, FormOpens(f)
    PROVE  OneRow'
<1>1. LET w == [view EXCEPT !.form = f] IN w.busy = view.busy /\ w.form = f
  BY ReadyFacts, FormFacts
<1>2. Calm([view EXCEPT !.form = f])
  BY <1>1, PlainCalm
<1> QED
  BY <1>2, RowDoes DEF FormOpens

LEMMA TypingRow ==
    ASSUME IInv, OneRow, page \in FillPages, page \notin ReceiptPages \cup {"request"}, view.form # NONE, Typing
    PROVE  OneRow'
<1> DEFINE w == [view EXCEPT !.form.text = "typed"]
<1>1. w.busy = view.busy /\ w.form.fill = view.form.fill
  BY TypingFacts
<1> HIDE DEF w
<1>2. Calm(w)
  BY <1>1 DEF Calm
<1> QED
  BY <1>2, RowDoes DEF Typing, w

LEMMA EditorTurnRow ==
    ASSUME IInv, OneRow, page \in EditorPages, EditorTurn
    PROVE  OneRow'
<1>1. page \in FillPages /\ page \notin ReceiptPages \cup {"request", "content"}
  BY EditorOps
<1>2. CASE LoadTaken
  BY <1>2, ListTakenRow
<1>3. CASE \/ view.form = NONE /\ FormOpens(Blank)
           \/ \E r \in DOMAIN view.rows : view.form = NONE /\ FormOpens(FormOf(r, view.rows[r]))
  <2>1. /\ Blank \in TextedForm /\ Blank.fill = clicks
        /\ \A r \in DOMAIN view.rows : FormOf(r, view.rows[r]) \in TextedForm /\ FormOf(r, view.rows[r]).fill = clicks
    BY ReadyFacts, RowsOfView, FormsTexted DEF Blank, FormOf
  <2> QED
    BY <1>1, <1>3, <2>1, FormOpensRow
<1>4. CASE FormCloses
  <2>1. FormShut(view).busy = view.busy \ {"uploading"} /\ FormShut(view).form = NONE
    BY ReadyFacts, FormShutFacts
  <2>2. Calm(FormShut(view))
    BY <1>1, <2>1, EditorOps, PlainCalm
  <2> QED
    BY <1>1, <1>4, <2>2, RowDoes DEF FormCloses
<1>5. CASE view.form # NONE /\ Typing
  BY <1>1, <1>5, TypingRow
<1>6. CASE \E r \in DOMAIN view.rows : UserAsks(view, Delete("delete", r)) \/ UserAsks(view, Patch("toggle", r))
  BY <1>1, <1>6, EditorOps, IdleAsks, SameCalm, RowAsks
<1>7. CASE ReloadsAfter("delete") \/ ReloadsAfter("toggle")
  BY <1>7, ReloadsRow
<1>8. CASE UserAsks(Busy(view, {"loading"}), GetList("load"))
  <2>1. Busy(view, {"loading"}).busy = view.busy \cup {"loading"} /\ Busy(view, {"loading"}).form = view.form
    BY ReadyFacts, FlagFacts DEF Flag
  <2>2. Calm(Busy(view, {"loading"})) /\ Idle(GetList("load"))
    BY <1>1, <2>1, EditorOps, PlainCalm, IdleAsks
  <2> QED
    BY <1>1, <1>8, <2>2, RowAsks
<1> QED
  BY <1>2, <1>3, <1>4, <1>5, <1>6, <1>7, <1>8 DEF EditorTurn

LEMMA FormAsks ==
    ASSUME NEW op, NEW f
    PROVE  LET Sent(n) == n.op = op /\ n.state = "sent" /\ n.life = view.mounted /\ n.fill = f.fill IN
           Sent(Create(op, f)) /\ Sent(CreateOnce(op, f)) /\ Sent(Update(op, f)) /\ Sent(CreateOrUpdate(op, f))
  BY DEF CreateOrUpdate, Create, CreateOnce, Update, Request

LEMMA ReloadAsks ==
    ASSUME NEW op
    PROVE  LET Follow(n) == n.op = op /\ n.verb \notin Creates IN
           Follow(GetList(op)) /\ \A r : Follow(GetRow(op, r))
  BY DEF GetList, GetRow, Request, Creates

LEMMA EndTakes ==
    ASSUME IInv, OneRow, page \in FillPages, NEW v, NEW q \in flight, Holds(page, view, q),
           page = "request" => v.mounted = view.mounted /\ (Cards(v) => Cards(view)),
           page \in ReceiptPages /\ view.open => v.open,
           FormLeft(v, q, {}), Takes(q, v) \/ Fails(q, v)
    PROVE  OneRow'
<1>1. page' = page /\ view' = v /\ flight' = (flight \ {q}) \cup {} /\ clicks' = clicks
  BY DEF Takes, Fails
<1>2. ledger'.made \subseteq ledger.made /\ ledger'.twice = ledger.twice
  BY ReadyFacts, Typed DEF Takes, Fails, IInv, Data
<1> QED
  BY <1>1, <1>2, EndStep

LEMMA EndAsks ==
    ASSUME IInv, OneRow, page \in FillPages, page \notin ReceiptPages \cup {"request"},
           NEW v, NEW q \in flight, Holds(page, view, q), NEW n,
           n.verb \notin Creates, n.op # SendOp(page), n.op = ReloadOp(page) => Button(page) \in v.busy,
           FormLeft(v, q, {n}), TakesThenAsks(q, v, n)
    PROVE  OneRow'
<1>1. page' = page /\ view' = v /\ flight' = (flight \ {q}) \cup {n} /\ clicks' = clicks /\ ledger' = ledger
  BY DEF TakesThenAsks, TakesThenAsksAll
<1> QED
  BY <1>1, EndStep

\* A write that failed has made no row any more.
LEMMA FailedMadeNone == ASSUME IInv, NEW q, NEW v, Fails(q, v) PROVE q.fill \notin ledger'.made
  BY DEF Fails, IInv, Data

LEMMA SaveClickRow ==
    ASSUME IInv, OneRow, page \in FillPages, page # "request", page \in ReceiptPages => ~view.open,
           SendOp(page) = "save", view.form # NONE, ~Has("saving"),
           NEW n, n.op = "save", n.state = "sent", n.life = view.mounted, n.fill = view.form.fill,
           UserAsks(Busy(view, {"saving"}), n)
    PROVE  OneRow'
<1>1. Button(page) = "saving"
  BY DEF SendOp, Button
<1>2. Busy(view, {"saving"}).busy = view.busy \cup {"saving"} /\ Busy(view, {"saving"}).form = view.form
  BY ReadyFacts, FlagFacts DEF Flag
<1> QED
  BY <1>1, <1>2, SendStep DEF Has

LEMMA SavesReloadsClosesRow ==
    ASSUME IInv, OneRow, page \in ReloadFirst, SavesReloadsCloses(view.form # NONE)
    PROVE  OneRow'
<1>1. page \in EditorPages
  BY DEF ReloadFirst, EditorPages
<1>2. /\ page \in FillPages /\ page \notin ReceiptPages \cup {"request", "content"}
      /\ SendOp(page) = "save" /\ ReloadOp(page) = "saved" /\ Button(page) = "saving"
      /\ \A q : Holds(page, view, q) <=> q.op \in {"save", "saved"}
  BY <1>1, EditorOps
<1>3. /\ \A q \in Good("save") \cup Bad("save") : q \in flight /\ q.op = "save"
      /\ \A q \in Answers("saved") : q \in flight /\ q.op = "saved" /\ q.got \in TextedRows
  BY AnswerFacts, GoodBad
<1>4. CASE view.form # NONE /\ ~Has("saving") /\ UserAsks(Busy(view, {"saving"}), CreateOrUpdate("save", view.form))
  BY <1>2, <1>4, FormAsks, SaveClickRow
<1>5. CASE \E q \in Good("save") : TakesThenAsks(q, Busy(view, {"loading"}), GetList("saved"))
  <2>1. PICK q \in Good("save") : TakesThenAsks(q, Busy(view, {"loading"}), GetList("saved"))
    BY <1>5
  <2>2. Busy(view, {"loading"}).busy = view.busy \cup {"loading"} /\ Busy(view, {"loading"}).form = view.form
    BY ReadyFacts, FlagFacts DEF Flag
  <2>3. "saving" \in view.busy
    BY <1>2, <1>3, <2>1 DEF OneRow, Filling, OneHolds
  <2>4. FormLeft(Busy(view, {"loading"}), q, {GetList("saved")})
    BY <2>2, ReloadAsks DEF FormLeft
  <2> QED
    BY <1>2, <1>3, <2>1, <2>2, <2>3, <2>4, ReloadAsks, EndAsks
<1>6. CASE \E q \in Answers("saved") : Takes(q, Free(FormShut(ListTaken(q, view)), {"saving"}))
  <2>1. PICK q \in Answers("saved") : Takes(q, Free(FormShut(ListTaken(q, view)), {"saving"}))
    BY <1>6
  <2> DEFINE w == Free(FormShut(ListTaken(q, view)), {"saving"})
  <2>2. ListTaken(q, view) \in TextedView
    BY <1>3, <2>1, ReadyFacts, ListTakenFacts
  <2>3. FormShut(ListTaken(q, view)) \in TextedView /\ FormShut(ListTaken(q, view)).form = NONE
    BY <2>2, FormShutFacts
  <2>4. w.form = NONE
    BY <2>3, FlagFacts DEF Flag
  <2> HIDE DEF w
  <2>5. FormLeft(w, q, {}) /\ Takes(q, w)
    BY <2>1, <2>4 DEF FormLeft, w
  <2> QED
    BY <1>2, <1>3, <2>1, <2>5, EndTakes
<1>7. CASE \E q \in Bad("save") : Fails(q, Free(view, {"saving"}))
  <2>1. PICK q \in Bad("save") : Fails(q, Free(view, {"saving"}))
    BY <1>7
  <2>2. Free(view, {"saving"}).form = view.form
    BY ReadyFacts, FlagFacts DEF Flag
  <2>3. FormLeft(Free(view, {"saving"}), q, {})
    BY <1>2, <1>3, <2>1, <2>2, FailedMadeNone DEF FormLeft
  <2> QED
    BY <1>2, <1>3, <2>1, <2>3, EndTakes
<1> QED
  BY <1>4, <1>5, <1>6, <1>7 DEF SavesReloadsCloses

LEMMA SavesClosesReloadsRow ==
    ASSUME IInv, OneRow, page \in EditorPages \ ReloadFirst, SavesClosesReloads(view.form # NONE)
    PROVE  OneRow'
<1>2. /\ page \in FillPages /\ page \notin ReceiptPages \cup {"request", "content"}
      /\ SendOp(page) = "save" /\ ReloadOp(page) = "saved" /\ Button(page) = "saving"
      /\ \A q : Holds(page, view, q) <=> q.op \in {"save", "saved"}
  BY EditorOps
<1>3. /\ \A q \in Good("save") \cup Bad("save") : q \in flight /\ q.op = "save"
      /\ \A q \in Answers("saved") : q \in flight /\ q.op = "saved" /\ q.got \in TextedRows
  BY AnswerFacts, GoodBad
<1>4. CASE view.form # NONE /\ ~Has("saving") /\ UserAsks(Busy(view, {"saving"}), CreateOrUpdate("save", view.form))
  BY <1>2, <1>4, FormAsks, SaveClickRow
<1>5. CASE \E q \in Good("save") : TakesThenAsks(q, Busy(FormShut(view), {"loading"}), GetList("saved"))
  <2>1. PICK q \in Good("save") : TakesThenAsks(q, Busy(FormShut(view), {"loading"}), GetList("saved"))
    BY <1>5
  <2> DEFINE w == Busy(FormShut(view), {"loading"})
  <2>2. FormShut(view) \in TextedView /\ FormShut(view).busy = view.busy \ {"uploading"} /\ FormShut(view).form = NONE
    BY ReadyFacts, FormShutFacts
  <2>3. w.busy = (view.busy \ {"uploading"}) \cup {"loading"} /\ w.form = NONE
    BY <2>2, FlagFacts DEF Flag
  <2>4. "saving" \in view.busy
    BY <1>2, <1>3, <2>1 DEF OneRow, Filling, OneHolds
  <2> HIDE DEF w
  <2>5. FormLeft(w, q, {GetList("saved")}) /\ TakesThenAsks(q, w, GetList("saved")) /\ "saving" \in w.busy
    BY <2>1, <2>3, <2>4 DEF FormLeft, w
  <2> QED
    BY <1>2, <1>3, <2>1, <2>5, ReloadAsks, EndAsks
<1>6. CASE \E q \in Answers("saved") : Takes(q, Free(ListTaken(q, view), {"saving"}))
  <2>1. PICK q \in Answers("saved") : Takes(q, Free(ListTaken(q, view), {"saving"}))
    BY <1>6
  <2> DEFINE w == Free(ListTaken(q, view), {"saving"})
  <2>2. ListTaken(q, view) \in TextedView /\ ListTaken(q, view).form = view.form
    BY <1>3, <2>1, ReadyFacts, ListTakenFacts
  <2>3. w.form = view.form
    BY <2>2, FlagFacts DEF Flag
  <2> HIDE DEF w
  <2>4. FormLeft(w, q, {}) /\ Takes(q, w)
    BY <1>2, <1>3, <2>1, <2>3 DEF FormLeft, w
  <2> QED
    BY <1>2, <1>3, <2>1, <2>4, EndTakes
<1>7. CASE \E q \in Bad("save") : Fails(q, Free(view, {"saving"}))
  <2>1. PICK q \in Bad("save") : Fails(q, Free(view, {"saving"}))
    BY <1>7
  <2>2. Free(view, {"saving"}).form = view.form
    BY ReadyFacts, FlagFacts DEF Flag
  <2>3. FormLeft(Free(view, {"saving"}), q, {})
    BY <1>2, <1>3, <2>1, <2>2, FailedMadeNone DEF FormLeft
  <2> QED
    BY <1>2, <1>3, <2>1, <2>3, EndTakes
<1> QED
  BY <1>4, <1>5, <1>6, <1>7 DEF SavesClosesReloads

\* The buttons on a row, and the picture of a form.
LEMMA ToggleRow ==
    ASSUME IInv, OneRow, page \in {"blog", "accountants"},
           \/ \E r \in DOMAIN view.rows : UserAsks([view EXCEPT !.at = r], Patch("toggle", r))
           \/ \E q \in Good("toggle") : TakesThenAsks(q, Busy(view, {"loading"}), GetList("toggled"))
           \/ \E q \in Answers("toggled") : Takes(q, [ListTaken(q, view) EXCEPT !.at = NONE])
           \/ \E q \in Bad("toggle") : Fails(q, [view EXCEPT !.at = NONE])
    PROVE  OneRow'
<1>1. page \in EditorPages
  BY DEF EditorPages
<1>0. page \in FillPages /\ page \notin ReceiptPages \cup {"request", "content"} /\ Button(page) = "saving"
  BY <1>1, EditorOps
<1>2. /\ page \in FillPages /\ page \notin ReceiptPages \cup {"request", "content"} /\ Button(page) = "saving"
      /\ \A q \in Answers("toggle") \cup Answers("toggled") : q \in flight /\ ~Holds(page, view, q) /\ q.got \in TextedRows
      /\ \A r : Idle(Patch("toggle", r)) /\ Idle(GetList("toggled"))
  BY <1>0, <1>1, OtherAnswers
<1>3. \A v \in TextedView : \A a : [v EXCEPT !.at = a].form = v.form /\ [v EXCEPT !.at = a].busy = v.busy
  BY DEF TextedView
<1>4. \A a : Calm([view EXCEPT !.at = a])
  BY <1>2, <1>3, ReadyFacts, PlainCalm
<1>5. Calm(Busy(view, {"loading"}))
  <2>1. Busy(view, {"loading"}).busy = view.busy \cup {"loading"} /\ Busy(view, {"loading"}).form = view.form
    BY ReadyFacts, FlagFacts DEF Flag
  <2> QED
    BY <1>2, <2>1, PlainCalm
<1>6. ASSUME NEW q \in Answers("toggled") PROVE Calm([ListTaken(q, view) EXCEPT !.at = NONE])
  <2>1. ListTaken(q, view) \in TextedView /\ ListTaken(q, view).form = view.form /\ ListTaken(q, view).busy = view.busy \ {"loading"}
    BY <1>2, ReadyFacts, ListTakenFacts
  <2> QED
    BY <1>2, <1>3, <2>1, PlainCalm
<1>7. CASE \E r \in DOMAIN view.rows : UserAsks([view EXCEPT !.at = r], Patch("toggle", r))
  BY <1>2, <1>4, <1>7, RowAsks
<1>8. CASE \E q \in Good("toggle") : TakesThenAsks(q, Busy(view, {"loading"}), GetList("toggled"))
  BY <1>2, <1>5, <1>8, GoodBad, RowTakesAsks DEF TakesThenAsks
<1>9. CASE \E q \in Answers("toggled") : Takes(q, [ListTaken(q, view) EXCEPT !.at = NONE])
  BY <1>2, <1>6, <1>9, RowTakes
<1>10. CASE \E q \in Bad("toggle") : Fails(q, [view EXCEPT !.at = NONE])
  BY <1>2, <1>4, <1>10, GoodBad, RowTakes
<1> QED
  BY <1>7, <1>8, <1>9, <1>10

LEMMA ImageUploadsRow ==
    ASSUME IInv, OneRow, page \in {"staff", "blog"}, NEW disabled, ImageUploads(view.form # NONE, disabled)
    PROVE  OneRow'
<1>1. page \in EditorPages
  BY DEF EditorPages
<1>0. page \in FillPages /\ page \notin ReceiptPages \cup {"request", "content"} /\ Button(page) = "saving"
  BY <1>1, EditorOps
<1>2. /\ page \in FillPages /\ page \notin ReceiptPages \cup {"request", "content"} /\ Button(page) = "saving"
      /\ \A q \in Answers("upload") : q \in flight /\ ~Holds(page, view, q)
      /\ \A f : Idle(Upload("upload", f))
  BY <1>0, <1>1, OtherAnswers
<1>3. /\ Busy(view, {"uploading"}).busy = view.busy \cup {"uploading"} /\ Busy(view, {"uploading"}).form = view.form
      /\ Free(view, {"uploading"}) \in TextedView
      /\ Free(view, {"uploading"}).busy = view.busy \ {"uploading"} /\ Free(view, {"uploading"}).form = view.form
  BY ReadyFacts, FlagFacts DEF Flag
<1>4. CASE UserAsks(Busy(view, {"uploading"}), Upload("upload", view.form))
  <2>1. Calm(Busy(view, {"uploading"}))
    BY <1>2, <1>3, PlainCalm
  <2> QED
    BY <1>2, <1>4, <2>1, RowAsks
<1>5. ASSUME NEW q \in Answers("upload"), NEW v \in {view, Free(view, {"uploading"})},
             Takes(q, IF q.state = "ok" /\ view.form # NONE THEN [v EXCEPT !.form.text = "typed"] ELSE v)
      PROVE  OneRow'
  <2>1. v \in TextedView /\ v.form = view.form /\ (Button(page) \in v.busy <=> Button(page) \in view.busy)
    BY <1>2, <1>3, ReadyFacts
  <2>2. CASE q.state = "ok" /\ view.form # NONE
    <3> DEFINE w == [v EXCEPT !.form.text = "typed"]
    <3>1. w.busy = v.busy /\ w.form.fill = view.form.fill
      BY <2>1, <2>2 DEF TextedView, TextedForm, Form
    <3> HIDE DEF w
    <3>2. Calm(w)
      BY <1>2, <2>1, <2>2, <3>1 DEF Calm
    <3>3. Takes(q, w)
      BY <1>5, <2>2 DEF w
    <3> QED
      BY <1>2, <3>2, <3>3, RowTakes
  <2>3. CASE ~(q.state = "ok" /\ view.form # NONE)
    <3>1. Takes(q, v) /\ Calm(v)
      BY <1>2, <1>5, <2>1, <2>3, PlainCalm
    <3> QED
      BY <1>2, <3>1, RowTakes
  <2> QED
    BY <2>2, <2>3
<1> QED
  BY <1>4, <1>5 DEF ImageUploads

LEMMA RevealRow ==
    ASSUME IInv, OneRow, page = "client credentials", NEW rows, RevealButton(rows)
    PROVE  OneRow'
<1>1. page \in EditorPages
  BY DEF EditorPages
<1>0. page \in FillPages /\ page \notin ReceiptPages \cup {"request", "content"} /\ Button(page) = "saving"
  BY <1>1, EditorOps
<1>2. /\ page \in FillPages /\ page \notin ReceiptPages \cup {"request", "content"} /\ Button(page) = "saving"
      /\ \A q \in Answers("reveal") : q \in flight /\ ~Holds(page, view, q)
      /\ \A r : Idle(GetRow("reveal", r))
  BY <1>0, <1>1, OtherAnswers
<1>3. \A s : [view EXCEPT !.secrets = s].form = view.form /\ [view EXCEPT !.secrets = s].busy = view.busy
  BY ReadyFacts DEF TextedView
<1>4. \A s : Calm([view EXCEPT !.secrets = s])
  BY <1>2, <1>3, PlainCalm
<1>5. ASSUME NEW r, UserAsks([view EXCEPT !.secrets = [e \in DOMAIN @ \cup {r} |-> IF e = r THEN "waiting" ELSE @[e]]], GetRow("reveal", r))
      PROVE  OneRow'
  <2> DEFINE w == [view EXCEPT !.secrets = [e \in DOMAIN @ \cup {r} |-> IF e = r THEN "waiting" ELSE @[e]]]
  <2>1. Calm(w)
    BY <1>4
  <2> HIDE DEF w
  <2> QED
    BY <1>2, <1>5, <2>1, RowAsks DEF w
<1>6. ASSUME NEW q \in Answers("reveal"),
             Takes(q, IF q.row \notin DOMAIN view.secrets THEN view
                      ELSE IF q.state = "ok" /\ q.row \in DOMAIN q.got THEN [view EXCEPT !.secrets[q.row] = q.got[q.row]]
                      ELSE [view EXCEPT !.secrets = Restrict(@, DOMAIN @ \ {q.row})])
      PROVE  OneRow'
  <2>1. Calm([view EXCEPT !.secrets[q.row] = q.got[q.row]])
    <3> DEFINE s == [view.secrets EXCEPT ![q.row] = q.got[q.row]]
    <3>1. [view EXCEPT !.secrets[q.row] = q.got[q.row]] = [view EXCEPT !.secrets = s]
      OBVIOUS
    <3> HIDE DEF s
    <3> QED
      BY <1>4, <3>1
  <2>2. Calm([view EXCEPT !.secrets = Restrict(@, DOMAIN @ \ {q.row})])
    BY <1>4
  <2>3. CASE q.row \notin DOMAIN view.secrets
    BY <1>2, <1>6, <2>3, SameCalm, RowTakes
  <2>4. CASE q.row \in DOMAIN view.secrets /\ q.state = "ok" /\ q.row \in DOMAIN q.got
    BY <1>2, <1>6, <2>1, <2>4, RowTakes
  <2>5. CASE q.row \in DOMAIN view.secrets /\ ~(q.state = "ok" /\ q.row \in DOMAIN q.got)
    BY <1>2, <1>6, <2>2, <2>5, RowTakes
  <2> QED
    BY <2>3, <2>4, <2>5
<1>7. ASSUME NEW r, UserDoes([view EXCEPT !.secrets = Restrict(@, DOMAIN @ \ {r})]) PROVE OneRow'
  <2>1. Calm([view EXCEPT !.secrets = Restrict(@, DOMAIN @ \ {r})])
    BY <1>4
  <2> QED
    BY <1>2, <1>7, <2>1, RowDoes
<1> QED
  BY <1>5, <1>6, <1>7 DEF RevealButton

LEMMA StaffRow == ASSUME IInv, OneRow, page = "staff", StaffNext PROVE OneRow'
<1>1. EditorTurn \/ SavesReloadsCloses(view.form # NONE) \/ ImageUploads(view.form # NONE, Has("saving"))
  BY DEF StaffNext, EditorTurn, StaffModal, StaffUpdateForm, StaffSave, StaffDelete, StaffToggle, StaffTable, StaffForm,
         StaffEmpty, StaffToForm, SavesReloadsCloses
<1> QED
  BY <1>1, EditorTurnRow, SavesReloadsClosesRow, ImageUploadsRow DEF EditorPages, ReloadFirst

LEMMA TestimonialsRow == ASSUME IInv, OneRow, page = "testimonials", TestimonialsNext PROVE OneRow'
<1>1. EditorTurn \/ SavesReloadsCloses(view.form # NONE)
  BY DEF TestimonialsNext, EditorTurn, TestimonialsModal, TestimonialsUpdateForm, TestimonialsSave, TestimonialsDelete,
         TestimonialsToggle, TestimonialsTable, TestimonialsForm, TestimonialsEmpty, TestimonialsToForm, SavesReloadsCloses
<1> QED
  BY <1>1, EditorTurnRow, SavesReloadsClosesRow DEF EditorPages, ReloadFirst

LEMMA ServicesRow == ASSUME IInv, OneRow, page = "services", ServicesNext PROVE OneRow'
<1>1. EditorTurn \/ SavesReloadsCloses(view.form # NONE)
  BY DEF ServicesNext, EditorTurn, ServicesModal, ServicesUpdateForm, ServicesSave, ServicesDelete,
         ServicesToggle, ServicesTable, ServicesForm, ServicesEmpty, ServicesToForm, SavesReloadsCloses
<1> QED
  BY <1>1, EditorTurnRow, SavesReloadsClosesRow DEF EditorPages, ReloadFirst

LEMMA SocialLinksRow == ASSUME IInv, OneRow, page = "social links", SocialLinksNext PROVE OneRow'
<1>1. EditorTurn \/ SavesReloadsCloses(view.form # NONE)
  BY DEF SocialLinksNext, EditorTurn, SocialLinksModal, SocialLinksPlatform, SocialLinksSave, SocialLinksDelete,
         SocialLinksToggle, SocialLinksList, SocialLinksForm, SocialLinksEmpty, SocialLinksToForm, SavesReloadsCloses
<1> QED
  BY <1>1, EditorTurnRow, SavesReloadsClosesRow DEF EditorPages, ReloadFirst

LEMMA TaxSystemsRow == ASSUME IInv, OneRow, page = "tax systems", TaxSystemsNext PROVE OneRow'
<1>1. \A r \in DOMAIN view.rows : r # NONE
  BY RowsOfView, NoneIsNoRow
<1>2. EditorTurn \/ SavesClosesReloads(view.form # NONE)
  BY <1>1 DEF TaxSystemsNext, EditorTurn, TaxSystemsModal, SystemFormUpdateField, TaxSystemsSave, TaxSystemsToggle,
         TaxSystemsDelete, TaxSystemsRefresh, TaxSystemsList, SystemFormShown, SystemFormInitial, SavesClosesReloads
<1> QED
  BY <1>2, EditorTurnRow, SavesClosesReloadsRow DEF EditorPages, ReloadFirst

LEMMA BlogRow == ASSUME IInv, OneRow, page = "blog", BlogNext PROVE OneRow'
<1>1. \A r \in DOMAIN view.rows : r # NONE
  BY RowsOfView, NoneIsNoRow
<1>2. CASE BlogTogglePublish
  BY <1>2, ToggleRow DEF BlogTogglePublish
<1>3. CASE ~BlogTogglePublish
  <2>1. EditorTurn \/ SavesClosesReloads(view.form # NONE) \/ ImageUploads(view.form # NONE, Has("saving"))
    BY <1>1, <1>3 DEF BlogNext, EditorTurn, BlogModal, BlogUpdateField, BlogSave, BlogDelete, BlogTable, BlogForm, BlogFromPost,
                SavesClosesReloads
  <2> QED
    BY <2>1, EditorTurnRow, SavesClosesReloadsRow, ImageUploadsRow DEF EditorPages, ReloadFirst
<1> QED
  BY <1>2, <1>3

LEMMA AccountantsRow == ASSUME IInv, OneRow, page = "accountants", AccountantsNext PROVE OneRow'
<1>1. CASE AccountantsToggle
  BY <1>1, ToggleRow DEF AccountantsToggle
<1>2. CASE ~AccountantsToggle
  <2>1. EditorTurn \/ SavesClosesReloads(view.form # NONE)
    BY <1>2 DEF AccountantsNext, EditorTurn, AccountantsModal, AccountantsCreate, SavesClosesReloads
  <2> QED
    BY <2>1, EditorTurnRow, SavesClosesReloadsRow DEF EditorPages, ReloadFirst
<1> QED
  BY <1>1, <1>2

LEMMA ClientCredentialsRow == ASSUME IInv, OneRow, page = "client credentials", ClientCredentialsNext PROVE OneRow'
<1>1. ClientCredentialsCards \in SUBSET DOMAIN view.rows
  BY DEF ClientCredentialsCards
<1>2. CASE CredentialCardReveal
  BY <1>2, RevealRow DEF CredentialCardReveal
<1>3. CASE ClientCredentialsRefresh \/ ClientCredentialsModal \/ CredentialFormField \/ ClientCredentialsDelete
  <2>1. EditorTurn
    BY <1>1, <1>3, NoneIsNoRow, RowsOfView DEF EditorTurn, ClientCredentialsRefresh, ClientCredentialsModal, CredentialFormField,
       ClientCredentialsDelete, CredentialFormInitial, ClientCredentialsCards
  <2> QED
    BY <2>1, EditorTurnRow DEF EditorPages
<1>4. CASE ClientCredentialsSave
  <2>1. SavesClosesReloads(view.form # NONE)
    BY <1>4 DEF ClientCredentialsSave, CredentialFormValid, SavesClosesReloads
  <2> QED
    BY <2>1, SavesClosesReloadsRow DEF EditorPages, ReloadFirst
<1> QED
  BY <1>2, <1>3, <1>4 DEF ClientCredentialsNext

-----------------------------------------------------------------------------
(* The page of the fixed sections: a click on Save is a filling of its own. *)

LEMMA ContentOps ==
    page = "content" =>
        /\ SendOp(page) = "save" /\ ReloadOp(page) = "saved" /\ Button(page) = "saving"
        /\ page \notin ReceiptPages \cup {"request"} /\ page \in FillPages
        /\ \A q : Holds(page, view, q) <=> q.op \in {"save", "saved"}
  BY DEF ReceiptPages, FillPages, SendOp, ReloadOp, Button, Holds

LEMMA ContentRow == ASSUME IInv, OneRow, page = "content", ContentNext PROVE OneRow'
<1>1. view.form = NONE
  <2>1. view.form # NONE => FALSE
    BY ContentOps DEF OneRow, Filling, Offered
  <2> QED
    BY <2>1
<1>2. \A v : v.form = NONE => \A q : FormLeft(v, q, {}) /\ FormLeft(v, q, {GetList("saved")})
  BY DEF FormLeft
<1>3. /\ \A S \in {{"loading"}, {"saving"}} : /\ Busy(view, S).busy = view.busy \cup S /\ Busy(view, S).form = NONE
                                              /\ Free(view, S).busy = view.busy \ S /\ Free(view, S).form = NONE
  BY <1>1, ReadyFacts, FlagFacts DEF Flag
<1>4. \A op : \A q \in Answers(op) : q \in flight /\ q.op = op /\ q.got \in TextedRows
  BY AnswerFacts
<1>5. ASSUME NEW op, NEW q \in Answers(op)
      PROVE  /\ ContentTaken(q, view) \in TextedView /\ ContentTaken(q, view).form = NONE
             /\ ContentTaken(q, view).busy = view.busy \ {"loading"}
  <2> DEFINE u == ListTaken(q, view)
  <2>1. u \in TextedView /\ u.form = NONE /\ u.busy = view.busy \ {"loading"}
    BY <1>1, <1>4, <1>5, ReadyFacts, ListTakenFacts
  <2>2. ContentTaken(q, view) = IF q.state = "ok" THEN [u EXCEPT !.edits = q.got] ELSE u
    BY DEF ContentTaken
  <2> HIDE DEF u
  <2> QED
    BY <1>4, <1>5, <2>1, <2>2 DEF TextedView
<1>6. CASE UserAsks(Busy(view, {"loading"}), GetList("load"))
  <2>1. Calm(Busy(view, {"loading"})) /\ Idle(GetList("load"))
    BY <1>3, ContentOps, PlainCalm, IdleAsks
  <2> QED
    BY <1>6, <2>1, ContentOps, RowAsks
<1>7. CASE \E q \in Answers("load") : Takes(q, ContentTaken(q, view))
  <2>1. PICK q \in Answers("load") : Takes(q, ContentTaken(q, view))
    BY <1>7
  <2>2. Calm(ContentTaken(q, view))
    BY <1>5, ContentOps, PlainCalm
  <2> QED
    BY <1>4, <2>1, <2>2, ContentOps, RowTakes
<1>8. CASE ContentSection
  <2>1. \A r : [view EXCEPT !.section = r].busy = view.busy /\ [view EXCEPT !.section = r].form = NONE
    BY <1>1, ReadyFacts DEF TextedView
  <2>2. \A r : Calm([view EXCEPT !.section = r])
    BY <2>1, ContentOps, PlainCalm
  <2> QED
    BY <1>8, <2>2, ContentOps, RowDoes DEF ContentSection
<1>9. CASE ContentUpdateField
  <2>1. \A e : [view EXCEPT !.edits = e].busy = view.busy /\ [view EXCEPT !.edits = e].form = NONE
    BY <1>1, ReadyFacts DEF TextedView
  <2>2. \A e : Calm([view EXCEPT !.edits = e])
    BY <2>1, ContentOps, PlainCalm
  <2>3. Calm([view EXCEPT !.edits = [r \in DOMAIN @ \cup {view.section} |-> IF r = view.section THEN "typed" ELSE @[r]]])
    BY <2>2
  <2> QED
    BY <1>9, <2>3, ContentOps, RowDoes DEF ContentUpdateField
<1>10. ASSUME NEW n, n.op = "save", n.state = "sent", n.life = view.mounted, n.fill = clicks,
              UserAsks(Busy(view, {"saving"}), n), ~Has("saving")
       PROVE  OneRow'
  BY <1>1, <1>3, <1>10, ContentOps, SendStep DEF Has
<1>11. CASE /\ ~Has("saving")
            /\ UserAsks(Busy(view, {"saving"}),
                   IF view.section \in DOMAIN view.rows THEN Update("save", ContentPayload)
                   ELSE [Create("save", ContentPayload) EXCEPT !.row = view.section])
  <2> DEFINE u == Update("save", ContentPayload)
             c == [Create("save", ContentPayload) EXCEPT !.row = view.section]
  <2>1. /\ u.op = "save" /\ u.state = "sent" /\ u.life = view.mounted /\ u.fill = clicks
        /\ c.op = "save" /\ c.state = "sent" /\ c.life = view.mounted /\ c.fill = clicks
    BY DEF Update, Create, Request, ContentPayload, FormOf
  <2> HIDE DEF u, c
  <2>2. UserAsks(Busy(view, {"saving"}), u) \/ UserAsks(Busy(view, {"saving"}), c)
    BY <1>11 DEF u, c
  <2> QED
    BY <1>10, <1>11, <2>1, <2>2
<1>12. CASE \E q \in Good("save") : TakesThenAsks(q, Busy(view, {"loading"}), GetList("saved"))
  <2>1. PICK q \in Good("save") : TakesThenAsks(q, Busy(view, {"loading"}), GetList("saved"))
    BY <1>12
  <2>2. q \in flight /\ Holds(page, view, q)
    BY <1>4, <2>1, GoodBad, ContentOps
  <2>3. "saving" \in view.busy
    BY <2>2, ContentOps DEF OneRow, Filling, OneHolds
  <2>4. Busy(view, {"loading"}).busy = view.busy \cup {"loading"} /\ FormLeft(Busy(view, {"loading"}), q, {GetList("saved")})
    BY <1>2, <1>3
  <2> QED
    BY <2>1, <2>2, <2>3, <2>4, ContentOps, ReloadAsks, EndAsks
<1>13. CASE \E q \in Answers("saved") : Takes(q, Free(ContentTaken(q, view), {"saving"}))
  <2>1. PICK q \in Answers("saved") : Takes(q, Free(ContentTaken(q, view), {"saving"}))
    BY <1>13
  <2>2. q \in flight /\ Holds(page, view, q)
    BY <1>4, <2>1, ContentOps
  <2>3. Free(ContentTaken(q, view), {"saving"}).form = NONE
    BY <1>5, <2>1, FlagFacts DEF Flag
  <2> QED
    BY <1>2, <2>1, <2>2, <2>3, ContentOps, EndTakes
<1>14. CASE \E q \in Bad("save") : Fails(q, Free(view, {"saving"}))
  <2>1. PICK q \in Bad("save") : Fails(q, Free(view, {"saving"}))
    BY <1>14
  <2>2. q \in flight /\ Holds(page, view, q)
    BY <1>4, <2>1, GoodBad, ContentOps
  <2> QED
    BY <1>2, <1>3, <2>1, <2>2, ContentOps, EndTakes
<1> QED
  BY <1>6, <1>7, <1>8, <1>9, <1>11, <1>12, <1>13, <1>14 DEF ContentNext, ContentLoad, ContentSave

-----------------------------------------------------------------------------
(* The cards of a request. *)

LEMMA RequestOps ==
    page = "request" =>
        /\ SendOp(page) = "send" /\ ReloadOp(page) = "send" /\ Button(page) = "sending"
        /\ page \notin ReceiptPages /\ page \in FillPages /\ (RequestCards <=> Cards(view))
        /\ \A q : Holds(page, view, q) <=> q.op = "send" /\ Own(q)
  BY DEF ReceiptPages, FillPages, SendOp, ReloadOp, Button, Holds, RequestCards, Cards, Own, Has

LEMMA RequestCalm ==
    ASSUME page = "request", NEW v, v.form \in {NONE, view.form} \/ v.form.fill = clicks, v.mounted = view.mounted,
           \A f \in {"sending", "loading"} : f \in v.busy <=> f \in view.busy,
           FirstRow \in DOMAIN v.rows <=> FirstRow \in DOMAIN view.rows
    PROVE  Calm(v)
<1>1. "sending" \in v.busy <=> "sending" \in view.busy
  OBVIOUS
<1>2. Cards(v) <=> Cards(view)
  BY DEF Cards
<1> QED
  BY <1>1, <1>2, RequestOps DEF Calm

LEMMA RequestLoadRow == ASSUME IInv, OneRow, page = "request", RequestLoad PROVE OneRow'
<1>1. \A q \in Answers("load") : q \in flight /\ ~Holds(page, view, q) /\ q.got \in TextedRows /\ (q.state = "ok" => DOMAIN q.got = {FirstRow})
  BY RequestLoadFacts, RequestOps
<1>2. view \in TextedView
  BY ReadyFacts
<1>3. ASSUME NEW q \in Good("load"), RequestCards, Takes(q, ShowsRow(q, view)) PROVE OneRow'
  <2>1. q \in Answers("load") /\ q.state = "ok"
    BY GoodBad DEF Good
  <2> DEFINE w == ShowsRow(q, view)
  <2>2. w.form = view.form /\ w.mounted = view.mounted /\ w.busy = view.busy /\ w.rows = q.got
    BY <1>2 DEF ShowsRow, TextedView
  <2> HIDE DEF w
  <2>3. Calm(w)
    BY <1>1, <1>3, <2>1, <2>2, RequestCalm DEF RequestCards
  <2> QED
    BY <1>1, <1>3, <2>1, <2>3, RequestOps, RowTakes DEF w
<1>4. ASSUME NEW q \in Good("load"), ~RequestCards, NEW n, n = view.mounted + 1,
             NEW u, u = [Free(ShowsRow(q, view), {"loading"}) EXCEPT !.mounted = n],
             NEW a, a = [GetList("accountants") EXCEPT !.life = n], TakesThenAsks(q, Busy(u, {"accountants"}), a)
      PROVE  OneRow'
  <2>1. q \in Answers("load") /\ q.state = "ok"
    BY GoodBad DEF Good
  <2>2. view.form = NONE /\ view.mounted \in Nat
    <3>1. RequestRule(view)
      BY RequestFacts DEF IInv
    <3> QED
      BY <1>2, <1>4, <3>1 DEF RequestRule, RequestCards, Has, TextedView
  <2>3. u \in TextedView /\ u.form = NONE /\ u.mounted = n
    <3> DEFINE s == ShowsRow(q, view)
               w == Free(s, {"loading"})
    <3>1. s \in TextedView /\ s.form = NONE
      BY <1>1, <1>2, <2>1, <2>2 DEF ShowsRow, TextedView
    <3> HIDE DEF s
    <3>2. w \in TextedView /\ w.form = NONE
      BY <3>1, FlagFacts DEF Flag
    <3>3. u = [w EXCEPT !.mounted = n] /\ n \in Nat
      BY <1>4, <2>2 DEF s
    <3> HIDE DEF w
    <3> QED
      BY <3>2, <3>3 DEF TextedView
  <2>4. Busy(u, {"accountants"}).form = NONE /\ Busy(u, {"accountants"}).mounted = n
    BY <2>3, FlagFacts DEF Flag
  <2>5. Idle(a)
    <3>1. a.verb \notin Creates /\ a.op = "accountants"
      BY <1>4 DEF GetList, Request, Creates
    <3> QED
      BY <3>1, RequestOps DEF Idle
  <2>6. page' = page /\ view' = Busy(u, {"accountants"}) /\ flight' = (flight \ {q}) \cup {a} /\ clicks' = clicks /\ ledger' = ledger
    BY <1>4 DEF TakesThenAsks, TakesThenAsksAll
  <2>7. view'.form = NONE /\ view'.mounted = view.mounted + 1
    BY <1>4, <2>4, <2>6
  <2> QED
    BY <2>5, <2>6, <2>7, RemountStep
<1>5. ASSUME NEW q \in Bad("load"), Takes(q, Free([Unmounted(view) EXCEPT !.rows = Nothing], {"loading"})) PROVE OneRow'
  <2> DEFINE u == Unmounted(view)
             s == [u EXCEPT !.rows = Nothing]
             w == Free(s, {"loading"})
  <2>1. u \in TextedView /\ u.form = NONE /\ u.mounted = view.mounted
    BY <1>2, UnmountedFacts
  <2> HIDE DEF u
  <2>2. s \in TextedView /\ s.form = NONE /\ s.mounted = view.mounted /\ s.rows = Nothing
    BY <2>1, NothingTexted DEF TextedView
  <2> HIDE DEF s
  <2>3. w.form = NONE /\ w.mounted = view.mounted /\ w.rows = Nothing
    BY <2>2, FlagFacts DEF Flag
  <2> HIDE DEF w
  <2>4. ~Cards(w)
    BY <2>3, NothingTexted DEF Cards
  <2>5. Takes(q, w)
    BY <1>5 DEF w, s, u
  <2>6. page' = page /\ view' = w /\ flight' = flight \ {q} /\ clicks' = clicks /\ ledger' = ledger
    BY <2>5 DEF Takes
  <2> QED
    BY <2>3, <2>4, <2>6, RemountStep
<1> QED
  BY <1>3, <1>4, <1>5 DEF RequestLoad

LEMMA RequestReloadsRow ==
    ASSUME IInv, OneRow, page = "request", NEW q \in flight, NEW v \in TextedView, v.mounted = view.mounted, RequestReloads(q, v)
    PROVE  OneRow'
<1> DEFINE u == Unmounted(v)
           w == Busy(u, {"loading"})
           n == GetRow("load", FirstRow)
<1>1. u \in TextedView /\ u.form = NONE /\ u.mounted = view.mounted
  BY UnmountedFacts
<1> HIDE DEF u
<1>2. w.busy = u.busy \cup {"loading"} /\ w.form = NONE /\ w.mounted = view.mounted
  BY <1>1, FlagFacts DEF Flag
<1>3. TakesThenAsks(q, w, n)
  BY DEF RequestReloads, u
<1> HIDE DEF w
<1>4. ~Cards(w) /\ Idle(n)
  BY <1>2, RequestOps, IdleAsks DEF Cards
<1> HIDE DEF n
<1>5. page' = page /\ view' = w /\ flight' = (flight \ {q}) \cup {n} /\ clicks' = clicks /\ ledger' = ledger
  BY <1>3 DEF TakesThenAsks, TakesThenAsksAll
<1> QED
  BY <1>2, <1>4, <1>5, RemountStep

LEMMA CardFlagRow ==
    ASSUME IInv, page = "request", NEW f \in CardFlags \ {"sending"}
    PROVE  Calm(Busy(view, {f})) /\ Calm(Free(view, {f}))
<1>1. {f} \in SUBSET Flag /\ f # "sending" /\ f # "loading"
  BY DEF CardFlags, Flag
<1>2. /\ Busy(view, {f}).busy = view.busy \cup {f} /\ Busy(view, {f}).form = view.form
      /\ Busy(view, {f}).mounted = view.mounted /\ Busy(view, {f}).rows = view.rows
      /\ Free(view, {f}).busy = view.busy \ {f} /\ Free(view, {f}).form = view.form
      /\ Free(view, {f}).mounted = view.mounted /\ Free(view, {f}).rows = view.rows
  BY <1>1, ReadyFacts, FlagFacts
<1> QED
  BY <1>1, <1>2, RequestCalm

LEMMA CardPatchRow ==
    ASSUME IInv, OneRow, page = "request", NEW f \in CardFlags \ {"sending"}, NEW op \in {"status", "upload", "assign"},
           \/ UserAsks(Busy(view, {f}), Patch(op, FirstRow))
           \/ \E q \in Bad(op) : Fails(q, IF Own(q) THEN Free(view, {f}) ELSE view)
    PROVE  OneRow'
<1>1. CASE UserAsks(Busy(view, {f}), Patch(op, FirstRow))
  BY <1>1, CardFlagRow, RequestOps, IdleAsks, RowAsks
<1>2. ASSUME NEW q \in Bad(op), Fails(q, IF Own(q) THEN Free(view, {f}) ELSE view) PROVE OneRow'
  <2>1. q \in flight /\ ~Holds(page, view, q)
    BY AnswerFacts, GoodBad, RequestOps
  <2>2. CASE Own(q)
    BY <1>2, <2>1, <2>2, CardFlagRow, RequestOps, RowTakes
  <2>3. CASE ~Own(q)
    BY <1>2, <2>1, <2>3, SameCalm, RequestOps, RowTakes
  <2> QED
    BY <2>2, <2>3
<1> QED
  BY <1>1, <1>2

LEMMA CardGoodRow ==
    ASSUME IInv, OneRow, page = "request", NEW op, NEW q \in Good(op), RequestReloads(q, view) \/ RequestReloads(q, ShowsRow(q, view))
    PROVE  OneRow'
<1>1. q \in flight /\ q.got \in TextedRows /\ view \in TextedView
  BY AnswerFacts, GoodBad, ReadyFacts
<1>2. ShowsRow(q, view) \in TextedView /\ ShowsRow(q, view).mounted = view.mounted
  BY <1>1 DEF ShowsRow, TextedView
<1> QED
  BY <1>1, <1>2, RequestReloadsRow

LEMMA AssignAccountantsRow == ASSUME IInv, OneRow, page = "request", AssignAccountants PROVE OneRow'
<1>1. PICK q \in Answers("accountants") :
          Takes(q, IF Own(q) THEN Free([view EXCEPT !.section = IF q.state = "ok" THEN FirstRow ELSE NONE], {"accountants"}) ELSE view)
  BY DEF AssignAccountants
<1>2. q \in flight /\ ~Holds(page, view, q)
  BY AnswerFacts, RequestOps
<1>3. CASE ~Own(q)
  BY <1>1, <1>2, <1>3, SameCalm, RequestOps, RowTakes
<1>4. CASE Own(q)
  <2> DEFINE s == [view EXCEPT !.section = IF q.state = "ok" THEN FirstRow ELSE NONE]
             w == Free(s, {"accountants"})
  <2>1. s \in TextedView /\ s.form = view.form /\ s.busy = view.busy /\ s.mounted = view.mounted /\ s.rows = view.rows
    BY ReadyFacts, NoneIsNoRow DEF TextedView
  <2> HIDE DEF s
  <2>2. w.form = view.form /\ w.busy = view.busy \ {"accountants"} /\ w.mounted = view.mounted /\ w.rows = view.rows
    BY <2>1, FlagFacts DEF Flag
  <2> HIDE DEF w
  <2>3. Calm(w)
    BY <2>2, RequestCalm
  <2>4. Takes(q, w)
    BY <1>1, <1>4 DEF s, w
  <2> QED
    BY <1>2, <2>3, <2>4, RequestOps, RowTakes
<1> QED
  BY <1>3, <1>4

LEMMA RequestUploadRow ==
    ASSUME IInv, OneRow, page = "request", RequestUploadForm \/ RequestUploadFields \/ RequestUploadSend
    PROVE  OneRow'
<1>1. view \in TextedView /\ RequestRule(view)
  BY RequestFacts DEF IInv
<1>2. CASE FormOpens(Blank)
  <2>1. LET w == [view EXCEPT !.form = Blank] IN
        w.form.fill = clicks /\ w.busy = view.busy /\ w.mounted = view.mounted /\ w.rows = view.rows
    BY <1>1 DEF TextedView, Blank
  <2>2. Calm([view EXCEPT !.form = Blank])
    BY <2>1, RequestCalm
  <2> QED
    BY <1>2, <2>2, RequestOps, RowDoes DEF FormOpens
<1>3. CASE FormCloses
  <2>1. /\ FormShut(view).form = NONE /\ FormShut(view).busy = view.busy \ {"uploading"} /\ FormShut(view).mounted = view.mounted
        /\ FormShut(view).rows = view.rows
    BY <1>1, FormShutFacts
  <2>2. Calm(FormShut(view))
    BY <2>1, RequestCalm
  <2> QED
    BY <1>3, <2>2, RequestOps, RowDoes DEF FormCloses
<1>4. CASE RequestUploadFields
  <2> DEFINE w == [view EXCEPT !.form.text = "typed"]
  <2>1. w.busy = view.busy /\ w.form.fill = view.form.fill /\ w.mounted = view.mounted /\ w.rows = view.rows
    BY <1>4, TypingFacts DEF RequestUploadFields
  <2> HIDE DEF w
  <2>2. Calm(w)
    BY <1>4, <2>1, RequestOps DEF RequestUploadFields, Calm, Cards
  <2> QED
    BY <1>4, <2>2, RequestOps, RowDoes DEF RequestUploadFields, Typing, w
<1>5. CASE view.form # NONE /\ ~Has("sending") /\ UserAsks(Busy(view, {"sending"}), Create("send", view.form))
  <2>1. Cards(view)
    BY <1>1, <1>5 DEF RequestRule, Cards
  <2>2. /\ Busy(view, {"sending"}).busy = view.busy \cup {"sending"} /\ Busy(view, {"sending"}).form = view.form
        /\ Busy(view, {"sending"}).mounted = view.mounted /\ Busy(view, {"sending"}).rows = view.rows
    BY <1>1, FlagFacts DEF Flag
  <2>3. Cards(Busy(view, {"sending"}))
    BY <2>1, <2>2 DEF Cards
  <2> QED
    BY <1>5, <2>2, <2>3, FormAsks, RequestOps, SendStep DEF Has
<1>6. \A q \in Answers("send") : q \in flight /\ q.op = "send" /\ (Holds(page, view, q) <=> Own(q))
  BY AnswerFacts, RequestOps
<1>7. ASSUME NEW q \in Good("send"), Takes(q, IF Own(q) THEN Free([view EXCEPT !.form = NONE], {"sending"}) ELSE view)
      PROVE  OneRow'
  <2>1. CASE Own(q)
    <3> DEFINE s == [view EXCEPT !.form = NONE]
               w == Free(s, {"sending"})
    <3>1. s \in TextedView /\ s.form = NONE /\ s.busy = view.busy /\ s.mounted = view.mounted /\ s.rows = view.rows
      BY <1>1, FormFacts
    <3> HIDE DEF s
    <3>2. w.form = NONE /\ w.busy = view.busy \ {"sending"} /\ w.mounted = view.mounted /\ w.rows = view.rows
      BY <3>1, FlagFacts DEF Flag
    <3> HIDE DEF w
    <3>3. Takes(q, w) /\ FormLeft(w, q, {}) /\ (Cards(w) => Cards(view))
      BY <1>7, <2>1, <3>2 DEF s, w, FormLeft, Cards
    <3> QED
      BY <1>6, <2>1, <3>2, <3>3, GoodBad, RequestOps, EndTakes
  <2>2. CASE ~Own(q)
    BY <1>6, <1>7, <2>2, GoodBad, SameCalm, RequestOps, RowTakes
  <2> QED
    BY <2>1, <2>2
<1>8. ASSUME NEW q \in Bad("send"), Fails(q, IF Own(q) THEN Free(view, {"sending"}) ELSE view) PROVE OneRow'
  <2>1. CASE Own(q)
    <3> DEFINE w == Free(view, {"sending"})
    <3>1. w.form = view.form /\ w.busy = view.busy \ {"sending"} /\ w.mounted = view.mounted /\ w.rows = view.rows
      BY <1>1, FlagFacts DEF Flag
    <3> HIDE DEF w
    <3>2. Fails(q, w) /\ (Cards(w) => Cards(view))
      BY <1>8, <2>1, <3>1 DEF w, Cards
    <3>3. FormLeft(w, q, {})
      BY <1>6, <3>1, <3>2, GoodBad, RequestOps, FailedMadeNone DEF FormLeft
    <3> QED
      BY <1>6, <2>1, <3>1, <3>2, <3>3, GoodBad, RequestOps, EndTakes
  <2>2. CASE ~Own(q)
    BY <1>6, <1>8, <2>2, GoodBad, SameCalm, RequestOps, RowTakes
  <2> QED
    BY <2>1, <2>2
<1> QED
  BY <1>2, <1>3, <1>4, <1>5, <1>7, <1>8 DEF RequestUploadForm, RequestUploadSend

LEMMA RequestRow == ASSUME IInv, OneRow, page = "request", RequestNext PROVE OneRow'
<1>1. {"status", "uploading", "assigning"} \subseteq CardFlags \ {"sending"}
  BY DEF CardFlags
<1>2. CASE UpdateStatus
  BY <1>1, <1>2, CardPatchRow, CardGoodRow DEF UpdateStatus
<1>3. CASE UploadDocument
  BY <1>1, <1>3, CardPatchRow, CardGoodRow DEF UploadDocument
<1>4. CASE AssignAccountant
  BY <1>1, <1>4, CardPatchRow, CardGoodRow DEF AssignAccountant
<1> QED
  BY <1>2, <1>3, <1>4, RequestLoadRow, AssignAccountantsRow, RequestUploadRow DEF RequestNext

-----------------------------------------------------------------------------
(* The uploads of a portal. *)

LEMMA DocumentsOps ==
    page = "portal documents" =>
        /\ SendOp(page) = "upload" /\ ReloadOp(page) = "uploaded" /\ Button(page) = "uploading"
        /\ page \notin ReceiptPages \cup {"request", "content"} /\ page \notin ReloadFirst /\ page \in FillPages
        /\ \A q : Holds(page, view, q) <=> q.op \in {"upload", "uploaded"}
  BY DEF ReceiptPages, ReloadFirst, FillPages, SendOp, ReloadOp, Button, Holds

LEMMA LoadingRaised ==
    ASSUME NEW v \in TextedView
    PROVE  Busy(v, {"loading"}).busy = v.busy \cup {"loading"} /\ Busy(v, {"loading"}).form = v.form
<1>1. {"loading"} \in SUBSET Flag
  BY DEF Flag
<1> QED
  BY <1>1, FlagFacts, ZenonT(30)

LEMMA DocumentsAsked ==
    ASSUME NEW op, NEW r PROVE DocumentsAsks(op, r).op = op /\ DocumentsAsks(op, r).verb \notin Creates
  BY DEF DocumentsAsks, GetList, Request, Creates

LEMMA LoadsDocumentsRow ==
    ASSUME IInv, OneRow, page = "portal documents", NEW S, S \in SUBSET Flag, NEW op,
           \/ op = "load" /\ S = {"loading"}
           \/ op = "uploaded" /\ S = {"loading", "uploading"},
           LoadsDocuments(op, S)
    PROVE  OneRow'
<1>1. \A q \in Answers(op) : q \in flight /\ q.op = op /\ q.got \in TextedRows
  BY AnswerFacts
\* Whatever else it does, the load leaves the form, and the button on when it waited for the load.
<1>2. ASSUME NEW q \in Answers(op), NEW w, w.form = view.form, w.busy \in {view.busy \ S, (view.busy \ S) \cup {"loading"}},
             \/ Takes(q, w)
             \/ \E r : TakesThenAsks(q, w, DocumentsAsks("load", r))
      PROVE  OneRow'
  <2>1. CASE op = "load"
    <3>1. Calm(w)
      BY <1>2, <2>1, DocumentsOps, PlainCalm
    <3>2. ~Holds(page, view, q) /\ \A r : Idle(DocumentsAsks("load", r))
      BY <1>1, <2>1, DocumentsOps, DocumentsAsked DEF Idle
    <3>3. CASE Takes(q, w)
      BY <1>1, <3>1, <3>2, <3>3, DocumentsOps, RowTakes
    <3>4. ASSUME NEW r, TakesThenAsks(q, w, DocumentsAsks("load", r)) PROVE OneRow'
      <4>1. \A n \in {DocumentsAsks("load", r)} : Idle(n)
        BY <3>2
      <4> QED
        BY <1>1, <3>1, <3>2, <3>4, <4>1, DocumentsOps, RowTakesAsks DEF TakesThenAsks
    <3> QED
      BY <1>2, <3>3, <3>4
  <2>2. CASE op = "uploaded"
    <3>1. Holds(page, view, q) /\ \A more : FormLeft(w, q, more)
      BY <1>1, <1>2, <2>2, DocumentsOps DEF FormLeft
    <3>2. \A r : LET n == DocumentsAsks("load", r) IN n.verb \notin Creates /\ n.op \notin {SendOp(page), ReloadOp(page)}
      <4>1. SendOp(page) # "load" /\ ReloadOp(page) # "load"
        BY DocumentsOps
      <4> QED
        BY <4>1, DocumentsAsked
    <3>3. CASE Takes(q, w)
      BY <1>1, <3>1, <3>3, DocumentsOps, EndTakes
    <3>4. ASSUME NEW r, TakesThenAsks(q, w, DocumentsAsks("load", r)) PROVE OneRow'
      BY <1>1, <3>1, <3>2, <3>4, DocumentsOps, EndAsks
    <3> QED
      BY <1>2, <3>3, <3>4
  <2> QED
    BY <2>1, <2>2
<1>3. Free(view, S) \in TextedView /\ Free(view, S).form = view.form /\ Free(view, S).busy = view.busy \ S
  BY ReadyFacts, FlagFacts
<1>4. ASSUME NEW q \in Answers(op), NEW v, v = [Free(view, S) EXCEPT !.rows = q.got, !.choices = DOMAIN q.got \ SparePool],
             \/ Takes(q, v)
             \/ \E first \in v.choices : DocumentsSelected(q, v, first)
      PROVE  OneRow'
  <2> DEFINE u == Free(view, S)
  <2>1. u \in TextedView /\ u.form = view.form /\ u.busy = view.busy \ S /\ v = [u EXCEPT !.rows = q.got, !.choices = DOMAIN q.got \ SparePool]
    BY <1>3, <1>4
  <2> HIDE DEF u
  <2>2. DOMAIN q.got \in SUBSET Row
    BY <1>1, <1>4, RowsElim
  <2>3. v \in TextedView /\ v.form = view.form /\ v.busy = view.busy \ S /\ v.choices \in SUBSET Row
    <3> DEFINE some == DOMAIN q.got \ SparePool
    <3>1. some \in SUBSET Row /\ q.got \in TextedRows
      BY <1>1, <2>2
    <3>2. v = [u EXCEPT !.rows = q.got, !.choices = some]
      BY <2>1
    <3> HIDE DEF some
    <3> QED
      BY <2>1, <3>1, <3>2 DEF TextedView
  <2>4. ASSUME NEW first \in v.choices,
               TakesThenAsks(q, Busy([v EXCEPT !.section = first], {"loading"}), DocumentsAsks("load", first))
        PROVE  OneRow'
    <3> DEFINE x == [v EXCEPT !.section = first]
               w == Busy(x, {"loading"})
    <3>1. x \in TextedView /\ x.form = view.form /\ x.busy = view.busy \ S
      BY <2>3, <2>4 DEF TextedView
    <3> HIDE DEF x
    <3>2. w.form = view.form /\ w.busy = (view.busy \ S) \cup {"loading"}
      BY <3>1, LoadingRaised
    <3>3. TakesThenAsks(q, w, DocumentsAsks("load", first))
      BY <2>4 DEF x
    <3> HIDE DEF w
    <3> QED
      BY <1>2, <1>4, <3>2, <3>3
  <2> QED
    BY <1>2, <1>4, <2>3, <2>4 DEF DocumentsSelected
<1>5. ASSUME NEW q \in Bad(op), Takes(q, Free(view, S)) PROVE OneRow'
  BY <1>2, <1>3, <1>5, GoodBad
<1> QED
  BY <1>4, <1>5 DEF LoadsDocuments

LEMMA PortalDocumentsRow == ASSUME IInv, OneRow, page = "portal documents", PortalDocumentsNext PROVE OneRow'
<1>1. view \in TextedView /\ view.form # NONE
  BY ReadyFacts, DocumentsForm
<1>2. /\ Busy(view, {"loading"}).busy = view.busy \cup {"loading"} /\ Busy(view, {"loading"}).form = view.form
      /\ Busy(view, {"uploading"}).busy = view.busy \cup {"uploading"} /\ Busy(view, {"uploading"}).form = view.form
      /\ Free(view, {"uploading"}).form = view.form
  <2>1. {"uploading"} \in SUBSET Flag
    BY DEF Flag
  <2> QED
    BY <1>1, <2>1, LoadingRaised, FlagFacts, ZenonT(30)
<1>3. \A r : Idle(DocumentsAsks("load", r)) /\ Idle(GetRow("download", r))
  <2>1. "load" \notin {SendOp(page), ReloadOp(page)} /\ "download" \notin {SendOp(page), ReloadOp(page)}
    BY DocumentsOps
  <2>2. \A r : Idle(DocumentsAsks("load", r))
    BY <2>1, DocumentsAsked DEF Idle
  <2> QED
    BY <2>1, <2>2, IdleAsks
<1>4. CASE UserAsks(Busy(view, {"loading"}), DocumentsAsks("load", view.section))
  <2>1. Calm(Busy(view, {"loading"}))
    BY <1>2, DocumentsOps, PlainCalm
  <2> QED
    BY <1>3, <1>4, <2>1, DocumentsOps, RowAsks
<1>5. CASE LoadsDocuments("load", {"loading"}) \/ LoadsDocuments("uploaded", {"loading", "uploading"})
  BY <1>5, LoadsDocumentsRow DEF Flag
<1>6. ASSUME NEW r \in view.choices \cup {NONE}, UserAsks(Busy([view EXCEPT !.section = r], {"loading"}), DocumentsAsks("load", r))
      PROVE  OneRow'
  <2> DEFINE x == [view EXCEPT !.section = r]
             w == Busy(x, {"loading"})
  <2>1. x \in TextedView /\ x.busy = view.busy /\ x.form = view.form
    BY <1>1 DEF TextedView
  <2> HIDE DEF x
  <2>2. w.busy = view.busy \cup {"loading"} /\ w.form = view.form
    BY <2>1, LoadingRaised
  <2>3. Calm(w)
    BY <2>2, DocumentsOps, PlainCalm
  <2> HIDE DEF w
  <2> QED
    BY <1>3, <1>6, <2>3, DocumentsOps, RowAsks DEF w, x
<1>7. CASE Typing
  BY <1>1, <1>7, DocumentsOps, TypingRow
<1>8. CASE ~Has("uploading") /\ UserAsks(Busy(view, {"uploading"}), Create("upload", view.form))
  <2> DEFINE n == Create("upload", view.form)
             w == Busy(view, {"uploading"})
  <2>1. w.busy = view.busy \cup {"uploading"} /\ w.form = view.form
    BY <1>2
  <2>2. n.op = "upload" /\ n.state = "sent" /\ n.life = view.mounted /\ n.fill = view.form.fill
    BY DEF Create, Request
  <2>3. UserAsks(w, n) /\ "uploading" \notin view.busy
    BY <1>8 DEF Has
  <2> HIDE DEF n, w
  <2> QED
    BY <1>1, <2>1, <2>2, <2>3, DocumentsOps, SendStep
<1>9. ASSUME NEW q \in Good("upload"),
             TakesThenAsks(q, Busy([view EXCEPT !.form = Blank], {"loading"}), DocumentsAsks("uploaded", FirstRow))
      PROVE  OneRow'
  <2> DEFINE x == [view EXCEPT !.form = Blank]
             w == Busy(x, {"loading"})
  <2>1. q \in flight /\ Holds(page, view, q)
    BY AnswerFacts, GoodBad, DocumentsOps
  <2>2. "uploading" \in view.busy
    BY <2>1, DocumentsOps DEF OneRow, Filling, OneHolds
  <2>3. Blank \in TextedForm /\ Blank.fill = clicks
    BY ReadyFacts, FormsTexted DEF Blank
  <2>4. x \in TextedView /\ x.busy = view.busy /\ x.form = Blank
    BY <1>1, <2>3, FormFacts
  <2> HIDE DEF x
  <2>5. w.busy = view.busy \cup {"loading"} /\ w.form = Blank
    BY <2>4, LoadingRaised
  <2>6. TakesThenAsks(q, w, DocumentsAsks("uploaded", FirstRow))
    BY <1>9 DEF x
  <2> HIDE DEF w
  <2>7. FormLeft(w, q, {DocumentsAsks("uploaded", FirstRow)})
    BY <2>3, <2>5, DocumentsOps DEF FormLeft
  <2> QED
    BY <2>1, <2>2, <2>5, <2>6, <2>7, DocumentsOps, DocumentsAsked, EndAsks
<1>10. ASSUME NEW q \in Bad("upload"), Fails(q, Free(view, {"uploading"})) PROVE OneRow'
  <2>1. q \in flight /\ q.op = "upload" /\ Holds(page, view, q)
    BY AnswerFacts, GoodBad, DocumentsOps
  <2>2. FormLeft(Free(view, {"uploading"}), q, {})
    BY <1>2, <1>10, <2>1, DocumentsOps, FailedMadeNone DEF FormLeft
  <2> QED
    BY <1>10, <2>1, <2>2, DocumentsOps, EndTakes
<1>11. CASE PortalDocumentsDownload
  <2>1. ASSUME NEW q \in Answers("download") PROVE q \in flight /\ ~Holds(page, view, q)
    <3>1. q \in flight /\ q.op = "download"
      BY AnswerFacts
    <3> QED
      BY <3>1, DocumentsOps
  <2>2. ASSUME NEW r, UserAsks(view, GetRow("download", r)) PROVE OneRow'
    BY <1>3, <2>2, DocumentsOps, SameCalm, RowAsks
  <2>3. ASSUME NEW q \in Answers("download"), Takes(q, view) PROVE OneRow'
    BY <2>1, <2>3, DocumentsOps, SameCalm, RowTakes
  <2> QED
    BY <1>11, <2>2, <2>3 DEF PortalDocumentsDownload, Downloads
<1>12. CASE Search
  <2>1. \A a : [view EXCEPT !.asked = a].form = view.form /\ [view EXCEPT !.asked = a].busy = view.busy
    BY <1>1 DEF TextedView
  <2>2. \A a : Calm([view EXCEPT !.asked = a])
    BY <2>1, DocumentsOps, PlainCalm
  <2> QED
    BY <1>12, <2>2, DocumentsOps, RowDoes DEF Search
<1> QED
  BY <1>4, <1>5, <1>6, <1>7, <1>8, <1>9, <1>10, <1>11, <1>12
  DEF PortalDocumentsNext, PortalDocumentsLoad, PortalDocumentsSelect, PortalDocumentsDescribe, PortalDocumentsUpload

-----------------------------------------------------------------------------
(* The forms of the site whose button stays off, or that show a receipt. *)

LEMMA OnceOps ==
    page \in ReceiptPages \cup {"contact"} =>
        /\ SendOp(page) = "save" /\ ReloadOp(page) = "saved" /\ Button(page) = "saving"
        /\ page \notin {"request", "content"} /\ page \notin ReloadFirst /\ page \in FillPages
        /\ \A q : Holds(page, view, q) <=> q.op \in {"save", "saved"}
  BY DEF ReceiptPages, ReloadFirst, FillPages, SendOp, ReloadOp, Button, Holds

LEMMA FilledForm ==
    ASSUME IInv, page \in ReceiptPages \cup {"contact"} PROVE view.form # NONE /\ view \in TextedView
<1>1. page \in SendPages /\ page \in FormPages
  BY DEF SendPages, FormPages, ReceiptPages
<1> QED
  BY <1>1, SendsNow, ReadyFacts DEF SendForm

LEMMA SaveFailsRow ==
    ASSUME IInv, OneRow, page \in ReceiptPages \cup {"contact"}, NEW q \in Bad("save"), Fails(q, Free(view, {"saving"}))
    PROVE  OneRow'
<1>1. q \in flight /\ q.op = "save" /\ Holds(page, view, q)
  BY AnswerFacts, GoodBad, OnceOps
<1>2. Free(view, {"saving"}).form = view.form /\ Free(view, {"saving"}).open = view.open
  BY ReadyFacts DEF Free, TextedView
<1>3. FormLeft(Free(view, {"saving"}), q, {})
  BY <1>1, <1>2, OnceOps, FilledForm, FailedMadeNone DEF FormLeft
<1> QED
  BY <1>1, <1>2, <1>3, OnceOps, EndTakes

LEMMA ReceiptRow ==
    ASSUME IInv, OneRow, page \in ReceiptPages,
           \/ Typing
           \/ ~view.open /\ ~Has("saving") /\ UserAsks(Busy(view, {"saving"}), Create("save", view.form))
           \/ \E q \in Good("save") : Takes(q, Free([view EXCEPT !.open = TRUE], {"saving"}))
           \/ \E q \in Bad("save") : Fails(q, Free(view, {"saving"}))
           \/ UserDoes([view EXCEPT !.open = FALSE, !.form = Blank])
    PROVE  OneRow'
<1>1. view.form # NONE /\ view \in TextedView
  BY FilledForm
<1>2. CASE Typing
  <2> DEFINE w == [view EXCEPT !.form.text = "typed"]
  <2>1. w.form.fill = view.form.fill /\ w.busy = view.busy
    BY <1>1, TypingFacts
  <2>2. w.open = view.open
    BY <1>1 DEF TextedView
  <2> HIDE DEF w
  <2>3. Calm(w)
    BY <1>1, <2>1, <2>2, OnceOps DEF Calm
  <2> QED
    BY <1>2, <2>3, OnceOps, RowDoes DEF Typing, w
<1>3. CASE ~view.open /\ ~Has("saving") /\ UserAsks(Busy(view, {"saving"}), Create("save", view.form))
  BY <1>1, <1>3, FormAsks, OnceOps, SaveClickRow
<1>4. ASSUME NEW q \in Good("save"), Takes(q, Free([view EXCEPT !.open = TRUE], {"saving"})) PROVE OneRow'
  <2> DEFINE w == Free([view EXCEPT !.open = TRUE], {"saving"})
  <2>1. w.form = view.form /\ w.open = TRUE
    BY <1>1 DEF Free, TextedView
  <2> HIDE DEF w
  <2>2. FormLeft(w, q, {})
    BY <1>1, <2>1 DEF FormLeft
  <2>3. q \in flight /\ Holds(page, view, q)
    BY <1>4, AnswerFacts, GoodBad, OnceOps
  <2> QED
    BY <1>4, <2>1, <2>2, <2>3, OnceOps, EndTakes DEF w
<1>5. ASSUME NEW q \in Bad("save"), Fails(q, Free(view, {"saving"})) PROVE OneRow'
  BY <1>5, SaveFailsRow
<1>6. CASE UserDoes([view EXCEPT !.open = FALSE, !.form = Blank])
  <2> DEFINE w == [view EXCEPT !.open = FALSE, !.form = Blank]
  <2>1. w.form.fill = clicks /\ w.busy = view.busy
    BY <1>1 DEF TextedView, Blank
  <2> HIDE DEF w
  <2>2. Calm(w)
    BY <2>1, OnceOps DEF Calm
  <2> QED
    BY <1>6, <2>2, OnceOps, RowDoes DEF w
<1> QED
  BY <1>2, <1>3, <1>4, <1>5, <1>6

LEMMA RequestServiceRow == ASSUME IInv, OneRow, page = "request service", RequestServiceNext PROVE OneRow'
  BY ReceiptRow DEF RequestServiceNext, RequestServiceUpdate, RequestServiceSends, RequestServiceSubmit, RequestServiceReset, ReceiptPages

LEMMA BookConsultationRow == ASSUME IInv, OneRow, page = "book consultation", BookConsultationNext PROVE OneRow'
  BY ReceiptRow DEF BookConsultationNext, BookConsultationUpdate, BookConsultationSubmit, BookConsultationReset, ReceiptPages

LEMMA ContactRow == ASSUME IInv, OneRow, page = "contact", ContactNext PROVE OneRow'
<1>1. view.form # NONE /\ view \in TextedView /\ page \notin ReceiptPages \cup {"request"}
  BY FilledForm DEF ReceiptPages
<1>2. ASSUME NEW q \in Answers("load"), Takes(q, [view EXCEPT !.rows = q.got]) PROVE OneRow'
  <2> DEFINE w == [view EXCEPT !.rows = q.got]
  <2>1. w.form = view.form /\ w.busy = view.busy
    BY <1>1 DEF TextedView
  <2> HIDE DEF w
  <2>2. Calm(w)
    BY <1>1, <2>1, PlainCalm
  <2>3. q \in flight /\ ~Holds(page, view, q)
    BY <1>2, AnswerFacts, OnceOps
  <2> QED
    BY <1>2, <2>2, <2>3, OnceOps, RowTakes DEF w
<1>3. CASE Typing
  BY <1>1, <1>3, OnceOps, TypingRow
<1>4. CASE ~Has("saving") /\ UserAsks(Busy(view, {"saving"}), Create("save", view.form))
  BY <1>1, <1>4, FormAsks, OnceOps, SaveClickRow
<1>5. ASSUME NEW q \in Good("save"), Takes(q, Free([view EXCEPT !.form = Blank], {"saving"})) PROVE OneRow'
  <2> DEFINE w == Free([view EXCEPT !.form = Blank], {"saving"})
  <2>1. w.form.fill = clicks
    BY <1>1 DEF Free, TextedView, Blank
  <2> HIDE DEF w
  <2>2. FormLeft(w, q, {})
    BY <2>1, OnceOps DEF FormLeft
  <2>3. q \in flight /\ Holds(page, view, q)
    BY <1>5, AnswerFacts, GoodBad, OnceOps
  <2> QED
    BY <1>1, <1>5, <2>2, <2>3, OnceOps, EndTakes DEF w
<1>6. ASSUME NEW q \in Bad("save"), Fails(q, Free(view, {"saving"})) PROVE OneRow'
  BY <1>6, SaveFailsRow
<1> QED
  BY <1>2, <1>3, <1>4, <1>5, <1>6 DEF ContactNext, ContactContent, ContactFields, ContactSubmit, FormSends

-----------------------------------------------------------------------------
(* The pages on which the address or the title is a key: whatever is sent again, no second row. *)

LEMMA OnceApart == page \in OncePages => page \notin FillPages /\ page # "blog edit"
  BY DEF OncePages, FillPages, EditorPages, ReceiptPages

LEMMA KeyedStep ==
    ASSUME IInv, OneRow, page \in OncePages, page' = page, server' = server,
           ledger'.made \subseteq ledger.made, ledger'.twice = ledger.twice,
           \A q \in flight' : q \in flight \/ (q.op = "save" /\ q.verb = "createOnce" /\ q.text = "typed"),
           view'.form # NONE => view'.form.row = NONE /\ view'.form.text \in {"", "typed"}
    PROVE  OneRow'
<1>1. Keyed /\ ~ledger.twice
  BY DEF OneRow
<1>2. Keyed'
  BY <1>1 DEF Keyed, KeyTaken
<1> QED
  BY <1>1, <1>2, OnceApart DEF OneRow

LEMMA KeyedForm ==
    ASSUME IInv, OneRow, page \in OncePages, view.form # NONE
    PROVE  view.form.row = NONE /\ view.form.text \in {"", "typed"} /\ view \in TextedView
  BY ReadyFacts DEF OneRow, Keyed

LEMMA KeyedTyping == ASSUME IInv, OneRow, page \in OncePages, FormTyping PROVE OneRow'
<1> DEFINE w == [view EXCEPT !.form.text = "typed"]
<1>1. view.form # NONE /\ view.form.row = NONE /\ view' = w /\ UNCHANGED <<page, flight, server, ledger>>
  BY KeyedForm DEF FormTyping, Typing, UserDoes
<1>2. w.form.row = NONE /\ w.form.text = "typed"
  <2>1. view \in TextedView /\ view.form \in TextedForm
    BY <1>1, ReadyFacts DEF TextedView
  <2> QED
    BY <1>1, <2>1 DEF TextedView, TextedForm, Form
<1> HIDE DEF w
<1> QED
  BY <1>1, <1>2, KeyedStep

LEMMA KeyedLeaves == ASSUME IInv, OneRow, page \in OncePages, Leaves PROVE OneRow'
<1>1. view'.form = NONE /\ UNCHANGED <<page, flight, server, ledger>>
  BY NothingShownFacts DEF Leaves, UserDoes
<1> QED
  BY <1>1, KeyedStep

LEMMA KeyedSends ==
    ASSUME IInv, OneRow, page \in OncePages, NEW a, FormReady => a = CreateOnce("save", view.form),
           NEW sent, sent = Leaving \/ sent = [Leaving EXCEPT !.form = Blank], FormSends(a, sent)
    PROVE  OneRow'
<1>1. page \in SendPages /\ view \in TextedView
  BY ReadyFacts DEF OncePages, SendPages
<1>2. ASSUME NEW v, UNCHANGED <<page, server>>, view' = v, flight' \subseteq flight, v.form \in {view.form, Blank},
             ledger'.made \subseteq ledger.made, ledger'.twice = ledger.twice
      PROVE  OneRow'
  <2>1. v.form # NONE => v.form.row = NONE /\ v.form.text \in {"", "typed"}
    <3>1. Blank.row = NONE /\ Blank.text = ""
      BY DEF Blank
    <3> QED
      BY <1>2, <3>1, KeyedForm
  <2> QED
    BY <1>2, <2>1, KeyedStep
<1>3. CASE FormReady /\ UserAsks(Busy(view, {"saving"}), a)
  <2>1. /\ page' = page /\ server' = server /\ ledger' = ledger /\ view' = Busy(view, {"saving"}) /\ flight' = flight \cup {a}
    BY <1>3 DEF UserAsks, UserAsksAll
  <2>2. Busy(view, {"saving"}).form = view.form
    BY <1>1 DEF Busy, TextedView
  <2>3. view.form # NONE /\ view.form.text = "typed"
    BY <1>3, KeyedForm DEF FormReady
  <2>4. a.op = "save" /\ a.verb = "createOnce" /\ a.text = "typed"
    BY <1>3, <2>3 DEF CreateOnce, Request
  <2> QED
    BY <2>1, <2>2, <2>4, KeyedForm, KeyedStep
<1>4. ASSUME NEW q \in Good("save"), Takes(q, Free(sent, {"saving"})) PROVE OneRow'
  <2>1. Free(sent, {"saving"}).form \in {view.form, Blank}
    BY <1>1 DEF Free, Leaving, Busy, TextedView
  <2>2. /\ UNCHANGED <<page, server, ledger>> /\ view' = Free(sent, {"saving"}) /\ flight' \subseteq flight
    BY <1>4 DEF Takes
  <2> QED
    BY <1>2, <2>1, <2>2
<1>5. ASSUME NEW q \in Bad("save"), Fails(q, Free(view, {"saving"})) PROVE OneRow'
  <2>1. Free(view, {"saving"}).form = view.form
    BY <1>1 DEF Free, TextedView
  <2>2. /\ UNCHANGED <<page, server>> /\ view' = Free(view, {"saving"}) /\ flight' \subseteq flight
        /\ ledger'.made \subseteq ledger.made /\ ledger'.twice = ledger.twice
    BY <1>5 DEF Fails, IInv, Data
  <2> QED
    BY <1>2, <2>1, <2>2
<1> QED
  BY <1>3, <1>4, <1>5 DEF FormSends

LEMMA AccountantFormRow == ASSUME IInv, OneRow, page = "accountant form", AccountantFormNext PROVE OneRow'
  BY KeyedTyping, KeyedLeaves, KeyedSends DEF AccountantFormNext, AccountantFormSubmit, OncePages

LEMMA RegisterRow == ASSUME IInv, OneRow, page = "register", RegisterNext PROVE OneRow'
  BY KeyedTyping, KeyedLeaves, KeyedSends DEF RegisterNext, RegisterSubmit, OncePages

LEMMA BlogCreateRow == ASSUME IInv, OneRow, page = "blog create", BlogPostNext PROVE OneRow'
<1>1. page \in OncePages
  BY DEF OncePages
<1>2. ~BlogEditLoad
  BY <1>1 DEF BlogEditLoad, Answers, OneRow, Keyed
<1>3. CASE BlogPostSubmit
  <2> DEFINE a == IF view.form.row = NONE THEN CreateOnce("save", view.form) ELSE Update("save", view.form)
  <2>1. FormReady => a = CreateOnce("save", view.form)
    BY <1>1, KeyedForm DEF FormReady
  <2>2. FormSends(a, Leaving)
    BY <1>3 DEF BlogPostSubmit
  <2> HIDE DEF a
  <2> QED
    BY <1>1, <2>1, <2>2, KeyedSends
<1> QED
  BY <1>1, <1>2, <1>3, KeyedTyping, KeyedLeaves DEF BlogPostNext

-----------------------------------------------------------------------------
(* The post that is edited is a row already. *)

LEMMA EditStep ==
    ASSUME IInv, OneRow, page = "blog edit", page' = page, ledger'.twice = ledger.twice,
           \A q \in flight' : q \in flight \/ q.verb \notin Creates,
           view'.form # NONE => view'.form.row # NONE
    PROVE  OneRow'
<1>1. page \notin FillPages /\ page \notin OncePages
  BY DEF OncePages, FillPages, EditorPages, ReceiptPages
<1> QED
  BY <1>1 DEF OneRow, Edits

LEMMA BlogEditRow == ASSUME IInv, OneRow, page = "blog edit", BlogPostNext PROVE OneRow'
<1>1. view \in TextedView /\ (view.form # NONE => view.form.row # NONE)
  BY ReadyFacts DEF OneRow, Edits
<1>2. ASSUME NEW q \in flight, NEW v, v.form # NONE => v.form.row # NONE, Takes(q, v) \/ Fails(q, v) PROVE OneRow'
  <2>1. page' = page /\ view' = v /\ flight' \subseteq flight /\ ledger'.twice = ledger.twice
    BY <1>2 DEF Takes, Fails, IInv, Data
  <2> QED
    BY <1>2, <2>1, EditStep
<1>3. ASSUME NEW v, v.form # NONE => v.form.row # NONE, UserDoes(v) PROVE OneRow'
  BY <1>3, EditStep DEF UserDoes
<1>4. CASE BlogEditLoad
  <2>1. PICK q \in Answers("load") :
          Takes(q, Free([view EXCEPT !.form = IF q.got = Nothing THEN NONE ELSE FormOf(FirstRow, q.got[FirstRow])], {"loading"}))
    BY <1>4 DEF BlogEditLoad
  <2> DEFINE f == IF q.got = Nothing THEN NONE ELSE FormOf(FirstRow, q.got[FirstRow])
             w == Free([view EXCEPT !.form = f], {"loading"})
  <2>2. f # NONE => f.row # NONE
    BY RowsAssumption DEF FormOf, RowsAssumption
  <2>3. w.form = f
    BY <1>1 DEF Free, TextedView
  <2>4. Takes(q, w) /\ q \in flight
    BY <2>1 DEF Answers
  <2> HIDE DEF w, f
  <2> QED
    BY <1>2, <2>2, <2>3, <2>4
<1>5. CASE FormTyping
  <2> DEFINE w == [view EXCEPT !.form.text = "typed"]
  <2>1. view.form # NONE /\ UserDoes(w)
    BY <1>5 DEF FormTyping, Typing
  <2>2. w.form.row = view.form.row
    BY <2>1, TypingFacts
  <2> HIDE DEF w
  <2> QED
    BY <1>1, <1>3, <2>1, <2>2
<1>6. CASE Leaves
  BY <1>3, <1>6, NothingShownFacts DEF Leaves
<1>7. CASE BlogPostSubmit
  <2> DEFINE a == IF view.form.row = NONE THEN CreateOnce("save", view.form) ELSE Update("save", view.form)
  <2>1. FormReady => a.verb \notin Creates
    BY <1>1 DEF FormReady, Update, Request, Creates
  <2>2. FormSends(a, Leaving)
    BY <1>7 DEF BlogPostSubmit
  <2> HIDE DEF a
  <2>3. /\ Busy(view, {"saving"}).form = view.form /\ Free(view, {"saving"}).form = view.form
        /\ Free(Leaving, {"saving"}).form = view.form
    BY <1>1 DEF Busy, Free, Leaving, TextedView
  <2>4. CASE FormReady /\ UserAsks(Busy(view, {"saving"}), a)
    BY <1>1, <2>1, <2>3, <2>4, EditStep DEF UserAsks, UserAsksAll
  <2>5. \A q \in Good("save") \cup Bad("save") : q \in flight
    BY DEF Good, Bad, Answers
  <2> QED
    BY <1>1, <1>2, <2>2, <2>3, <2>4, <2>5 DEF FormSends
<1> QED
  BY <1>4, <1>5, <1>6, <1>7 DEF BlogPostNext

-----------------------------------------------------------------------------
(* The server answers, and others use it. *)

LEMMA ServedAs ==
    ASSUME IInv, NEW q \in flight, Serve(q) \/ Refuse(q)
    PROVE  /\ page' = page /\ view' = view /\ clicks' = clicks /\ q.state = "sent"
           /\ \E n : /\ flight' = (flight \ {q}) \cup {n}
                     /\ n.op = q.op /\ n.verb = q.verb /\ n.fill = q.fill /\ n.life = q.life /\ n.text = q.text
                     /\ n.state # "sent"
           /\ \/ ledger' = ledger
              \/ /\ q.verb \in Creates
                 /\ ledger'.made = ledger.made \cup {q.fill}
                 /\ ledger'.twice = (ledger.twice \/ q.fill \in ledger.made)
<1>1. q \in AskFields
  BY Typed
<1>2. CASE Refuse(q)
  <2> DEFINE n == [q EXCEPT !.state = "failed"]
  <2>1. n.op = q.op /\ n.verb = q.verb /\ n.fill = q.fill /\ n.life = q.life /\ n.text = q.text /\ n.state # "sent"
    BY <1>1 DEF AskFields
  <2>2. /\ flight' = (flight \ {q}) \cup {n} /\ page' = page /\ view' = view /\ clicks' = clicks /\ ledger' = ledger
        /\ q.state = "sent"
    BY <1>2 DEF Refuse
  <2> HIDE DEF n
  <2> QED
    BY <2>1, <2>2
<1>3. CASE Serve(q)
  <2>1. PICK r \in Targets(q), state \in {"ok"} \cup (IF q.verb \in Writes THEN {"failed"} ELSE {}) :
          LET d == [q EXCEPT !.row = r] IN
          flight' = (flight \ {q}) \cup
                      {[d EXCEPT !.state = state, !.got = IF state = "ok" THEN Content(d, After(d)) ELSE Nothing]}
    BY <1>3 DEF Serve
  <2> DEFINE d == [q EXCEPT !.row = r]
             got == IF state = "ok" THEN Content(d, After(d)) ELSE Nothing
             n == [d EXCEPT !.state = state, !.got = got]
  <2>2. flight' = (flight \ {q}) \cup {n}
    BY <2>1
  <2> HIDE DEF got
  <2>3. n.op = q.op /\ n.verb = q.verb /\ n.fill = q.fill /\ n.life = q.life /\ n.text = q.text /\ n.state = state
    BY <1>1 DEF AskFields
  <2>4. state # "sent"
    OBVIOUS
  <2> HIDE DEF n
  <2>5. page' = page /\ view' = view /\ clicks' = clicks /\ q.state = "sent"
    BY <1>3 DEF Serve
  <2>6. \/ ledger' = ledger
        \/ /\ q.verb \in Creates
           /\ ledger'.made = ledger.made \cup {q.fill}
           /\ ledger'.twice = (ledger.twice \/ q.fill \in ledger.made)
    BY <1>3 DEF Serve, IInv, Data
  <2> QED
    BY <2>2, <2>3, <2>4, <2>5, <2>6
<1> QED
  BY <1>2, <1>3

LEMMA ServedRow ==
    ASSUME IInv, OneRow, page \in FillPages, NEW q \in flight, Serve(q) \/ Refuse(q)
    PROVE  OneRow'
<1>1. page' = page /\ view' = view /\ clicks' = clicks /\ q.state = "sent"
  BY ServedAs
<1>2. PICK n : /\ flight' = (flight \ {q}) \cup {n}
               /\ n.op = q.op /\ n.verb = q.verb /\ n.fill = q.fill /\ n.life = q.life
               /\ n.state # "sent"
  BY ServedAs
<1>3. \/ ledger' = ledger
      \/ q.verb \in Creates /\ ledger'.made = ledger.made \cup {q.fill} /\ ledger'.twice = (ledger.twice \/ q.fill \in ledger.made)
  BY ServedAs
<1>4. Sends /\ OneHolds /\ Offered /\ (\A m \in ledger.made : m < clicks) /\ ~ledger.twice
  BY DEF OneRow, Filling
<1>5. q.verb \in Creates => q.op = SendOp(page) /\ q.fill < clicks /\ q.fill \notin ledger.made
  BY <1>1, <1>4 DEF Sends
<1>6. ~ledger'.twice /\ \A m \in ledger'.made : m < clicks
  BY <1>3, <1>4, <1>5
<1>7. \A m \in ledger'.made : m \in ledger.made \/ (q.op = SendOp(page) /\ m = q.fill)
  BY <1>3, <1>5
<1>8. \A h \in flight : h.op = SendOp(page) /\ h.fill = q.fill /\ q.op = SendOp(page) => h = q
  BY <1>4 DEF Sends
<1>9. Sends'
  <2>1. ASSUME NEW a \in flight'
        PROVE  /\ a.verb \in Creates => a.op = SendOp(page)
               /\ page = "request" /\ a.op = "send" => a.life <= view.mounted
               /\ a.op = SendOp(page) =>
                    /\ a.fill < clicks
                    /\ a.state = "sent" => a.fill \notin ledger'.made
                    /\ \A h \in flight' : h.op = SendOp(page) /\ h.fill = a.fill => h = a
    <3>1. CASE a = n
      <4>1. /\ q.verb \in Creates => q.op = SendOp(page)
            /\ page = "request" /\ q.op = "send" => q.life <= view.mounted
            /\ q.op = SendOp(page) => q.fill < clicks
        BY <1>4 DEF Sends
      <4>2. \A h \in flight' : h.op = SendOp(page) /\ h.fill = n.fill /\ n.op = SendOp(page) => h = n
        BY <1>2, <1>8
      <4> QED
        BY <1>2, <3>1, <4>1, <4>2
    <3>2. CASE a \in flight \ {q}
      <4>1. /\ a.verb \in Creates => a.op = SendOp(page)
            /\ page = "request" /\ a.op = "send" => a.life <= view.mounted
            /\ a.op = SendOp(page) =>
                 /\ a.fill < clicks
                 /\ a.state = "sent" => a.fill \notin ledger.made
                 /\ \A h \in flight : h.op = SendOp(page) /\ h.fill = a.fill => h = a
        BY <1>4, <3>2 DEF Sends
      <4>2. a.op = SendOp(page) /\ q.op = SendOp(page) => a.fill # q.fill
        BY <1>8, <3>2
      <4> QED
        BY <1>2, <1>7, <4>1, <4>2
    <3> QED
      BY <1>2, <3>1, <3>2
  <2> QED
    BY <1>1, <2>1 DEF Sends
<1>10. \A v : Holds(page, v, n) <=> Holds(page, v, q)
  BY <1>2 DEF Holds
<1>11. OneHolds'
  <2>1. ASSUME NEW a \in flight', Holds(page, view, a)
        PROVE  Button(page) \in view.busy /\ \A h \in flight' : Holds(page, view, h) => h = a
    BY <1>2, <1>4, <1>10, <2>1 DEF OneHolds
  <2> QED
    BY <1>1, <2>1 DEF OneHolds
<1>12. Offered'
  <2>1. \A m : Used(m)' => Used(m)
    BY <1>1, <1>2, <1>7 DEF Used
  <2>2. \A m : SentFor(q, m) => SentFor(n, m)'
    BY <1>1, <1>2, <1>10 DEF SentFor
  <2>3. \A a, m : SentFor(a, m) => SentFor(a, m)'
    BY <1>1 DEF SentFor
  <2> QED
    BY <1>1, <1>2, <1>4, <2>1, <2>2, <2>3 DEF Offered
<1>13. page \notin OncePages /\ page # "blog edit"
  BY DEF OncePages, FillPages, EditorPages, ReceiptPages
<1> QED
  BY <1>1, <1>4, <1>6, <1>9, <1>11, <1>12, <1>13 DEF OneRow, Filling

\* The first row with the key is made while every spare row is free, and is one of them.
LEMMA ServedOnce ==
    ASSUME IInv, OneRow, page \in OncePages, NEW q \in flight, Serve(q) \/ Refuse(q)
    PROVE  OneRow'
<1>1. page' = page /\ view' = view
  BY ServedAs
<1>2. PICK n : flight' = (flight \ {q}) \cup {n} /\ n.op = q.op /\ n.verb = q.verb /\ n.text = q.text
  BY ServedAs
<1>3. Keyed /\ ~ledger.twice /\ q.op = "save" /\ q.verb = "createOnce" /\ q.text = "typed"
  BY DEF OneRow, Keyed
<1>4. \A a \in flight' : a.op = "save" /\ a.verb = "createOnce" /\ a.text = "typed"
  BY <1>2, <1>3 DEF Keyed
<1>5. CASE Refuse(q)
  <2>1. server' = server /\ ledger' = ledger
    BY <1>5 DEF Refuse
  <2> QED
    BY <1>1, <1>3, <1>4, <2>1, OnceApart DEF OneRow, Keyed, KeyTaken
<1>6. CASE Serve(q)
  <2>1. PICK r \in Targets(q) : server' = After([q EXCEPT !.row = r])
    BY <1>6 DEF Serve
  <2>2. ~Taken("typed") /\ r \in NewRow
    BY <1>3, <2>1 DEF Targets
  <2>3. SparePool \subseteq Row /\ NONE \notin Row /\ SparePool # {}
    BY RowsAssumption, SpareAssumption DEF RowsAssumption, SpareAssumption
  <2>4. ledger.made = {} /\ \A e \in SparePool : server[e] = NONE
    BY <1>3, <2>2, <2>3 DEF Keyed, KeyTaken, Taken
  <2>5. r \in SparePool
    BY <2>2, <2>3, <2>4 DEF NewRow, FreeRows
  <2>6. server'[r] = "typed"
    <3>1. q \in AskFields /\ server \in Shelf
      BY Typed DEF IInv, Data
    <3> DEFINE d == [q EXCEPT !.row = r]
    <3>2. d.row = r /\ d.verb = "createOnce" /\ d.text = "typed"
      BY <1>3, <3>1 DEF AskFields
    <3>3. server' = After(d)
      BY <2>1
    <3> HIDE DEF d
    <3>4. After(d) = [server EXCEPT ![r] = "typed"]
      BY <2>3, <2>5, <3>2 DEF After, Writes, Creates
    <3> QED
      BY <2>3, <2>5, <3>1, <3>3, <3>4 DEF Shelf
  <2>7. KeyTaken'
    BY <2>5, <2>6 DEF KeyTaken
  <2>8. ~ledger'.twice
    <3>1. ledger' = ledger \/ ledger'.twice = (ledger.twice \/ q.fill \in ledger.made)
      BY ServedAs
    <3> QED
      BY <1>3, <2>4, <3>1
  <2> QED
    BY <1>1, <1>3, <1>4, <2>7, <2>8, OnceApart DEF OneRow, Keyed
<1> QED
  BY <1>5, <1>6

\* Elsewhere nothing is made.
LEMMA ServedElse ==
    ASSUME IInv, OneRow, page \notin FillPages \cup OncePages, NEW q \in flight, Serve(q) \/ Refuse(q)
    PROVE  OneRow'
<1>1. page' = page /\ view' = view
  BY ServedAs
<1>2. PICK n : flight' = (flight \ {q}) \cup {n} /\ n.verb = q.verb
  BY ServedAs
<1>3. q.verb \notin Creates
  <2>1. CASE page = "blog edit"
    BY <2>1 DEF OneRow, Edits
  <2>2. CASE page # "blog edit"
    <3>1. page \notin CreatePages
      BY <2>2 DEF CreatePages, FillPages, OncePages, EditorPages, ReceiptPages
    <3> QED
      BY <3>1, ReadyFacts DEF AskOn
  <2> QED
    BY <2>1, <2>2
<1>4. ledger' = ledger
  BY <1>3, ServedAs
<1>5. page = "blog edit" => Edits'
  BY <1>1, <1>2, <1>3 DEF OneRow, Edits
<1> QED
  BY <1>1, <1>4, <1>5 DEF OneRow

LEMMA ElsewhereRow == ASSUME IInv, OneRow, Elsewhere PROVE OneRow'
<1>1. /\ UNCHANGED <<page, view, flight, ledger, clicks>> /\ server' = [server EXCEPT ![FirstRow] = "elsewhere"]
  BY DEF Elsewhere
<1>2. FirstRow \notin SparePool /\ SparePool \subseteq Row /\ server \in Shelf
  BY RowsAssumption DEF RowsAssumption, IInv, Data
<1>3. \A r \in SparePool : server'[r] = server[r]
  BY <1>1, <1>2 DEF Shelf
<1>4. Keyed => Keyed'
  BY <1>1, <1>3 DEF Keyed, KeyTaken
<1>5. Filling => Filling'
  BY <1>1 DEF Filling, Sends, OneHolds, Offered, Used, SentFor
<1>6. Edits => Edits'
  BY <1>1 DEF Edits
<1> QED
  BY <1>1, <1>4, <1>5, <1>6 DEF OneRow

LEMMA WorldRow == ASSUME IInv, OneRow, World PROVE OneRow'
  BY ElsewhereRow, ServedRow, ServedOnce, ServedElse DEF World

-----------------------------------------------------------------------------
(* Every step. *)

\* On the other pages no request makes a row.
LEMMA OtherPages ==
    ASSUME OneRow, page \notin FillPages \cup OncePages \cup {"blog edit"}, Kept, ~World
    PROVE  OneRow'
  BY DEF OneRow, Kept

LEMMA FillPagesRow == ASSUME IInv, OneRow, page \in FillPages, PageNext PROVE OneRow'
<1>1. CASE page \in EditorPages
  BY <1>1, StaffRow, TestimonialsRow, ServicesRow, SocialLinksRow, TaxSystemsRow, BlogRow, AccountantsRow,
     ClientCredentialsRow DEF EditorPages, PageNext
<1>2. CASE page \in ReceiptPages
  BY <1>2, RequestServiceRow, BookConsultationRow DEF ReceiptPages, PageNext
<1>3. CASE page \in {"content", "request", "portal documents", "contact"}
  BY <1>3, ContentRow, RequestRow, PortalDocumentsRow, ContactRow DEF PageNext
<1> QED
  BY <1>1, <1>2, <1>3 DEF FillPages

LEMMA OncePagesRow == ASSUME IInv, OneRow, page \in OncePages \cup {"blog edit"}, PageNext PROVE OneRow'
  BY AccountantFormRow, RegisterRow, BlogCreateRow, BlogEditRow DEF OncePages, PageNext

LEMMA StepRow == ASSUME IInv, OneRow, [Next]_vars PROVE OneRow'
<1>1. CASE World
  BY <1>1, WorldRow
<1>2. CASE PageNext /\ ~World
  BY <1>2, FillPagesRow, OncePagesRow, OtherPages, PageKeeps
<1>3. CASE UNCHANGED vars
  BY <1>3 DEF vars, OneRow, Filling, Sends, OneHolds, Offered, Used, SentFor, Keyed, KeyTaken, Edits
<1> QED
  BY <1>1, <1>2, <1>3 DEF Next

-----------------------------------------------------------------------------
(* Every page when it is opened. *)

LEMMA ZeroBounds == 0 <= 0
  OBVIOUS

LEMMA OpensRow ==
    ASSUME NEW p, NEW v, NEW qs, OpensAsking(p, v, qs),
           p \in FillPages => /\ v.form = NONE \/ (p # "content" /\ v.form = EmptyForm)
                              /\ \A q \in qs : q.op = "load" /\ q.verb \notin Creates,
           p \in OncePages => qs = {} /\ v.form \in {NONE, EmptyForm},
           p = "blog edit" => v.form = NONE /\ \A q \in qs : q.verb \notin Creates
    PROVE  OneRow
<1>1. page = p /\ view = v /\ flight = qs /\ clicks = 0 /\ ledger.made = {} /\ ~ledger.twice
      /\ server = [r \in Row |-> IF r \in SparePool THEN NONE ELSE r]
  BY DEF OpensAsking
<1>2. "load" # SendOp(page) /\ "load" # ReloadOp(page)
  BY DEF SendOp, ReloadOp
<1>0. EmptyForm.fill = 0 /\ EmptyForm.row = NONE /\ EmptyForm.text = ""
  BY DEF EmptyForm
<1>3. ASSUME page \in FillPages PROVE Filling
  <2>1. \A q \in flight : q.op = "load" /\ q.verb \notin Creates
    BY <1>1, <1>3
  <2>2. view.form # NONE => view.form.fill = 0 /\ page # "content"
    BY <1>0, <1>1, <1>3
  <2>3. Sends /\ OneHolds
    BY <1>2, <2>1 DEF Sends, OneHolds, Holds
  <2>4. Offered
    <3>1. \A n : ~Used(n)
      BY <1>1, <1>2, <2>1 DEF Used
    <3>2. view.form # NONE => page # "content" /\ view.form.fill <= clicks
      <4>1. clicks = 0
        BY <1>1
      <4> QED
        BY <2>2, <4>1, ZeroBounds, Zenon
    <3> QED
      BY <3>1, <3>2, Zenon DEF Offered
  <2> QED
    BY <1>1, <2>3, <2>4 DEF Filling
<1>4. ASSUME page \in OncePages PROVE Keyed
  <2>1. flight = {} /\ view.form \in {NONE, EmptyForm}
    BY <1>1, <1>4
  <2>2. \A r \in SparePool : server[r] = NONE
    BY <1>1, RowsAssumption DEF RowsAssumption
  <2> QED
    BY <1>0, <1>1, <2>1, <2>2 DEF Keyed
<1>5. page = "blog edit" => Edits
  BY <1>1 DEF Edits
<1> QED
  BY <1>1, <1>3, <1>4, <1>5 DEF OneRow

\* A page that asks for what it shows, with no form or an empty one.
LEMMA OpensAskingOne ==
    ASSUME NEW p, p \notin OncePages, NEW v, NEW verb \in {"list", "get"}, NEW r, Opens(p, v, First(verb, r)),
           v.form = NONE \/ (p \notin {"content", "blog edit"} /\ v.form = EmptyForm)
    PROVE  OneRow
<1>1. First(verb, r).op = "load" /\ First(verb, r).verb \notin Creates
  BY DEF First, Creates
<1> HIDE DEF First
<1> QED
  BY <1>1, OpensRow DEF Opens

LEMMA ShownForms ==
    /\ NothingShown.form = NONE /\ [NothingShown EXCEPT !.form = EmptyForm].form = EmptyForm
    /\ \A S : Busy(NothingShown, S).form = NONE /\ Busy([NothingShown EXCEPT !.section = FirstRow], S).form = NONE
    /\ \A S : Busy([NothingShown EXCEPT !.form = EmptyForm], S).form = EmptyForm
  BY DEF NothingShown, Busy

LEMMA ListsOpenRow ==
    ASSUME NEW p, p \notin OncePages, ListOpens(p) PROVE OneRow
  BY OpensAskingOne, ShownForms DEF ListOpens

LEMMA RowsOpenRow ==
    ASSUME NEW p, p \notin OncePages, RowOpens(p) PROVE OneRow
  BY OpensAskingOne, ShownForms DEF RowOpens

LEMMA FormsOpenRow ==
    ASSUME NEW p, p \notin {"content", "blog edit"}, OpensAsking(p, [NothingShown EXCEPT !.form = EmptyForm], {}) PROVE OneRow
  BY OpensRow, ShownForms

LEMMA OthersOpenRow ==
    ASSUME NEW p, p \notin FillPages \cup OncePages \cup {"blog edit"}, NEW v, NEW qs, OpensAsking(p, v, qs) PROVE OneRow
  BY OpensRow

LEMMA InitRow == Init => OneRow
<1>1. ASSUME \/ StaffOpen \/ TestimonialsOpen \/ ServicesOpen \/ SocialLinksOpen \/ TaxSystemsOpen \/ BlogOpen
             \/ ClientCredentialsOpen \/ AccountantsOpen
      PROVE  OneRow
  <2>1. \E p \in EditorPages : ListOpens(p)
    BY <1>1 DEF EditorPages, StaffOpen, TestimonialsOpen, ServicesOpen, SocialLinksOpen, TaxSystemsOpen, BlogOpen,
       ClientCredentialsOpen, AccountantsOpen
  <2> QED
    BY <2>1, ListsOpenRow DEF EditorPages, OncePages
<1>2. ASSUME ContentOpen \/ RequestOpen \/ PortalDocumentsOpen \/ ContactOpen \/ BlogEditOpen PROVE OneRow
  <2>1. CASE ContentOpen
    BY <2>1, OpensAskingOne, ShownForms DEF ContentOpen, OncePages
  <2>2. CASE RequestOpen
    BY <2>2, RowsOpenRow DEF RequestOpen, OncePages
  <2>3. CASE PortalDocumentsOpen
    BY <2>3, OpensAskingOne, ShownForms DEF PortalDocumentsOpen, OncePages, EmptyForm
  <2>4. CASE ContactOpen
    BY <2>4, OpensAskingOne, ShownForms DEF ContactOpen, OncePages
  <2>5. CASE BlogEditOpen
    BY <2>5, OpensAskingOne, ShownForms DEF BlogEditOpen, OncePages
  <2> QED
    BY <1>2, <2>1, <2>2, <2>3, <2>4, <2>5
<1>3. ASSUME \/ RequestServiceOpen \/ BookConsultationOpen \/ RegisterOpen \/ LinkRequestOpen \/ AccountantFormOpen
             \/ BlogCreateOpen
      PROVE  OneRow
  <2>1. PICK p : p \notin {"content", "blog edit"} /\ OpensAsking(p, [NothingShown EXCEPT !.form = EmptyForm], {})
    <3> HIDE DEF OpensAsking, NothingShown, EmptyForm
    <3> QED
      BY <1>3 DEF RequestServiceOpen, BookConsultationOpen, RegisterOpen, LinkRequestOpen, AccountantFormOpen, BlogCreateOpen
  <2> QED
    BY <2>1, FormsOpenRow
<1>4. ASSUME NEW p, ListOpens(p) \/ RowOpens(p) \/ Site(p) \/ (\E t : ItemOpens(p, t)),
             p \notin FillPages \cup OncePages \cup {"blog edit"}
      PROVE  OneRow
  BY <1>4, OthersOpenRow DEF ListOpens, RowOpens, Site, ItemOpens, Opens
<1>5. ASSUME \/ StatisticsOpen \/ AccountantDashboardOpen \/ AssignedListOpen \/ AccountantConsultationsOpen
             \/ AdminConsultationsOpen \/ ClientRequestsOpen \/ ClientDashboardOpen \/ CredentialsCardOpen
             \/ NotificationsOpen \/ SiteSocialLinksOpen \/ AdminCredentialsOpen \/ AuditLogOpen
      PROVE  OneRow
  <2> DEFINE Lists == {"statistics", "accountant dashboard", "assigned list", "accountant consultations",
                       "admin consultations", "client requests", "client dashboard", "credentials card",
                       "notifications", "site social links", "admin credentials", "audit log"}
  <2>1. \E p \in Lists : ListOpens(p)
    BY <1>5 DEF StatisticsOpen, AccountantDashboardOpen, AssignedListOpen, AccountantConsultationsOpen,
       AdminConsultationsOpen, ClientRequestsOpen, ClientDashboardOpen, CredentialsCardOpen, NotificationsOpen,
       SiteSocialLinksOpen, AdminCredentialsOpen, AuditLogOpen
  <2>2. \A p \in Lists : p \notin FillPages \cup OncePages \cup {"blog edit"}
    BY DEF FillPages, OncePages, EditorPages, ReceiptPages
  <2> HIDE DEF Lists
  <2> QED
    BY <1>4, <2>1, <2>2
<1>6. ASSUME AssignedWorkOpen \/ ConsultationOpen PROVE OneRow
  BY <1>4, <1>6 DEF AssignedWorkOpen, ConsultationOpen, FillPages, OncePages, EditorPages, ReceiptPages
<1>7. ASSUME \/ SiteServicesOpen \/ ServicePreviewOpen \/ SiteStaffOpen \/ StaffPreviewOpen \/ SiteBlogOpen \/ BlogPreviewOpen
             \/ FloatingStatsOpen \/ SiteTestimonialsOpen \/ FooterOpen \/ AboutOpen \/ HeroOpen
      PROVE  OneRow
  <2> DEFINE Sites == {"site services", "service preview", "site staff", "staff preview", "site blog", "blog preview",
                       "floating stats", "site testimonials", "footer", "about", "hero"}
  <2>1. \E p \in Sites : Site(p)
    BY <1>7 DEF SiteServicesOpen, ServicePreviewOpen, SiteStaffOpen, StaffPreviewOpen, SiteBlogOpen, BlogPreviewOpen,
       FloatingStatsOpen, SiteTestimonialsOpen, FooterOpen, AboutOpen, HeroOpen
  <2>2. \A p \in Sites : p \notin FillPages \cup OncePages \cup {"blog edit"}
    BY DEF FillPages, OncePages, EditorPages, ReceiptPages
  <2> HIDE DEF Sites
  <2> QED
    BY <1>4, <2>1, <2>2
<1>8. ASSUME ServiceDetailOpen \/ StaffDetailOpen \/ BlogDetailOpen \/ ClientRequestOpen PROVE OneRow
  <2>1. \E p \in DetailPages : \E t : ItemOpens(p, t)
    BY <1>8 DEF ServiceDetailOpen, StaffDetailOpen, BlogDetailOpen, ClientRequestOpen, DetailPages
  <2>2. \A p \in DetailPages : p \notin FillPages \cup OncePages \cup {"blog edit"}
    BY DEF DetailPages, FillPages, OncePages, EditorPages, ReceiptPages
  <2> QED
    BY <1>4, <2>1, <2>2
<1>9. ASSUME \/ AdminRequestsOpen \/ AdminDashboardOpen \/ AdminDocumentsOpen \/ AccountantCredentialsOpen \/ BellOpen
             \/ ClientsOpen \/ ClientOpen \/ AccountantOpen \/ ProfileOpen
      PROVE  OneRow
  <2> DEFINE Others == {"admin requests", "admin dashboard", "admin documents", "accountant credentials", "bell", "clients",
                        "client", "accountant", "profile"}
  <2>1. \E p \in Others : \E v, qs : OpensAsking(p, v, qs)
    BY <1>9 DEF AdminRequestsOpen, AdminDashboardOpen, AdminDocumentsOpen, AccountantCredentialsOpen, BellOpen, ClientsOpen,
       ClientOpen, AccountantOpen, ProfileOpen, Opens
  <2>2. \A p \in Others : p \notin FillPages \cup OncePages \cup {"blog edit"}
    BY DEF FillPages, OncePages, EditorPages, ReceiptPages
  <2> HIDE DEF Others
  <2> QED
    BY <2>1, <2>2, OthersOpenRow
<1> QED
  BY <1>1, <1>2, <1>3, <1>5, <1>6, <1>7, <1>8, <1>9 DEF Init

\* One filling of a form makes one row at the server, however often it is clicked, unless the
\* user was told that it had failed.
THEOREM OneFillingOneRow == Spec => []OneRowPerFill
<1>1. IInv /\ OneRow /\ [Next]_vars => OneRow'
  BY StepRow
<1>2. OneRow => OneRowPerFill
  BY DEF OneRow, OneRowPerFill
<1> QED
  BY Invariant, InitRow, <1>1, <1>2, PTL DEF Spec

=============================================================================
