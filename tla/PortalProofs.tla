---------------------------- MODULE PortalProofs ----------------------------
(***************************************************************************)
(* Proofs about the pages of the site, for any rows and any number of      *)
(* requests.                                                               *)
(***************************************************************************)
EXTENDS Portal, FiniteSetTheorems, TLAPS

-----------------------------------------------------------------------------
(* The invariant: data. *)

TextedRows == {rows \in Shown : \A r \in DOMAIN rows : rows[r] \in TextsFor(r)}
TextedForm == {f \in Form : f.text \in TextsFor(f.row)}
TextedSecrets == {s \in Secrets : \A r \in DOMAIN s : s[r] \in TextsFor(r) \cup {"waiting"}}
TextedView ==
    [rows : TextedRows, busy : SUBSET Flag, form : TextedForm \cup {NONE}, edits : TextedRows,
     at : Row \cup {NONE}, section : Row \cup {NONE}, asked : Query, number : Nat,
     error : BOOLEAN, choices : SUBSET Row, secrets : TextedSecrets, open : BOOLEAN, mounted : Nat]

\* The requests that only read, by the names the handlers give them.
Reads == {"load", "saved", "toggled", "updated", "fallback", "documents", "number", "uploaded", "savingDetails",
          "savingStatus", "stats", "consultations", "accountants", "requests", "clients", "reveal", "download"}
AskFields == [no : Nat \ {0}, op : OpName, verb : Verb, row : Row \cup {NONE}, text : Text, query : Query,
              fill : Nat, life : Nat, state : {"sent", "ok", "failed"}, got : TextedRows]
\* The requests that carry a text.
TextVerbs == {"create", "createOnce", "update", "updateAll"}
AskRules(q) ==
    /\ q.text \in TextsFor(q.row)
    /\ q.verb \notin TextVerbs => q.text = ""
    /\ q.op \in Reads => q.verb \notin Writes
    /\ q.op = "reveal" => q.verb = "get"
    /\ q.verb = "get" => q.row \in Row
    /\ q.verb = "createOnce" /\ q.state = "sent" => q.row = NONE
    /\ q.verb = "updateAll" => q.row = NONE
    /\ q.state # "ok" => q.got = Nothing
    /\ q.state = "ok" /\ q.verb = "get" => DOMAIN q.got = {q.row}
    /\ q.verb = "list" => DOMAIN q.got \subseteq Found(q.query)
TextedAsk == {q \in AskFields : AskRules(q)}

FormPages == {"portal documents", "profile", "request service", "book consultation", "contact"}
BlankPages == {"request", "portal documents", "accountant form", "request service", "book consultation", "contact", "register"}
DetailPages == {"service detail", "staff detail", "blog detail", "client request"}
RowPages == {"consultation", "profile", "blog create", "blog edit"}
SearchPages == {"clients", "audit log"}
RunPages == DetailPages \cup SearchPages
\* The pages that load and do not say so.
QuietPages == {"contact", "site services", "service preview", "site staff", "staff preview", "site blog", "blog preview",
    "floating stats", "site testimonials", "footer", "about", "hero"}
\* The pages with rules about their flags.
BusyPages == RunPages \cup QuietPages \cup {"request", "admin dashboard"}
CreatePages == {"staff", "testimonials", "services", "social links", "tax systems", "blog", "content", "request",
    "portal documents", "client credentials", "accountants", "accountant form", "blog create", "blog edit", "request service",
    "book consultation", "contact", "register"}

ViewOn(p) == {v \in TextedView :
    /\ p \in FormPages => v.form # NONE
    /\ p \in BlankPages => v.form = NONE \/ v.form.row = NONE
    /\ p = "profile" => v.form.row = FirstRow
    /\ p = "consultation" => v.form # NONE \/ FirstRow \notin DOMAIN v.rows
    /\ p # "bell" => v.number \in {1, 2}
    /\ p \in DetailPages \cup {"content"} => v.section \in Row
    /\ p = "admin dashboard" => v.busy \subseteq {"loading", "refreshing"} /\ v.at = NONE /\ DOMAIN v.secrets = {}
    /\ p = "request" => (v.busy \cap CardFlags = {} /\ v.form = NONE) \/ ("loading" \notin v.busy /\ FirstRow \in DOMAIN v.rows)
    /\ p \in RunPages => v.busy \subseteq {"loading", "timer"}
    /\ p \in QuietPages => "loading" \notin v.busy
    /\ p \in SearchPages /\ v.busy \cap {"loading", "timer"} = {} => DOMAIN v.rows \subseteq Found(v.asked)
    /\ p \in DetailPages /\ "loading" \notin v.busy => DOMAIN v.rows \subseteq {v.section}}
\* What these pages load is the row they are opened for.
RowLoads == {"load", "savingDetails", "savingStatus"}
AskOn(p) == {q \in TextedAsk :
    /\ q.verb \in Creates => p \in CreatePages
    /\ p \in RowPages \cup {"request"} /\ q.op \in RowLoads => q.verb = "get" /\ q.row = FirstRow
    /\ p = "profile" /\ q.verb = "update" => q.row = FirstRow}

Loads == {"load", "saved", "toggled", "updated", "fallback", "documents", "number", "uploaded", "savingDetails",
          "savingStatus"}
AtHolders(p) ==
    IF p = "statistics" THEN {"save"}
    ELSE IF p \in {"blog", "accountants"} THEN {"toggle", "toggled"}
    ELSE IF p \in {"accountant dashboard", "assigned list", "accountant consultations"} THEN {"status"}
    ELSE IF p = "admin consultations" THEN {"status", "updated"}
    ELSE IF p \in {"accountant credentials", "credentials card"} THEN {"reveal"} ELSE {}
Holders(p, f) ==
    IF f = "loading" THEN Loads
    ELSE IF f = "saving" THEN IF p \in {"consultation", "statistics"} THEN {} ELSE {"save", "saved"}
    ELSE IF f = "savingDetails" THEN IF p = "consultation" THEN {"save", "savingDetails"} ELSE {}
    ELSE IF f = "savingStatus" THEN IF p = "consultation" THEN {"status", "savingStatus"} ELSE {}
    ELSE IF f = "deleting" THEN IF p = "consultation" THEN {"delete"} ELSE {}
    ELSE IF f = "status" THEN IF p \in {"assigned work", "request"} THEN {"status"}
                              ELSE IF p = "accountant" THEN {"status", "updated"} ELSE {}
    ELSE IF f = "refreshing" THEN IF p \in {"admin dashboard", "client requests"} THEN {"load", "fallback"} ELSE {}
    ELSE IF f = "uploading" THEN IF p \in {"staff", "blog", "request"} THEN {"upload"}
                                 ELSE IF p = "portal documents" THEN {"upload", "uploaded"} ELSE {}
    ELSE IF f = "documents" THEN IF p = "assigned work" THEN {"documents"} ELSE {}
    ELSE IF f = "accountants" THEN IF p = "request" THEN {"accountants"} ELSE {}
    ELSE IF f = "assigning" THEN IF p = "request" THEN {"assign"} ELSE {}
    ELSE IF f = "sending" THEN IF p = "request" THEN {"send"} ELSE {}
    ELSE IF f = "markingAll" THEN {"all"}
    ELSE IF f = "password" THEN {"password"}
    ELSE IF f = "requests" THEN {"requests"}
    ELSE IF f = "clients" THEN {"clients"} ELSE {}
Holder(p, v, q, f) ==
    /\ q.op \in Holders(p, f)
    /\ p \in RunPages \/ (p = "request" /\ f \in CardFlags) => q.life = v.mounted
    /\ p \in {"staff", "blog"} /\ f = "uploading" => v.form # NONE /\ q.fill = v.form.fill
HeldAll(p, v, fl) ==
    /\ \A f \in v.busy \ {"timer", "leaving"} :
          (f = "loading" /\ "timer" \in v.busy) \/ \E q \in fl : Holder(p, v, q, f)
    /\ v.at # NONE => \E q \in fl : q.op \in AtHolders(p)
    /\ \A r \in DOMAIN v.secrets : v.secrets[r] = "waiting" =>
          "reveal" \notin AtHolders(p) /\ \E q \in fl : q.op = "reveal" /\ q.row = r
RunsFit(p, v, fl) ==
    /\ p \in RunPages => \A q \in fl : q.life <= v.mounted
    /\ p \in SearchPages => \A q \in fl : q.verb = "list" /\ (q.life = v.mounted => q.query = v.asked)
    /\ p \in DetailPages => \A q \in fl : q.verb = "get" /\ (q.life = v.mounted => q.row = v.section)
Data == /\ page \in PageName /\ IsFiniteSet(flight) /\ (\A q \in flight : q \in AskOn(page))
        /\ server \in Shelf /\ (\A r \in Row : server[r] \in TextsFor(r) \cup {NONE})
        /\ ledger \in [made : SUBSET Nat, twice : BOOLEAN]
        /\ clicks \in 0..MaxClicks
IInv == Data /\ view \in ViewOn(page) /\ HeldAll(page, view, flight) /\ RunsFit(page, view, flight)

-----------------------------------------------------------------------------
(* Data. *)

LEMMA RowsIntro ==
    ASSUME NEW S \in SUBSET Row, NEW rows \in [S -> Text], \A r \in S : rows[r] \in TextsFor(r)
    PROVE  rows \in TextedRows
  BY DEF TextedRows, Shown

LEMMA RowsElim ==
    ASSUME NEW rows \in TextedRows
    PROVE  /\ DOMAIN rows \in SUBSET Row /\ rows \in [DOMAIN rows -> Text]
           /\ \A r \in DOMAIN rows : rows[r] \in TextsFor(r)
  BY DEF TextedRows, Shown

LEMMA NothingTexted == Nothing \in TextedRows /\ DOMAIN Nothing = {}
<1>1. Nothing \in [{} -> Text] /\ DOMAIN Nothing = {}
  BY DEF Nothing
<1> QED
  BY <1>1, RowsIntro

LEMMA BusyTyped ==
    ASSUME NEW v \in TextedView, NEW S \in SUBSET Flag
    PROVE  Busy(v, S) \in TextedView /\ Free(v, S) \in TextedView
  BY DEF TextedView, Busy, Free

LEMMA SecretsIntro ==
    ASSUME NEW S \in SUBSET Row, NEW s \in [S -> Text \cup {"waiting"}], \A r \in S : s[r] \in TextsFor(r) \cup {"waiting"}
    PROVE  s \in TextedSecrets
  BY DEF TextedSecrets, Secrets

LEMMA SecretsElim ==
    ASSUME NEW s \in TextedSecrets
    PROVE  /\ DOMAIN s \in SUBSET Row /\ s \in [DOMAIN s -> Text \cup {"waiting"}]
           /\ \A r \in DOMAIN s : s[r] \in TextsFor(r) \cup {"waiting"}
  BY DEF TextedSecrets, Secrets

\* A text the page has of a row is never the mark of a password that is on its way.
LEMMA RowsAreSecrets ==
    ASSUME NEW rows \in TextedRows
    PROVE  rows \in TextedSecrets /\ \A r \in DOMAIN rows : rows[r] # "waiting"
<1>1. /\ DOMAIN rows \in SUBSET Row /\ rows \in [DOMAIN rows -> Text]
      /\ \A r \in DOMAIN rows : rows[r] \in TextsFor(r)
  BY RowsElim
<1>2. rows \in TextedSecrets
  BY <1>1, SecretsIntro
<1>3. \A r \in DOMAIN rows : rows[r] # "waiting"
  BY <1>1, RowsAssumption DEF TextsFor
<1> QED
  BY <1>2, <1>3

LEMMA NoSecrets == Nothing \in TextedSecrets
  BY NothingTexted, RowsAreSecrets

LEMMA RestrictTexted ==
    ASSUME NEW rows \in TextedRows, NEW S \in SUBSET DOMAIN rows
    PROVE  Restrict(rows, S) \in TextedRows /\ DOMAIN Restrict(rows, S) = S
<1>1. /\ DOMAIN rows \in SUBSET Row /\ rows \in [DOMAIN rows -> Text]
      /\ \A r \in DOMAIN rows : rows[r] \in TextsFor(r)
  BY RowsElim
<1>2. Restrict(rows, S) \in [S -> Text] /\ \A r \in S : Restrict(rows, S)[r] \in TextsFor(r)
  BY <1>1 DEF Restrict
<1> QED
  BY <1>1, <1>2, RowsIntro

LEMMA ThereTexted ==
    ASSUME NEW s \in Shelf, \A r \in Row : s[r] \in TextsFor(r) \cup {NONE}, NEW S \in SUBSET Row
    PROVE  There(s, S) \in TextedRows /\ DOMAIN There(s, S) = {r \in S : s[r] # NONE}
<1> DEFINE T == {r \in S : s[r] # NONE}
<1>1. There(s, S) = [r \in T |-> s[r]]
  BY DEF There, Restrict
<1>2. T \in SUBSET Row
  OBVIOUS
<1>3. [r \in T |-> s[r]] \in [T -> Text]
  BY DEF Shelf
<1>4. \A r \in T : [e \in T |-> s[e]][r] \in TextsFor(r)
  OBVIOUS
<1> QED
  BY <1>1, <1>2, <1>3, <1>4, RowsIntro

LEMMA FormsTexted ==
    ASSUME clicks \in Nat
    PROVE  /\ Blank \in TextedForm /\ Blank.row = NONE
           /\ \A r \in Row, text \in Text : text \in TextsFor(r) => FormOf(r, text) \in TextedForm /\ FormOf(r, text).row = r
  BY DEF TextedForm, Form, Blank, FormOf, TextsFor, Text

LEMMA FormIsSome == NONE \notin TextedForm
  BY RowsAssumption DEF TextedForm, Form, Text

LEMMA TypedForm ==
    ASSUME NEW v \in TextedView, v.form # NONE
    PROVE  /\ [v EXCEPT !.form.text = "typed"] \in TextedView
           /\ [v EXCEPT !.form.text = "typed"].form # NONE
           /\ [v EXCEPT !.form.text = "typed"].form.row = v.form.row
           /\ [v EXCEPT !.form.text = "typed"].form.fill = v.form.fill
<1>1. v.form \in TextedForm
  BY DEF TextedView
<1>2. /\ [v.form EXCEPT !.text = "typed"] \in TextedForm
      /\ [v.form EXCEPT !.text = "typed"].row = v.form.row
      /\ [v.form EXCEPT !.text = "typed"].fill = v.form.fill
  BY <1>1 DEF TextedForm, Form, Text, TextsFor
<1>3. [v EXCEPT !.form.text = "typed"] = [v EXCEPT !.form = [v.form EXCEPT !.text = "typed"]]
  OBVIOUS
<1>4. [v EXCEPT !.form = [v.form EXCEPT !.text = "typed"]].form = [v.form EXCEPT !.text = "typed"]
  BY DEF TextedView
<1>5. [v EXCEPT !.form = [v.form EXCEPT !.text = "typed"]] \in TextedView
  BY <1>2 DEF TextedView
<1> QED
  BY <1>2, <1>3, <1>4, <1>5, FormIsSome

-----------------------------------------------------------------------------
(* Requests. *)

LEMMA NumberTyped == IsFiniteSet(flight) => Number \in Nat \ {0}
<1> SUFFICES ASSUME IsFiniteSet(flight) PROVE Number \in Nat \ {0}
  OBVIOUS
<1> DEFINE N == Cardinality(flight)
           Used == {q.no : q \in flight}
<1>1. N \in Nat
  BY FS_CardinalityType
<1>2. IsFiniteSet(Used) /\ Cardinality(Used) <= N
  <2>1. [q \in flight |-> q.no] \in Surjection(flight, Used)
    BY DEF Surjection
  <2> QED
    BY <2>1, FS_Surjection
<1>3. \E n \in 1..(N + 1) : n \notin Used
  <2> SUFFICES ASSUME 1..(N + 1) \subseteq Used PROVE FALSE
    OBVIOUS
  <2>1. Cardinality(1..(N + 1)) = N + 1
    BY <1>1, FS_Interval
  <2>2. Cardinality(1..(N + 1)) <= Cardinality(Used)
    BY <1>2, FS_Subset
  <2>3. Cardinality(Used) \in Nat
    BY <1>2, FS_CardinalityType
  <2> QED
    BY <1>1, <1>2, <2>1, <2>2, <2>3
<1>4. \E n \in 1..(N + 1) : \A q \in flight : q.no # n
  BY <1>3
<1>5. Number \in 1..(N + 1)
  BY <1>4 DEF Number
<1> QED
  BY <1>1, <1>5

\* The request for one row, or for a list, is in good form, whatever it is for.
LEMMA RequestTexted ==
    ASSUME IsFiniteSet(flight), view \in TextedView, NEW op \in OpName, NEW verb \in Verb, NEW row \in Row \cup {NONE},
           NEW text \in Text, text \in TextsFor(row), NEW query \in Query, NEW fill \in Nat,
           op \in Reads => verb \notin Writes, op = "reveal" => verb = "get", verb = "get" => row \in Row,
           verb \in {"updateAll", "createOnce"} => row = NONE, verb \in TextVerbs \/ text = ""
    PROVE  Request(op, verb, row, text, query, fill) \in TextedAsk
<1>1. Number \in Nat \ {0}
  BY NumberTyped
<1>2. view.mounted \in Nat
  BY DEF TextedView
<1> DEFINE q == Request(op, verb, row, text, query, fill)
<1>3. /\ q.op = op /\ q.verb = verb /\ q.row = row /\ q.query = query /\ q.fill = fill
      /\ q.life = view.mounted /\ q.text = text /\ q.state = "sent" /\ q.got = Nothing
  BY DEF Request
<1>4. q \in AskFields
  BY <1>1, <1>2, NothingTexted DEF Request, AskFields
<1>5. q \in TextedAsk
  BY <1>3, <1>4, NothingTexted DEF TextedAsk, AskFields, AskRules
<1> QED
  BY <1>5

\* The numbering of requests and the count of clicks work.
Ready == IsFiniteSet(flight) /\ view \in TextedView
NoRowLoad(op) == page \notin RowPages \cup {"request"} \/ op \notin RowLoads

LEMMA GetListFits ==
    ASSUME Ready, NEW op \in OpName, op # "reveal", NoRowLoad(op), NEW query \in Query
    PROVE  /\ GetFiltered(op, query) \in AskOn(page) /\ GetFiltered(op, query).op = op
           /\ GetFiltered(op, query).verb = "list" /\ GetFiltered(op, query).query = query
           /\ GetFiltered(op, query).life = view.mounted /\ GetFiltered(op, query).row = NONE
           /\ GetList(op) \in AskOn(page) /\ GetList(op).op = op /\ GetList(op).verb = "list"
<1>1. /\ "list" \in Verb /\ "list" \notin Writes /\ "" \in Text /\ "" \in TextsFor(NONE) /\ "all" \in Query /\ 0 \in Nat
      /\ "list" \notin Creates
  BY DEF Verb, Writes, Creates, Text, TextsFor, Query
<1>2. ASSUME NEW any \in Query
      PROVE  /\ GetFiltered(op, any) \in TextedAsk /\ GetFiltered(op, any).op = op
             /\ GetFiltered(op, any).verb = "list" /\ GetFiltered(op, any).query = any
             /\ GetFiltered(op, any).life = view.mounted /\ GetFiltered(op, any).row = NONE
  <2>1. GetFiltered(op, any) \in TextedAsk
    BY <1>1, RequestTexted DEF GetFiltered, Ready
  <2> QED
    BY <2>1 DEF GetFiltered, Request
<1>3. ASSUME NEW any \in Query PROVE GetFiltered(op, any) \in AskOn(page)
  BY <1>1, <1>2 DEF AskOn, NoRowLoad
<1>4. GetList(op) = GetFiltered(op, "all")
  BY DEF GetList, GetFiltered
<1> QED
  BY <1>1, <1>2, <1>3, <1>4

LEMMA ListOfFits ==
    ASSUME Ready, NEW op \in OpName, op # "reveal", NoRowLoad(op), NEW r \in Row
    PROVE  ListOf(op, r) \in AskOn(page) /\ ListOf(op, r).op = op
<1>1. /\ "listOf" \in Verb /\ "listOf" \notin Writes /\ "" \in Text /\ "" \in TextsFor(r) /\ "all" \in Query /\ 0 \in Nat
      /\ "listOf" \notin Creates
  BY DEF Verb, Writes, Creates, Text, TextsFor, Query
<1>2. ListOf(op, r) \in TextedAsk /\ ListOf(op, r).op = op /\ ListOf(op, r).verb = "listOf"
  <2>1. ListOf(op, r) \in TextedAsk
    BY <1>1, RequestTexted DEF ListOf, Ready
  <2> QED
    BY <2>1 DEF ListOf, Request
<1> QED
  BY <1>1, <1>2 DEF AskOn, NoRowLoad

LEMMA GetRowFits ==
    ASSUME Ready, NEW op \in OpName, NEW r \in Row, NoRowLoad(op) \/ r = FirstRow
    PROVE  /\ GetRow(op, r) \in AskOn(page) /\ GetRow(op, r).op = op /\ GetRow(op, r).row = r
           /\ GetRow(op, r).verb = "get" /\ GetRow(op, r).life = view.mounted
<1>1. /\ "get" \in Verb /\ "get" \notin Writes /\ "" \in Text /\ "" \in TextsFor(r) /\ "all" \in Query /\ 0 \in Nat
      /\ "get" \notin Creates
  BY DEF Verb, Writes, Creates, Text, TextsFor, Query
<1>2. /\ GetRow(op, r) \in TextedAsk /\ GetRow(op, r).op = op /\ GetRow(op, r).verb = "get" /\ GetRow(op, r).row = r
      /\ GetRow(op, r).life = view.mounted
  <2>1. GetRow(op, r) \in TextedAsk
    BY <1>1, RequestTexted DEF GetRow, Ready
  <2> QED
    BY <2>1 DEF GetRow, Request
<1> QED
  BY <1>1, <1>2 DEF AskOn, NoRowLoad

LEMMA CreateFits ==
    ASSUME Ready, NEW op \in OpName \ Reads, NEW f \in TextedForm, f.row = NONE, page \in CreatePages
    PROVE  /\ Create(op, f) \in AskOn(page) /\ Create(op, f).op = op /\ Create(op, f).life = view.mounted
           /\ Create(op, f).fill = f.fill
           /\ CreateOnce(op, f) \in AskOn(page) /\ CreateOnce(op, f).op = op
<1>1. f.text \in Text /\ f.text \in TextsFor(NONE) /\ f.fill \in Nat
  BY DEF TextedForm, Form
<1>2. /\ {"create", "createOnce"} \subseteq Verb \cap TextVerbs /\ "all" \in Query /\ op # "reveal" /\ op \notin RowLoads
      /\ page # "profile"
  BY DEF CreatePages, TextVerbs, Verb, Query, Reads, RowLoads
<1>3. /\ Create(op, f) \in TextedAsk /\ Create(op, f).op = op /\ Create(op, f).life = view.mounted
      /\ Create(op, f).fill = f.fill
      /\ CreateOnce(op, f) \in TextedAsk /\ CreateOnce(op, f).op = op
  <2>1. Create(op, f) \in TextedAsk /\ CreateOnce(op, f) \in TextedAsk
    BY <1>1, <1>2, RequestTexted DEF Create, CreateOnce, Ready
  <2> QED
    BY <2>1 DEF Create, CreateOnce, Request
<1> QED
  BY <1>2, <1>3 DEF AskOn

LEMMA UpdateFits ==
    ASSUME Ready, NEW op \in OpName \ Reads, NEW f \in TextedForm, page # "profile" \/ f.row = FirstRow
    PROVE  Update(op, f) \in AskOn(page) /\ Update(op, f).op = op
<1>1. f.text \in Text /\ f.text \in TextsFor(f.row) /\ f.fill \in Nat /\ f.row \in Row \cup {NONE}
  BY DEF TextedForm, Form
<1>2. "update" \in Verb \cap TextVerbs /\ "all" \in Query /\ op # "reveal" /\ op \notin RowLoads /\ "update" \notin Creates
  BY DEF TextVerbs, Verb, Query, Reads, RowLoads, Creates
<1>3. Update(op, f) \in TextedAsk /\ Update(op, f).op = op /\ Update(op, f).verb = "update" /\ Update(op, f).row = f.row
  <2>1. Update(op, f) \in TextedAsk
    BY <1>1, <1>2, RequestTexted DEF Update, Ready
  <2> QED
    BY <2>1 DEF Update, Request
<1> QED
  BY <1>2, <1>3 DEF AskOn

LEMMA CreateOrUpdateFits ==
    ASSUME Ready, NEW op \in OpName \ Reads, NEW f \in TextedForm, page \in CreatePages
    PROVE  CreateOrUpdate(op, f) \in AskOn(page) /\ CreateOrUpdate(op, f).op = op
  BY CreateFits, UpdateFits DEF CreateOrUpdate, CreatePages

LEMMA UploadFits ==
    ASSUME Ready, NEW op \in OpName \ Reads, NEW f \in TextedForm
    PROVE  Upload(op, f) \in AskOn(page) /\ Upload(op, f).op = op /\ Upload(op, f).fill = f.fill
<1>1. "" \in Text /\ "" \in TextsFor(f.row) /\ f.fill \in Nat /\ f.row \in Row \cup {NONE}
  BY DEF TextedForm, Form, Text, TextsFor
<1>2. "upload" \in Verb /\ "all" \in Query /\ op # "reveal" /\ op \notin RowLoads /\ "upload" \notin Creates
  BY DEF Verb, Query, Reads, RowLoads, Creates
<1>3. Upload(op, f) \in TextedAsk /\ Upload(op, f).op = op /\ Upload(op, f).verb = "upload" /\ Upload(op, f).fill = f.fill
  <2>1. Upload(op, f) \in TextedAsk
    BY <1>1, <1>2, RequestTexted DEF Upload, Ready, Writes, Creates
  <2> QED
    BY <2>1 DEF Upload, Request
<1> QED
  BY <1>2, <1>3 DEF AskOn

LEMMA UpdateAllFits ==
    ASSUME Ready, NEW op \in OpName \ Reads
    PROVE  UpdateAll(op, "typed") \in AskOn(page) /\ UpdateAll(op, "typed").op = op
<1>1. "typed" \in Text /\ "typed" \in TextsFor(NONE) /\ 0 \in Nat
  BY DEF Text, TextsFor
<1>2. "updateAll" \in Verb \cap TextVerbs /\ "all" \in Query /\ op # "reveal" /\ op \notin RowLoads /\ "updateAll" \notin Creates
  BY DEF TextVerbs, Verb, Query, Reads, RowLoads, Creates
<1>3. UpdateAll(op, "typed") \in TextedAsk /\ UpdateAll(op, "typed").op = op /\ UpdateAll(op, "typed").verb = "updateAll"
  <2>1. UpdateAll(op, "typed") \in TextedAsk
    BY <1>1, <1>2, RequestTexted DEF UpdateAll, Ready
  <2> QED
    BY <2>1 DEF UpdateAll, Request
<1> QED
  BY <1>2, <1>3 DEF AskOn

LEMMA PatchFits ==
    ASSUME Ready, NEW op \in OpName \ Reads, NEW r \in Row
    PROVE  /\ Patch(op, r) \in AskOn(page) /\ Patch(op, r).op = op /\ Patch(op, r).life = view.mounted
           /\ Delete(op, r) \in AskOn(page) /\ Delete(op, r).op = op
<1>1. "" \in Text /\ "" \in TextsFor(r) /\ 0 \in Nat
  BY DEF Text, TextsFor
<1>2. /\ {"patch", "delete"} \subseteq Verb /\ "all" \in Query /\ op # "reveal" /\ op \notin RowLoads
      /\ "patch" \notin Creates /\ "delete" \notin Creates
  BY DEF Verb, Query, Reads, RowLoads, Creates
<1>3. /\ Patch(op, r) \in TextedAsk /\ Patch(op, r).op = op /\ Patch(op, r).verb = "patch" /\ Patch(op, r).life = view.mounted
      /\ Delete(op, r) \in TextedAsk /\ Delete(op, r).op = op /\ Delete(op, r).verb = "delete"
  <2>1. Patch(op, r) \in TextedAsk /\ Delete(op, r) \in TextedAsk
    BY <1>1, <1>2, RequestTexted DEF Patch, Delete, Ready
  <2> QED
    BY <2>1 DEF Patch, Delete, Request
<1> QED
  BY <1>2, <1>3 DEF AskOn

-----------------------------------------------------------------------------
(* What a turn of the event loop keeps. *)

\* A write that failed leaves the form and the edits, and only the server counts rows.
FailureKept == \A q \in flight \ flight' :
                  q.state = "failed" /\ q.verb \in Writes => view'.form = view.form /\ view'.edits = view.edits
Kept == FailureKept /\ page' = page /\ (World \/ ledger'.twice = ledger.twice)

LEMMA ClicksBounded == MaxClicks \in Nat
  BY RowsAssumption, Zenon DEF RowsAssumption

LEMMA ReadyFacts ==
    ASSUME IInv
    PROVE  /\ Ready /\ clicks \in Nat /\ view \in TextedView /\ view \in ViewOn(page) /\ page \in PageName
           /\ \A q \in flight : q \in AskOn(page) /\ q \in TextedAsk
<1>1. view \in ViewOn(page) /\ page \in PageName /\ IsFiniteSet(flight) /\ (\A q \in flight : q \in AskOn(page))
      /\ clicks \in 0..MaxClicks
  BY Zenon DEF IInv, Data
<1>2. view \in TextedView
  BY <1>1 DEF QuietPages, ViewOn
<1>3. \A q \in flight : q \in TextedAsk
  BY <1>1 DEF AskOn
<1>4. clicks \in Nat
  BY <1>1, ClicksBounded
<1> QED
  BY <1>1, <1>2, <1>3, <1>4 DEF Ready

LEMMA DoesStep ==
    ASSUME IInv, NEW v \in ViewOn(page), UserDoes(v), HeldAll(page, v, flight), RunsFit(page, v, flight)
    PROVE  IInv' /\ Kept
  BY DEF IInv, Data, Kept, FailureKept, UserDoes

LEMMA AsksStep ==
    ASSUME IInv, NEW v \in ViewOn(page), NEW qs \in SUBSET AskOn(page), IsFiniteSet(qs), UserAsksAll(v, qs),
           HeldAll(page, v, flight \cup qs), RunsFit(page, v, flight \cup qs)
    PROVE  IInv' /\ Kept
<1>1. IsFiniteSet(flight \cup qs)
  BY FS_Union DEF IInv, Data
<1>2. clicks' \in 0..MaxClicks
  BY ClicksBounded DEF IInv, Data, UserAsksAll
<1> QED
  BY <1>1, <1>2 DEF IInv, Data, Kept, FailureKept, UserAsksAll

LEMMA TimerStep ==
    ASSUME IInv, NEW v \in ViewOn(page), NEW qs \in SUBSET AskOn(page), IsFiniteSet(qs), TimerAsks(v, qs),
           HeldAll(page, v, flight \cup qs), RunsFit(page, v, flight \cup qs)
    PROVE  IInv' /\ Kept
<1>1. IsFiniteSet(flight \cup qs)
  BY FS_Union DEF IInv, Data
<1> QED
  BY <1>1 DEF IInv, Data, Kept, FailureKept, TimerAsks

LEMMA TakesAsksStep ==
    ASSUME IInv, NEW v \in ViewOn(page), NEW q \in flight, NEW qs \in SUBSET AskOn(page), IsFiniteSet(qs),
           TakesThenAsksAll(q, v, qs), q.state # "failed" \/ q.verb \notin Writes,
           HeldAll(page, v, (flight \ {q}) \cup qs), RunsFit(page, v, (flight \ {q}) \cup qs)
    PROVE  IInv' /\ Kept
<1>1. IsFiniteSet((flight \ {q}) \cup qs)
  BY FS_Union, FS_Subset DEF IInv, Data
<1> QED
  BY <1>1 DEF IInv, Data, Kept, FailureKept, TakesThenAsksAll

LEMMA TakesStep ==
    ASSUME IInv, NEW v \in ViewOn(page), NEW q \in flight, Takes(q, v),
           q.state = "failed" /\ q.verb \in Writes => v.form = view.form /\ v.edits = view.edits,
           HeldAll(page, v, flight \ {q}), RunsFit(page, v, flight \ {q})
    PROVE  IInv' /\ Kept
<1>1. IsFiniteSet(flight \ {q})
  BY FS_Subset DEF IInv, Data
<1> QED
  BY <1>1 DEF IInv, Data, Kept, FailureKept, Takes

LEMMA FailsStep ==
    ASSUME IInv, NEW v \in ViewOn(page), NEW q \in flight, Fails(q, v), v.form = view.form, v.edits = view.edits,
           HeldAll(page, v, flight \ {q}), RunsFit(page, v, flight \ {q})
    PROVE  IInv' /\ Kept
<1>1. IsFiniteSet(flight \ {q})
  BY FS_Subset DEF IInv, Data
<1>2. ledger' \in [made : SUBSET Nat, twice : BOOLEAN]
  BY DEF IInv, Data, Fails
<1> QED
  BY <1>1, <1>2 DEF IInv, Data, Kept, FailureKept, Fails

LEMMA RunsFree ==
    ASSUME NEW p, p \notin RunPages, NEW v, NEW fl
    PROVE  RunsFit(p, v, fl)
  BY DEF QuietPages, RunsFit, RunPages, BusyPages

-----------------------------------------------------------------------------
(* The server and the others who use it. *)

LEMMA NoneIsNoRow == NONE \notin Row /\ "waiting" \notin Row /\ FirstRow \in Row /\ SparePool \subseteq Row /\ IsFiniteSet(Row)
<1>1. /\ FirstRow \in Row \ SparePool /\ SparePool \subseteq Row /\ IsFiniteSet(Row) /\ {NONE, "waiting"} \cap Row = {}
  BY RowsAssumption, Zenon DEF RowsAssumption
<1> QED
  BY <1>1

\* A text that is no row's own may be put into any row.
LEMMA FreeText == ASSUME NEW t \in Text, t \in TextsFor(NONE) PROVE \A r : t \in TextsFor(r)
  BY NoneIsNoRow DEF TextsFor, Text

TextedShelf(s) == s \in Shelf /\ \A r \in Row : s[r] \in TextsFor(r) \cup {NONE}

LEMMA AfterTexted ==
    ASSUME TextedShelf(server), NEW q, q.text \in Text, q.row \in Row \cup {NONE}, q.text \in TextsFor(q.row),
           q.verb = "updateAll" => q.row = NONE
    PROVE  TextedShelf(After(q))
<1>1. /\ q.text \in Text /\ q.row \in Row \cup {NONE} /\ q.text \in TextsFor(q.row)
      /\ q.verb = "updateAll" => q.row = NONE
  OBVIOUS
<1>2. CASE q.verb = "updateAll"
  <2> DEFINE s == [r \in Row |-> IF server[r] = NONE THEN NONE ELSE q.text]
  <2>1. After(q) = s
    BY <1>2 DEF After
  <2>2. \A r \in Row : q.text \in TextsFor(r)
    BY <1>1, <1>2, FreeText
  <2>3. TextedShelf(s)
    BY <1>1, <2>2 DEF TextedShelf, Shelf
  <2> QED
    BY <2>1, <2>3
<1>3. CASE q.verb # "updateAll" /\ (q.row = NONE \/ q.verb \notin Writes \ {"patch"})
  BY <1>3 DEF After
<1>4. CASE q.verb # "updateAll" /\ ~(q.row = NONE \/ q.verb \notin Writes \ {"patch"})
  <2> DEFINE t == IF q.verb = "delete" THEN NONE ELSE q.text
  <2>1. After(q) = [server EXCEPT ![q.row] = t]
    BY <1>4 DEF After
  <2>2. q.row \in Row /\ t \in Text \cup {NONE} /\ t \in TextsFor(q.row) \cup {NONE}
    BY <1>1, <1>4
  <2>3. TextedShelf([server EXCEPT ![q.row] = t])
    BY <2>2 DEF TextedShelf, Shelf
  <2> QED
    BY <2>1, <2>3
<1> QED
  BY <1>2, <1>3, <1>4

LEMMA ContentTexted ==
    ASSUME NEW q, q.verb = "get" => q.row \in Row, NEW s, TextedShelf(s)
    PROVE  /\ Content(q, s) \in TextedRows
           /\ q.verb = "list" => DOMAIN Content(q, s) \subseteq Found(q.query)
           /\ q.verb = "get" /\ s[q.row] # NONE => DOMAIN Content(q, s) = {q.row}
<1>1. Found(q.query) \in SUBSET Row /\ {q.row} \cap Row \in SUBSET Row
  BY NoneIsNoRow DEF Found
<1>2. \A S \in SUBSET Row : There(s, S) \in TextedRows /\ DOMAIN There(s, S) = {r \in S : s[r] # NONE}
  BY ThereTexted DEF TextedShelf
<1> QED
  BY <1>1, <1>2, NothingTexted DEF Content

\* The request n stands for what has become of the request q.
Follows(n, q) == /\ n.op = q.op /\ n.verb = q.verb /\ n.query = q.query /\ n.fill = q.fill /\ n.life = q.life
                 /\ q.verb = "get" => n.row = q.row

LEMMA FollowsHeld ==
    ASSUME NEW q \in flight, NEW n, Follows(n, q), HeldAll(page, view, flight), RunsFit(page, view, flight),
           \A a \in flight : a \in TextedAsk
    PROVE  HeldAll(page, view, (flight \ {q}) \cup {n}) /\ RunsFit(page, view, (flight \ {q}) \cup {n})
<1> DEFINE fl == (flight \ {q}) \cup {n}
<1>1. q.op = "reveal" => q.verb = "get"
  BY DEF TextedAsk, AskFields, AskRules
<1>2. \A f : Holder(page, view, q, f) => Holder(page, view, n, f)
  BY DEF Holder, Follows
<1>3. \A f : (\E a \in flight : Holder(page, view, a, f)) => \E a \in fl : Holder(page, view, a, f)
  BY <1>2
<1>4. (\E a \in flight : a.op \in AtHolders(page)) => \E a \in fl : a.op \in AtHolders(page)
  BY DEF Follows
<1>5. \A r : (\E a \in flight : a.op = "reveal" /\ a.row = r) => \E a \in fl : a.op = "reveal" /\ a.row = r
  BY <1>1 DEF Follows
<1>6. HeldAll(page, view, fl)
  BY <1>3, <1>4, <1>5 DEF HeldAll
<1>7. RunsFit(page, view, fl)
  BY DEF RunsFit, Follows
<1> QED
  BY <1>6, <1>7

LEMMA FollowsStep ==
    ASSUME IInv, NEW q \in flight, NEW n \in AskOn(page), Follows(n, q), flight' = (flight \ {q}) \cup {n},
           q.state = "sent", page' = page, view' = view, clicks' = clicks, TextedShelf(server)',
           ledger' \in [made : SUBSET Nat, twice : BOOLEAN], World
    PROVE  IInv' /\ Kept
<1>1. HeldAll(page, view, flight') /\ RunsFit(page, view, flight')
  BY FollowsHeld, ReadyFacts DEF IInv
<1>2. IsFiniteSet(flight')
  <2>1. IsFiniteSet(flight) /\ IsFiniteSet({n})
    BY FS_Singleton DEF IInv, Data
  <2> QED
    BY <2>1, FS_Subset, FS_Union
<1>3. \A a \in flight' : a \in AskOn(page)
  BY DEF IInv, Data
<1>4. Kept
  BY DEF Kept, FailureKept
<1>5. Data'
  BY <1>2, <1>3 DEF IInv, Data, TextedShelf
<1> QED
  BY <1>1, <1>4, <1>5 DEF IInv

LEMMA ServeKeeps == ASSUME IInv, NEW q \in flight, Serve(q) PROVE IInv' /\ Kept
<1>1. PICK r \in Targets(q), state \in {"ok"} \cup (IF q.verb \in Writes THEN {"failed"} ELSE {}) :
        LET d == [q EXCEPT !.row = r] IN
         /\ server' = After(d)
         /\ flight' = (flight \ {q}) \cup
                        {[d EXCEPT !.state = state, !.got = IF state = "ok" THEN Content(d, After(d)) ELSE Nothing]}
  BY DEF Serve
<1> DEFINE d == [q EXCEPT !.row = r]
           got == IF state = "ok" THEN Content(d, After(d)) ELSE Nothing
           n == [d EXCEPT !.state = state, !.got = got]
<1>2. q \in AskOn(page) /\ q \in TextedAsk /\ q.state = "sent" /\ TextedShelf(server)
  BY ReadyFacts DEF Serve, IInv, Data, TextedShelf
<1>3. /\ r \in Row \cup {NONE} /\ q.text \in TextsFor(r)
      /\ q.verb \notin Creates => r = q.row
      /\ q.verb = "get" => r \in Row /\ server[r] # NONE
  <2>1. q.row \in Row \cup {NONE} /\ q.text \in TextsFor(q.row) /\ q.text \in Text /\ q.verb \in Verb
        /\ (q.verb = "get" => q.row \in Row)
    BY <1>2 DEF TextedAsk, AskFields, AskRules
  <2>2. q.verb \in Creates /\ q.row = NONE => \A e : q.text \in TextsFor(e)
    BY <2>1, FreeText
  <2>3. CASE q.verb = "create"
    BY <2>1, <2>2, <2>3, NoneIsNoRow DEF Targets, NewRow, FreeRows, Creates
  <2>4. CASE q.verb = "createOnce"
    <3>1. r \in Row \cup {NONE}
      BY <2>4, NoneIsNoRow DEF Targets, NewRow, FreeRows
    <3>2. q.text \in TextsFor(r)
      BY <1>2, <2>1, <2>2, <2>4 DEF TextedAsk, AskFields, AskRules, Creates
    <3> QED
      BY <2>4, <3>1, <3>2 DEF Creates
  <2>5. CASE q.verb \notin Creates
    BY <2>1, <2>5 DEF Targets, Creates
  <2> QED
    BY <2>3, <2>4, <2>5 DEF Creates
<1>4. d.row = r /\ d.op = q.op /\ d.verb = q.verb /\ d.text = q.text /\ d.query = q.query
  BY <1>2 DEF TextedAsk, AskFields
<1>5. TextedShelf(After(d))
  <2>1. q.text \in Text /\ (q.verb = "updateAll" => q.row = NONE)
    BY <1>2 DEF TextedAsk, AskFields, AskRules
  <2> QED
    BY <1>2, <1>3, <1>4, <2>1, AfterTexted DEF Creates
<1>6. /\ got \in TextedRows /\ (state # "ok" => got = Nothing)
      /\ state = "ok" /\ q.verb = "get" => DOMAIN got = {r}
      /\ q.verb = "list" => DOMAIN got \subseteq Found(q.query)
  <2>1. q.verb = "get" => d.row \in Row
    BY <1>3, <1>4
  <2>2. q.verb = "get" => After(d) = server
    BY <1>4 DEF After, Writes, Creates
  <2>3. /\ Content(d, After(d)) \in TextedRows
        /\ q.verb = "list" => DOMAIN Content(d, After(d)) \subseteq Found(q.query)
        /\ q.verb = "get" /\ After(d)[r] # NONE => DOMAIN Content(d, After(d)) = {r}
    BY <1>4, <1>5, <2>1, ContentTexted, Zenon
  <2> QED
    BY <1>3, <2>2, <2>3, NothingTexted
<1> HIDE DEF got
<1>7. /\ n.op = q.op /\ n.verb = q.verb /\ n.query = q.query /\ n.fill = q.fill /\ n.life = q.life /\ n.row = r
      /\ n.state = state /\ n.got = got /\ n.text = q.text /\ n \in AskFields
  <2>1. q \in AskFields
    BY <1>2 DEF TextedAsk, AskRules
  <2> QED
    BY <1>3, <1>6, <2>1 DEF AskFields
<1>8. n \in TextedAsk
  <2>1. state # "sent"
    OBVIOUS
  <2> QED
    <3>1. AskRules(n)
      <4>1. AskRules(q) /\ q.verb \in Verb
        BY <1>2 DEF TextedAsk, AskFields
      <4>2. n.text \in TextsFor(n.row) /\ (n.verb = "get" => n.row \in Row)
        BY <1>3, <1>7
      <4>3. n.verb = "updateAll" => n.row = NONE
        BY <1>3, <1>7, <4>1 DEF AskRules, Creates
      <4>4. /\ n.state # "ok" => n.got = Nothing
            /\ n.state = "ok" /\ n.verb = "get" => DOMAIN n.got = {n.row}
            /\ n.verb = "list" => DOMAIN n.got \subseteq Found(n.query)
        BY <1>6, <1>7
      <4>5. n.op \in Reads => n.verb \notin Writes
        BY <1>7, <4>1 DEF AskRules
      <4>6. n.op = "reveal" => n.verb = "get"
        BY <1>7, <4>1 DEF AskRules
      <4>7. n.state # "sent" /\ (n.verb \notin TextVerbs => n.text = "")
        BY <1>7, <2>1, <4>1 DEF AskRules
      <4> QED
        BY <4>2, <4>3, <4>4, <4>5, <4>6, <4>7 DEF AskRules
    <3> QED
      BY <1>7, <3>1 DEF TextedAsk
<1>9. n \in AskOn(page)
  BY <1>2, <1>3, <1>7, <1>8 DEF AskOn, Creates
<1>10. Follows(n, q)
  BY <1>3, <1>7 DEF Follows, Creates
<1>11. flight' = (flight \ {q}) \cup {n} /\ server' = After(d)
  BY <1>1 DEF got
<1>12. ledger' \in [made : SUBSET Nat, twice : BOOLEAN] /\ page' = page /\ view' = view /\ clicks' = clicks
  BY <1>2 DEF Serve, TextedAsk, AskFields, AskRules, IInv, Data
<1>13. TextedShelf(server)'
  BY <1>5, <1>11 DEF TextedShelf
<1>14. World
  BY DEF World
<1> QED
  BY <1>2, <1>9, <1>10, <1>11, <1>12, <1>13, <1>14, FollowsStep

LEMMA RefuseKeeps == ASSUME IInv, NEW q \in flight, Refuse(q) PROVE IInv' /\ Kept
<1> DEFINE n == [q EXCEPT !.state = "failed"]
<1>1. q \in AskOn(page) /\ q \in TextedAsk /\ q.state = "sent"
  BY ReadyFacts DEF Refuse
<1>2. /\ n.op = q.op /\ n.verb = q.verb /\ n.query = q.query /\ n.fill = q.fill /\ n.life = q.life /\ n.row = q.row
      /\ n.state = "failed" /\ n.got = q.got /\ n.text = q.text
  BY <1>1 DEF TextedAsk, AskFields, AskRules
<1>3. q.got = Nothing
  BY <1>1 DEF TextedAsk, AskFields, AskRules
<1>4. n \in TextedAsk
  BY <1>1, <1>2, <1>3 DEF TextedAsk, AskFields, AskRules
<1>5. n \in AskOn(page)
  BY <1>1, <1>2, <1>4 DEF AskOn
<1>6. Follows(n, q)
  BY <1>2 DEF Follows
<1>7. /\ flight' = (flight \ {q}) \cup {n} /\ page' = page /\ view' = view /\ clicks' = clicks
      /\ TextedShelf(server)' /\ ledger' \in [made : SUBSET Nat, twice : BOOLEAN] /\ World
  BY DEF Refuse, IInv, Data, TextedShelf, World
<1> QED
  BY <1>1, <1>5, <1>6, <1>7, FollowsStep

LEMMA ElsewhereKeeps == ASSUME IInv, Elsewhere PROVE IInv' /\ Kept
<1>1. TextedShelf(server)
  BY DEF IInv, Data, TextedShelf
<1>2. TextedShelf(server)'
  BY <1>1, NoneIsNoRow DEF Elsewhere, TextedShelf, Shelf, TextsFor, Text
<1>3. Data'
  BY <1>2 DEF IInv, Data, TextedShelf, Elsewhere
<1> QED
  BY <1>3 DEF IInv, Elsewhere, Kept, FailureKept, World

LEMMA WorldKeeps == ASSUME IInv, World PROVE IInv' /\ Kept
  BY ServeKeeps, RefuseKeeps, ElsewhereKeeps DEF World

-----------------------------------------------------------------------------
(* What waits for a request when the view becomes w, the requests gone are taken and those of  *)
(* more are sent.                                                          *)

StillHeld(w, gone, more) ==
    /\ w.mounted = view.mounted
    /\ \A f \in w.busy \ {"timer", "leaving"} :
          \/ f = "loading" /\ "timer" \in w.busy
          \/ \E q \in more : Holder(page, w, q, f)
          \/ /\ f \in view.busy /\ ~(f = "loading" /\ "timer" \in view.busy)
             /\ \A q \in gone : ~Holder(page, view, q, f)
             /\ page \in {"staff", "blog"} /\ f = "uploading" /\ view.form # NONE =>
                    w.form # NONE /\ w.form.fill = view.form.fill
    /\ w.at # NONE => \/ view.at # NONE /\ \A q \in gone : q.op \notin AtHolders(page)
                      \/ \E q \in more : q.op \in AtHolders(page)
    /\ \A r \in DOMAIN w.secrets : w.secrets[r] = "waiting" =>
          \/ /\ r \in DOMAIN view.secrets /\ view.secrets[r] = "waiting"
             /\ \A q \in gone : q.op # "reveal" \/ q.row # r
          \/ "reveal" \notin AtHolders(page) /\ \E q \in more : q.op = "reveal" /\ q.row = r

LEMMA StillHeldHolds ==
    ASSUME HeldAll(page, view, flight), NEW w, NEW gone, NEW more, StillHeld(w, gone, more)
    PROVE  HeldAll(page, w, (flight \ gone) \cup more)
<1> DEFINE fl == (flight \ gone) \cup more
<1>1. \A f : (\E q \in more : Holder(page, w, q, f)) => \E q \in fl : Holder(page, w, q, f)
  OBVIOUS
<1>2. ASSUME NEW f \in w.busy \ {"timer", "leaving"} PROVE (f = "loading" /\ "timer" \in w.busy) \/ \E q \in fl : Holder(page, w, q, f)
  <2>1. CASE (f = "loading" /\ "timer" \in w.busy) \/ \E q \in more : Holder(page, w, q, f)
    BY <2>1
  <2>2. CASE /\ f \in view.busy /\ ~(f = "loading" /\ "timer" \in view.busy)
             /\ \A q \in gone : ~Holder(page, view, q, f)
             /\ page \in {"staff", "blog"} /\ f = "uploading" /\ view.form # NONE =>
                    w.form # NONE /\ w.form.fill = view.form.fill
    <3>1. PICK q \in flight : Holder(page, view, q, f)
      BY <2>2 DEF HeldAll
    <3>2. q \in fl
      BY <2>2, <3>1
    <3>3. Holder(page, w, q, f)
      BY <2>2, <3>1 DEF Holder, StillHeld
    <3> QED
      BY <3>2, <3>3
  <2> QED
    BY <2>1, <2>2 DEF StillHeld
<1>3. w.at # NONE => \E q \in fl : q.op \in AtHolders(page)
  BY DEF StillHeld, HeldAll
<1>4. ASSUME NEW r \in DOMAIN w.secrets, w.secrets[r] = "waiting"
      PROVE  "reveal" \notin AtHolders(page) /\ \E q \in fl : q.op = "reveal" /\ q.row = r
  BY <1>4 DEF StillHeld, HeldAll
<1> QED
  BY <1>2, <1>3, <1>4 DEF HeldAll

LEMMA DoesKeeps ==
    ASSUME IInv, page \notin RunPages, NEW v \in ViewOn(page), UserDoes(v), StillHeld(v, {}, {})
    PROVE  IInv' /\ Kept
<1>1. HeldAll(page, v, (flight \ {}) \cup {})
  BY StillHeldHolds DEF IInv
<1>2. (flight \ {}) \cup {} = flight
  OBVIOUS
<1> QED
  BY <1>1, <1>2, RunsFree, DoesStep

LEMMA AsksAllKeeps ==
    ASSUME IInv, page \notin RunPages, NEW v \in ViewOn(page), NEW qs \in SUBSET AskOn(page), IsFiniteSet(qs),
           UserAsksAll(v, qs) \/ TimerAsks(v, qs), StillHeld(v, {}, qs)
    PROVE  IInv' /\ Kept
<1>1. HeldAll(page, v, (flight \ {}) \cup qs)
  BY StillHeldHolds DEF IInv
<1>2. (flight \ {}) \cup qs = flight \cup qs
  OBVIOUS
<1> QED
  BY <1>1, <1>2, RunsFree, AsksStep, TimerStep

LEMMA AsksKeeps ==
    ASSUME IInv, page \notin RunPages, NEW v \in ViewOn(page), NEW q \in AskOn(page), UserAsks(v, q), StillHeld(v, {}, {q})
    PROVE  IInv' /\ Kept
<1>1. IsFiniteSet({q})
  BY FS_Singleton
<1> QED
  BY <1>1, AsksAllKeeps DEF UserAsks

LEMMA TakesKeeps ==
    ASSUME IInv, page \notin RunPages, NEW v \in ViewOn(page), NEW q \in flight, Takes(q, v),
           q.state = "failed" /\ q.verb \in Writes => v.form = view.form /\ v.edits = view.edits, StillHeld(v, {q}, {})
    PROVE  IInv' /\ Kept
<1>1. HeldAll(page, v, (flight \ {q}) \cup {})
  BY StillHeldHolds DEF IInv
<1>2. (flight \ {q}) \cup {} = flight \ {q}
  OBVIOUS
<1> QED
  BY <1>1, <1>2, RunsFree, TakesStep

LEMMA FailsKeeps ==
    ASSUME IInv, page \notin RunPages, NEW v \in ViewOn(page), NEW q \in flight, Fails(q, v),
           v.form = view.form, v.edits = view.edits, StillHeld(v, {q}, {})
    PROVE  IInv' /\ Kept
<1>1. HeldAll(page, v, (flight \ {q}) \cup {})
  BY StillHeldHolds DEF IInv
<1>2. (flight \ {q}) \cup {} = flight \ {q}
  OBVIOUS
<1> QED
  BY <1>1, <1>2, RunsFree, FailsStep

LEMMA TakesAsksAllKeeps ==
    ASSUME IInv, page \notin RunPages, NEW v \in ViewOn(page), NEW q \in flight, NEW qs \in SUBSET AskOn(page),
           IsFiniteSet(qs), TakesThenAsksAll(q, v, qs), q.state # "failed" \/ q.verb \notin Writes, StillHeld(v, {q}, qs)
    PROVE  IInv' /\ Kept
<1>1. HeldAll(page, v, (flight \ {q}) \cup qs)
  BY StillHeldHolds DEF IInv
<1> QED
  BY <1>1, RunsFree, TakesAsksStep

LEMMA TakesAsksKeeps ==
    ASSUME IInv, page \notin RunPages, NEW v \in ViewOn(page), NEW q \in flight, NEW n \in AskOn(page),
           TakesThenAsks(q, v, n), q.state # "failed" \/ q.verb \notin Writes, StillHeld(v, {q}, {n})
    PROVE  IInv' /\ Kept
<1>1. IsFiniteSet({n})
  BY FS_Singleton
<1> QED
  BY <1>1, TakesAsksAllKeeps DEF TakesThenAsks

-----------------------------------------------------------------------------
(* Handlers that many pages share. *)

LEMMA AnswerFacts ==
    ASSUME IInv, NEW op, NEW q \in Answers(op)
    PROVE  /\ q \in flight /\ q.op = op /\ q \in TextedAsk /\ q.got \in TextedRows /\ q.state \in {"ok", "failed"}
           /\ q.row \in Row \cup {NONE} /\ q.text \in Text /\ q.text \in TextsFor(q.row) /\ q.query \in Query
           /\ q.state # "ok" => q.got = Nothing
           /\ op \in Reads => q.verb \notin Writes
           /\ q \in Good(op) => q.state = "ok"
           /\ q \in Bad(op) => q.state = "failed"
<1>1. q \in flight /\ q.op = op /\ q.state # "sent" /\ q \in TextedAsk
  BY ReadyFacts DEF Answers
<1>2. q.got \in TextedRows /\ q.state \in {"sent", "ok", "failed"} /\ q.row \in Row \cup {NONE} /\ q.text \in Text /\ q.query \in Query
  BY <1>1 DEF TextedAsk, AskFields
<1>3. AskRules(q)
  BY <1>1 DEF TextedAsk
<1> QED
  BY <1>1, <1>2, <1>3 DEF AskRules, Good, Bad

LEMMA GoodBad == ASSUME NEW op PROVE Good(op) \subseteq Answers(op) /\ Bad(op) \subseteq Answers(op)
  BY DEF Good, Bad

\* The pages whose view has no rule of its own.
SpecialPages == FormPages \cup BlankPages \cup BusyPages \cup {"bell", "content", "consultation"}

LEMMA PlainView ==
    ASSUME IInv, page \notin SpecialPages, NEW v \in TextedView, v.number = view.number
    PROVE  v \in ViewOn(page)
<1>1. view \in ViewOn(page)
  BY ReadyFacts
<1> QED
  BY <1>1 DEF QuietPages, ViewOn, SpecialPages, FormPages, BlankPages, RunPages, BusyPages, DetailPages, SearchPages

LEMMA FewRules == page \notin BusyPages => page \notin RunPages /\ page \notin {"request", "admin dashboard"}
  BY DEF QuietPages, BusyPages

LEMMA PlainIsNoRun == page \notin SpecialPages => page \notin RunPages
  BY DEF QuietPages, SpecialPages, BusyPages

LEMMA ListTakenFacts ==
    ASSUME NEW v \in TextedView, NEW q, q.got \in TextedRows
    PROVE  /\ ListTaken(q, v) \in TextedView
           /\ ListTaken(q, v).busy = v.busy \ {"loading"} /\ ListTaken(q, v).form = v.form /\ ListTaken(q, v).edits = v.edits
           /\ ListTaken(q, v).at = v.at /\ ListTaken(q, v).mounted = v.mounted /\ ListTaken(q, v).number = v.number
           /\ DOMAIN ListTaken(q, v).secrets = {}
           /\ ListTakenOrEmptied(q, v) \in TextedView
           /\ ListTakenOrEmptied(q, v).busy = v.busy \ {"loading"} /\ ListTakenOrEmptied(q, v).form = v.form
           /\ ListTakenOrEmptied(q, v).edits = v.edits /\ ListTakenOrEmptied(q, v).at = v.at
           /\ ListTakenOrEmptied(q, v).mounted = v.mounted /\ ListTakenOrEmptied(q, v).number = v.number
           /\ DOMAIN ListTakenOrEmptied(q, v).secrets = {}
<1> DEFINE w == [v EXCEPT !.rows = IF q.state = "ok" THEN q.got ELSE @, !.secrets = Nothing]
           x == [v EXCEPT !.rows = q.got, !.secrets = Nothing]
<1>1. w \in TextedView /\ x \in TextedView
  BY NoSecrets DEF TextedView
<1>2. /\ w.busy = v.busy /\ w.form = v.form /\ w.edits = v.edits /\ w.at = v.at /\ w.mounted = v.mounted
      /\ w.number = v.number /\ w.secrets = Nothing
      /\ x.busy = v.busy /\ x.form = v.form /\ x.edits = v.edits /\ x.at = v.at /\ x.mounted = v.mounted
      /\ x.number = v.number /\ x.secrets = Nothing
  BY DEF TextedView
<1> HIDE DEF w, x
<1>3. Free(w, {"loading"}) \in TextedView /\ Free(x, {"loading"}) \in TextedView
  <2>1. {"loading"} \in SUBSET Flag
    BY DEF Flag
  <2> QED
    BY <1>1, <2>1, BusyTyped
<1>4. ASSUME NEW u \in TextedView
      PROVE /\ Free(u, {"loading"}).busy = u.busy \ {"loading"} /\ Free(u, {"loading"}).form = u.form
            /\ Free(u, {"loading"}).edits = u.edits /\ Free(u, {"loading"}).at = u.at
            /\ Free(u, {"loading"}).mounted = u.mounted
            /\ Free(u, {"loading"}).number = u.number /\ Free(u, {"loading"}).secrets = u.secrets
  BY DEF Free, TextedView
<1>5. ListTaken(q, v) = Free(w, {"loading"}) /\ ListTakenOrEmptied(q, v) = Free(x, {"loading"})
  BY DEF ListTaken, ListTakenOrEmptied, w, x
<1> QED
  BY <1>1, <1>2, <1>3, <1>4, <1>5, NothingTexted

LEMMA LoadTakenKeeps ==
    ASSUME IInv, page \notin SpecialPages, page \notin {"admin dashboard", "client requests"}, LoadTaken
    PROVE  IInv' /\ Kept
<1>1. PICK q \in Answers("load") : Takes(q, ListTaken(q, view))
  BY DEF LoadTaken
<1> DEFINE w == ListTaken(q, view)
<1>2. q \in flight /\ q.op = "load" /\ q.got \in TextedRows /\ q.verb \notin Writes
  BY AnswerFacts DEF Reads
<1>3. /\ w \in TextedView /\ w.busy = view.busy \ {"loading"} /\ w.form = view.form /\ w.edits = view.edits
      /\ w.at = view.at /\ w.mounted = view.mounted /\ w.number = view.number /\ DOMAIN w.secrets = {}
  BY <1>2, ReadyFacts, ListTakenFacts
<1> HIDE DEF w
<1>4. StillHeld(w, {q}, {})
  BY <1>2, <1>3, ZenonT(30) DEF StillHeld, Holder, Holders, AtHolders
<1> QED
  BY <1>1, <1>2, <1>3, <1>4, PlainView, PlainIsNoRun, TakesKeeps DEF w

\* The view with some flags raised or lowered, and nothing else changed.
LEMMA FlagFacts ==
    ASSUME NEW v \in TextedView, NEW S \in SUBSET Flag
    PROVE  /\ Busy(v, S) \in TextedView /\ Busy(v, S).busy = v.busy \cup S /\ Busy(v, S).form = v.form
           /\ Busy(v, S).edits = v.edits /\ Busy(v, S).at = v.at /\ Busy(v, S).mounted = v.mounted
           /\ Busy(v, S).number = v.number /\ Busy(v, S).secrets = v.secrets /\ Busy(v, S).section = v.section
           /\ Busy(v, S).rows = v.rows /\ Busy(v, S).asked = v.asked
           /\ Free(v, S) \in TextedView /\ Free(v, S).busy = v.busy \ S /\ Free(v, S).form = v.form
           /\ Free(v, S).edits = v.edits /\ Free(v, S).at = v.at /\ Free(v, S).mounted = v.mounted
           /\ Free(v, S).number = v.number /\ Free(v, S).secrets = v.secrets /\ Free(v, S).section = v.section
           /\ Free(v, S).rows = v.rows /\ Free(v, S).asked = v.asked
<1>1. Busy(v, S) \in TextedView /\ Free(v, S) \in TextedView
  BY BusyTyped
<1> QED
  BY <1>1 DEF Busy, Free, TextedView

LEMMA FormFacts ==
    ASSUME NEW v \in TextedView, NEW f \in TextedForm \cup {NONE}
    PROVE  LET w == [v EXCEPT !.form = f] IN
           /\ w \in TextedView /\ w.busy = v.busy /\ w.form = f /\ w.edits = v.edits /\ w.at = v.at /\ w.mounted = v.mounted
           /\ w.number = v.number /\ w.secrets = v.secrets /\ w.section = v.section /\ w.rows = v.rows /\ w.asked = v.asked
  BY DEF TextedView

LEMMA FormShutFacts ==
    ASSUME NEW v \in TextedView
    PROVE  /\ FormShut(v) \in TextedView /\ FormShut(v).busy = v.busy \ {"uploading"} /\ FormShut(v).form = NONE
           /\ FormShut(v).edits = v.edits /\ FormShut(v).at = v.at /\ FormShut(v).mounted = v.mounted
           /\ FormShut(v).number = v.number /\ FormShut(v).secrets = v.secrets /\ FormShut(v).section = v.section
           /\ FormShut(v).rows = v.rows /\ FormShut(v).asked = v.asked
<1> DEFINE w == [v EXCEPT !.form = NONE]
<1>1. /\ w \in TextedView /\ w.busy = v.busy /\ w.form = NONE /\ w.edits = v.edits /\ w.at = v.at /\ w.mounted = v.mounted
      /\ w.number = v.number /\ w.secrets = v.secrets /\ w.section = v.section /\ w.rows = v.rows /\ w.asked = v.asked
  BY FormFacts
<1>2. FormShut(v) = Free(w, {"uploading"}) /\ {"uploading"} \in SUBSET Flag
  BY DEF FormShut, Flag
<1> HIDE DEF w
<1> QED
  BY <1>1, <1>2, FlagFacts

LEMMA FlagView ==
    ASSUME IInv, page \notin BusyPages, NEW S \in SUBSET Flag
    PROVE  Busy(view, S) \in ViewOn(page) /\ Free(view, S) \in ViewOn(page)
<1>1. view \in ViewOn(page) /\ view \in TextedView
  BY ReadyFacts
<1>2. /\ Busy(view, S) \in TextedView /\ Busy(view, S).form = view.form /\ Busy(view, S).number = view.number
      /\ Busy(view, S).section = view.section /\ Busy(view, S).rows = view.rows
      /\ Free(view, S) \in TextedView /\ Free(view, S).form = view.form /\ Free(view, S).number = view.number
      /\ Free(view, S).section = view.section /\ Free(view, S).rows = view.rows
  BY <1>1, FlagFacts
<1> QED
  BY <1>1, <1>2 DEF QuietPages, ViewOn, RunPages, BusyPages

\* What the user clicks and what changes but a flag.
LEMMA FlagClick ==
    ASSUME IInv, page \notin BusyPages, NEW f \in Flag, NEW q \in AskOn(page), UserAsks(Busy(view, {f}), q),
           q.op \in Holders(page, f), page \in {"staff", "blog"} /\ f = "uploading" => view.form # NONE /\ q.fill = view.form.fill
    PROVE  IInv' /\ Kept
<1> DEFINE w == Busy(view, {f})
<1>1. /\ w \in ViewOn(page) /\ w.busy = view.busy \cup {f} /\ w.form = view.form
      /\ w.at = view.at /\ w.mounted = view.mounted /\ w.secrets = view.secrets
  BY ReadyFacts, FlagFacts, FlagView
<1> HIDE DEF w
<1>2. StillHeld(w, {}, {q})
  <2>1. Holder(page, w, q, f)
    BY FewRules, <1>1 DEF Holder
  <2>2. /\ w.mounted = view.mounted
        /\ w.at # NONE => view.at # NONE
        /\ \A r \in DOMAIN w.secrets : w.secrets[r] = "waiting" =>
             r \in DOMAIN view.secrets /\ view.secrets[r] = "waiting"
    BY <1>1
  <2>3. ASSUME NEW g \in w.busy \ {"timer", "leaving"}
        PROVE  \/ g = "loading" /\ "timer" \in w.busy
               \/ Holder(page, w, q, g)
               \/ g \in view.busy /\ ~(g = "loading" /\ "timer" \in view.busy)
    BY <1>1, <2>1, <2>3
  <2> QED
    BY <1>1, <2>2, <2>3 DEF StillHeld
<1> QED
  BY FewRules, <1>1, <1>2, AsksKeeps DEF w

\* The view w waits for nothing that the view does not wait for.
Calmer(w) ==
    /\ w.mounted = view.mounted /\ w.busy \subseteq view.busy /\ ("timer" \in view.busy => "timer" \in w.busy)
    /\ w.at # NONE => view.at # NONE
    /\ \A r \in DOMAIN w.secrets : w.secrets[r] = "waiting" => r \in DOMAIN view.secrets /\ view.secrets[r] = "waiting"
    /\ page \in {"staff", "blog"} /\ "uploading" \in w.busy /\ view.form # NONE => w.form # NONE /\ w.form.fill = view.form.fill

\* The view w does not wait for the request q.
FreeOf(w, q) ==
    /\ \A f \in w.busy : q.op \notin Holders(page, f)
    /\ w.at # NONE => q.op \notin AtHolders(page)
    /\ q.op = "reveal" => \A r \in DOMAIN w.secrets : w.secrets[r] = "waiting" => r # q.row

LEMMA CalmDoes ==
    ASSUME IInv, page \notin RunPages, NEW w \in ViewOn(page), Calmer(w), UserDoes(w)
    PROVE  IInv' /\ Kept
<1>1. StillHeld(w, {}, {})
  BY DEF StillHeld, Calmer
<1> QED
  BY <1>1, DoesKeeps

LEMMA CalmTakes ==
    ASSUME IInv, page \notin RunPages, NEW q \in flight, NEW w \in ViewOn(page), Calmer(w), FreeOf(w, q),
           \/ Takes(q, w) /\ (q.state = "failed" /\ q.verb \in Writes => w.form = view.form /\ w.edits = view.edits)
           \/ Fails(q, w) /\ w.form = view.form /\ w.edits = view.edits
    PROVE  IInv' /\ Kept
<1>1. StillHeld(w, {q}, {})
  BY DEF StillHeld, Calmer, FreeOf, Holder
<1> QED
  BY <1>1, TakesKeeps, FailsKeeps

\* An answer that only lowers a flag.
LEMMA FlagAnswer ==
    ASSUME IInv, page \notin BusyPages, NEW q \in flight, NEW S \in SUBSET (Flag \ {"timer"}),
           \A g : q.op \in Holders(page, g) => g \in S, q.op \notin AtHolders(page) \cup {"reveal"},
           Takes(q, Free(view, S)) \/ Fails(q, Free(view, S))
    PROVE  IInv' /\ Kept
<1> DEFINE w == Free(view, S)
<1>1. /\ w \in ViewOn(page) /\ w.busy = view.busy \ S /\ w.form = view.form /\ w.edits = view.edits
      /\ w.at = view.at /\ w.mounted = view.mounted /\ w.secrets = view.secrets
  BY ReadyFacts, FlagFacts, FlagView
<1> HIDE DEF w
<1>2. Calmer(w) /\ FreeOf(w, q)
  BY <1>1 DEF Calmer, FreeOf
<1> QED
  BY FewRules, <1>1, <1>2, CalmTakes DEF w

\* An answer after which the list is asked for anew: by n, on which all that waits for the
\* answer goes on waiting.
LEMMA ReloadAnswer ==
    ASSUME IInv, page \notin BusyPages, NEW q \in flight, q.state = "ok" \/ q.verb \notin Writes,
           q.op # "reveal", NEW n \in AskOn(page), n.op \in Loads, \A g : q.op \in Holders(page, g) => n.op \in Holders(page, g),
           q.op \in AtHolders(page) => n.op \in AtHolders(page),
           page \in {"staff", "blog"} => q.op # "upload",
           TakesThenAsks(q, Busy(view, {"loading"}), n)
    PROVE  IInv' /\ Kept
<1> DEFINE w == Busy(view, {"loading"})
<1>1. /\ w \in ViewOn(page) /\ w.busy = view.busy \cup {"loading"} /\ w.form = view.form
      /\ w.at = view.at /\ w.mounted = view.mounted /\ w.secrets = view.secrets
  <2>1. {"loading"} \in SUBSET Flag
    BY DEF Flag
  <2> QED
    BY <2>1, ReadyFacts, FlagFacts, FlagView
<1> HIDE DEF w
<1>2. Holder(page, w, n, "loading")
  BY FewRules DEF Holder, Holders, CardFlags
<1>3. ASSUME NEW f, Holder(page, view, q, f) PROVE Holder(page, w, n, f)
  <2>1. n.op \in Holders(page, f) /\ ~(page \in {"staff", "blog"} /\ f = "uploading")
    BY <1>3 DEF Holder, Holders
  <2> QED
    BY FewRules, <2>1 DEF Holder
<1>4. StillHeld(w, {q}, {n})
  BY <1>1, <1>2, <1>3 DEF StillHeld
<1>5. q.state # "failed" \/ q.verb \notin Writes
  OBVIOUS
<1> QED
  BY FewRules, <1>1, <1>4, <1>5, TakesAsksKeeps DEF w

\* A click that changes nothing on the page.
LEMMA QuietClick ==
    ASSUME IInv, page \notin RunPages, NEW q \in AskOn(page), UserAsks(view, q)
    PROVE  IInv' /\ Kept
<1>1. StillHeld(view, {}, {q})
  BY DEF StillHeld, IInv, HeldAll
<1>2. view \in ViewOn(page)
  BY ReadyFacts
<1> QED
  BY <1>1, <1>2, AsksKeeps

LEMMA RowClick ==
    ASSUME IInv, page \notin RunPages, NEW r \in Row, NEW op \in {"delete", "toggle"},
           UserAsks(view, Delete(op, r)) \/ UserAsks(view, Patch(op, r))
    PROVE  IInv' /\ Kept
<1>1. op \in OpName \ Reads
  BY DEF Reads, OpName
<1>2. Delete(op, r) \in AskOn(page) /\ Patch(op, r) \in AskOn(page)
  BY <1>1, ReadyFacts, PatchFits
<1> QED
  BY <1>2, QuietClick

LEMMA RowsOfView == ASSUME IInv PROVE /\ DOMAIN view.rows \in SUBSET Row
                                      /\ \A r \in DOMAIN view.rows : view.rows[r] \in Text /\ view.rows[r] \in TextsFor(r)
<1>1. view.rows \in TextedRows
  BY ReadyFacts DEF TextedView
<1> QED
  BY <1>1, RowsElim

\* An answer that nothing on the page waits for, bad or not.
LEMMA QuietAnswer ==
    ASSUME IInv, page \notin RunPages, NEW q \in flight, \A f : q.op \notin Holders(page, f), q.op \notin AtHolders(page),
           q.op # "reveal", Takes(q, view) \/ Fails(q, view)
    PROVE  IInv' /\ Kept
<1>1. StillHeld(view, {q}, {})
  BY DEF StillHeld, IInv, HeldAll, Holder
<1>2. view \in ViewOn(page)
  BY ReadyFacts
<1> QED
  BY <1>1, <1>2, TakesKeeps, FailsKeeps

LEMMA ReloadsAfterKeeps ==
    ASSUME IInv, page \notin SpecialPages, NEW op \in {"delete", "toggle"}, op \notin AtHolders(page), page \notin RowPages,
           ReloadsAfter(op)
    PROVE  IInv' /\ Kept
<1>0. \A f : op \notin Holders(page, f)
  BY DEF Holders, Loads, RowPages
<1>1. ASSUME NEW q \in Good(op), TakesThenAsks(q, Busy(view, {"loading"}), GetList("load")) PROVE IInv' /\ Kept
  <2>1. q \in flight /\ q.op = op /\ q.state = "ok"
    BY <1>1, AnswerFacts, GoodBad
  <2>2. GetList("load") \in AskOn(page) /\ GetList("load").op = "load"
    <3>1. NoRowLoad("load") /\ "load" \in OpName /\ "all" \in Query
      BY DEF NoRowLoad, SpecialPages, BlankPages, Query, OpName
    <3> QED
      BY <3>1, ReadyFacts, GetListFits
  <2>3. page \notin BusyPages
    BY DEF SpecialPages
  <2> QED
    BY <1>0, <1>1, <2>1, <2>2, <2>3, ReloadAnswer DEF Loads
<1>2. ASSUME NEW q \in Bad(op), Fails(q, view) PROVE IInv' /\ Kept
  <2>1. q \in flight /\ q.op = op
    BY <1>2, AnswerFacts, GoodBad
  <2> QED
    BY <1>0, <1>2, <2>1, PlainIsNoRun, QuietAnswer
<1> QED
  BY <1>1, <1>2 DEF ReloadsAfter

LEMMA ListAsk ==
    ASSUME IInv, NEW op \in OpName, op # "reveal", NoRowLoad(op)
    PROVE  GetList(op) \in AskOn(page) /\ GetList(op).op = op
<1>1. "all" \in Query
  BY DEF Query
<1> QED
  BY <1>1, ReadyFacts, GetListFits

\* The pages with a table and a form over it.
EditorPages == {"staff", "testimonials", "services", "social links", "tax systems", "blog", "client credentials", "accountants"}

LEMMA EditorsArePlain ==
    page \in EditorPages =>
        /\ page \notin SpecialPages /\ page \notin BusyPages /\ page \in CreatePages
        /\ page \notin RowPages /\ page \notin {"admin dashboard", "client requests"}
        /\ \A f : Holders(page, f) \cap {"save", "saved"} # {} => f \in {"loading", "saving"}
        /\ {"save", "saved"} \subseteq Holders(page, "saving") /\ AtHolders(page) \cap {"save", "saved"} = {}
        /\ \A f : "save" \in Holders(page, f) => f = "saving"
<1> SUFFICES ASSUME page \in EditorPages
             PROVE  /\ page \notin SpecialPages /\ page \notin BusyPages /\ page \in CreatePages
                    /\ page \notin RowPages /\ page \notin {"admin dashboard", "client requests"}
                    /\ \A f : Holders(page, f) \cap {"save", "saved"} # {} => f \in {"loading", "saving"}
                    /\ {"save", "saved"} \subseteq Holders(page, "saving") /\ AtHolders(page) \cap {"save", "saved"} = {}
                    /\ \A f : "save" \in Holders(page, f) => f = "saving"
  OBVIOUS
<1>1. /\ page \notin SpecialPages /\ page \notin BusyPages /\ page \in CreatePages
      /\ page \notin RowPages /\ page \notin {"admin dashboard", "client requests"}
  BY DEF QuietPages, EditorPages, SpecialPages, FormPages, BlankPages, RunPages, BusyPages, DetailPages, SearchPages, CreatePages, RowPages
<1>2. page \notin {"consultation", "statistics"}
  BY DEF EditorPages
<1>3. {"save", "saved"} \subseteq Holders(page, "saving")
  BY <1>2 DEF Holders
<1>4. \A f : "save" \in Holders(page, f) => f = "saving"
  BY <1>2 DEF Holders, Loads
<1>5. \A f : "saved" \in Holders(page, f) => f \in {"loading", "saving"}
  BY <1>2 DEF Holders
<1>6. AtHolders(page) \cap {"save", "saved"} = {}
  BY <1>2 DEF AtHolders
<1> QED
  BY <1>1, <1>3, <1>4, <1>5, <1>6

LEMMA SaveClick ==
    ASSUME IInv, page \in EditorPages, view.form # NONE, UserAsks(Busy(view, {"saving"}), CreateOrUpdate("save", view.form))
    PROVE  IInv' /\ Kept
<1>1. view.form \in TextedForm
  BY ReadyFacts DEF TextedView
<1>2. "save" \in OpName \ Reads /\ "saving" \in Flag
  BY DEF OpName, Reads, Flag
<1>3. CreateOrUpdate("save", view.form) \in AskOn(page) /\ CreateOrUpdate("save", view.form).op = "save"
  BY <1>1, <1>2, ReadyFacts, EditorsArePlain, CreateOrUpdateFits
<1> QED
  BY <1>2, <1>3, EditorsArePlain, FlagClick

LEMMA SavedTaken ==
    ASSUME IInv, page \in EditorPages, NEW q \in Answers("saved"),
           \/ Takes(q, Free(FormShut(ListTaken(q, view)), {"saving"}))
           \/ Takes(q, Free(ListTaken(q, view), {"saving"}))
    PROVE  IInv' /\ Kept
<1> DEFINE u == ListTaken(q, view)
           x == Free(u, {"saving"})
           y == Free(FormShut(u), {"saving"})
<1>1. q \in flight /\ q.op = "saved" /\ q.got \in TextedRows /\ q.verb \notin Writes
  BY AnswerFacts DEF Reads
<1>2. /\ u \in TextedView /\ u.busy = view.busy \ {"loading"} /\ u.form = view.form /\ u.edits = view.edits
      /\ u.at = view.at /\ u.mounted = view.mounted /\ u.number = view.number /\ DOMAIN u.secrets = {}
  BY <1>1, ReadyFacts, ListTakenFacts
<1>3. {"saving"} \in SUBSET Flag
  BY DEF Flag
<1>4. ASSUME NEW w \in {x, y}
      PROVE  /\ w \in TextedView /\ w.busy \subseteq view.busy \ {"loading", "saving"} /\ w.at = view.at
             /\ w.mounted = view.mounted /\ w.number = view.number /\ DOMAIN w.secrets = {}
             /\ "timer" \in view.busy => "timer" \in w.busy
             /\ w.form = view.form \/ "uploading" \notin w.busy
  <2> HIDE DEF u
  <2>1. CASE w = x
    BY <1>2, <1>3, <2>1, FlagFacts
  <2>2. CASE w = y
    <3>1. /\ FormShut(u) \in TextedView /\ FormShut(u).busy = u.busy \ {"uploading"}
          /\ FormShut(u).at = u.at /\ FormShut(u).mounted = u.mounted
          /\ FormShut(u).number = u.number /\ FormShut(u).secrets = u.secrets
      BY <1>2, FormShutFacts
    <3> QED
      BY <1>2, <1>3, <2>2, <3>1, FlagFacts
  <2> QED
    BY <1>4, <2>1, <2>2
<1>5. PICK w \in {x, y} : Takes(q, w)
  OBVIOUS
<1> HIDE DEF x, y
<1>6. w \in ViewOn(page)
  BY <1>4, PlainView, EditorsArePlain
<1>7. Calmer(w) /\ FreeOf(w, q)
  BY <1>1, <1>4, EditorsArePlain DEF Calmer, FreeOf
<1> QED
  BY <1>1, <1>5, <1>6, <1>7, EditorsArePlain, FewRules, CalmTakes

LEMMA SaveFails ==
    ASSUME IInv, page \in EditorPages, NEW q \in Bad("save"), Fails(q, Free(view, {"saving"}))
    PROVE  IInv' /\ Kept
<1>1. q \in flight /\ q.op = "save"
  BY AnswerFacts, GoodBad
<1>2. {"saving"} \in SUBSET (Flag \ {"timer"}) /\ page \notin BusyPages
  BY EditorsArePlain DEF Flag
<1>3. (\A g : q.op \in Holders(page, g) => g \in {"saving"}) /\ q.op \notin AtHolders(page) \cup {"reveal"}
  BY <1>1, EditorsArePlain
<1> QED
  BY <1>1, <1>2, <1>3, FlagAnswer

LEMMA SavesReloadsClosesKeeps ==
    ASSUME IInv, page \in EditorPages, SavesReloadsCloses(view.form # NONE)
    PROVE  IInv' /\ Kept
<1>1. ASSUME NEW q \in Good("save"), TakesThenAsks(q, Busy(view, {"loading"}), GetList("saved")) PROVE IInv' /\ Kept
  <2>1. q \in flight /\ q.op = "save" /\ q.state = "ok"
    BY <1>1, AnswerFacts, GoodBad
  <2>2. GetList("saved") \in AskOn(page) /\ GetList("saved").op = "saved"
    BY EditorsArePlain, FewRules, ListAsk DEF OpName, NoRowLoad
  <2> QED
    BY <1>1, <2>1, <2>2, EditorsArePlain, ReloadAnswer DEF Loads
<1> QED
  BY <1>1, SaveClick, SavedTaken, SaveFails DEF SavesReloadsCloses

LEMMA SavesClosesReloadsKeeps ==
    ASSUME IInv, page \in EditorPages, SavesClosesReloads(view.form # NONE)
    PROVE  IInv' /\ Kept
<1>1. ASSUME NEW q \in Good("save"), TakesThenAsks(q, Busy(FormShut(view), {"loading"}), GetList("saved"))
      PROVE IInv' /\ Kept
  <2> DEFINE w == Busy(FormShut(view), {"loading"})
             n == GetList("saved")
  <2>1. q \in flight /\ q.op = "save" /\ q.state = "ok"
    BY <1>1, AnswerFacts, GoodBad
  <2>2. n \in AskOn(page) /\ n.op = "saved"
    BY FewRules, EditorsArePlain, ListAsk DEF OpName, NoRowLoad
  <2>3. /\ FormShut(view) \in TextedView /\ FormShut(view).busy = view.busy \ {"uploading"}
        /\ FormShut(view).at = view.at /\ FormShut(view).mounted = view.mounted
        /\ FormShut(view).number = view.number /\ FormShut(view).secrets = view.secrets
    BY ReadyFacts, FormShutFacts
  <2>4. {"loading"} \in SUBSET Flag
    BY DEF Flag
  <2>5. /\ w \in TextedView /\ w.busy = (view.busy \ {"uploading"}) \cup {"loading"}
        /\ w.at = view.at /\ w.mounted = view.mounted /\ w.number = view.number /\ w.secrets = view.secrets
    BY <2>3, <2>4, FlagFacts
  <2> HIDE DEF w, n
  <2>6. Holder(page, w, n, "loading") /\ Holder(page, w, n, "saving")
    BY FewRules, <2>2, EditorsArePlain DEF Holder, Holders, Loads
  <2>7. \A f : Holder(page, view, q, f) => f = "saving"
    BY <2>1, EditorsArePlain DEF Holder
  <2>8. StillHeld(w, {q}, {n})
    <3>1. q.op \notin AtHolders(page) /\ q.op # "reveal"
      BY <2>1, EditorsArePlain
    <3> QED
      BY <2>5, <2>6, <2>7, <3>1 DEF StillHeld
  <2>9. w \in ViewOn(page)
    BY <2>5, PlainView, EditorsArePlain
  <2> QED
    BY FewRules, <1>1, <2>1, <2>2, <2>8, <2>9, EditorsArePlain, TakesAsksKeeps DEF w, n
<1> QED
  BY <1>1, SaveClick, SavedTaken, SaveFails DEF SavesClosesReloads

\* Opening, typing into and closing a form.
LEMMA FormView ==
    ASSUME IInv, page \notin SpecialPages, NEW f \in TextedForm \cup {NONE}
    PROVE  [view EXCEPT !.form = f] \in ViewOn(page)
<1> DEFINE w == [view EXCEPT !.form = f]
<1>1. w \in TextedView /\ w.number = view.number
  BY ReadyFacts, FormFacts
<1> HIDE DEF w
<1>2. w \in ViewOn(page)
  BY <1>1, PlainView
<1> QED
  BY <1>2 DEF w

LEMMA FormOpensKeeps ==
    ASSUME IInv, page \notin SpecialPages, view.form = NONE, NEW f \in TextedForm, FormOpens(f)
    PROVE  IInv' /\ Kept
<1> DEFINE w == [view EXCEPT !.form = f]
<1>1. /\ w.busy = view.busy /\ w.at = view.at /\ w.mounted = view.mounted /\ w.secrets = view.secrets
  BY ReadyFacts, FormFacts
<1>2. w \in ViewOn(page)
  BY FormView
<1> HIDE DEF w
<1>3. Calmer(w)
  BY <1>1 DEF Calmer
<1> QED
  BY <1>2, <1>3, PlainIsNoRun, CalmDoes DEF w, FormOpens

LEMMA FormCloseKeeps == ASSUME IInv, page \notin SpecialPages, FormCloses PROVE IInv' /\ Kept
<1>1. /\ FormShut(view) \in TextedView /\ FormShut(view).busy = view.busy \ {"uploading"} /\ FormShut(view).at = view.at
      /\ FormShut(view).mounted = view.mounted /\ FormShut(view).number = view.number
      /\ FormShut(view).secrets = view.secrets
  BY ReadyFacts, FormShutFacts
<1>2. FormShut(view) \in ViewOn(page)
  BY <1>1, PlainView
<1>3. Calmer(FormShut(view))
  BY <1>1 DEF Calmer
<1> QED
  BY <1>2, <1>3, PlainIsNoRun, CalmDoes DEF FormCloses

LEMMA FormModalKeeps ==
    ASSUME IInv, page \notin SpecialPages,
           \/ view.form = NONE /\ FormOpens(Blank)
           \/ \E r \in DOMAIN view.rows : view.form = NONE /\ FormOpens(FormOf(r, view.rows[r]))
           \/ FormCloses
    PROVE  IInv' /\ Kept
<1>1. /\ Blank \in TextedForm
      /\ \A r \in Row, text \in Text : text \in TextsFor(r) => FormOf(r, text) \in TextedForm
  BY FormsTexted, ReadyFacts
<1>2. \A r \in DOMAIN view.rows : FormOf(r, view.rows[r]) \in TextedForm
  BY <1>1, RowsOfView
<1> QED
  BY <1>1, <1>2, FormOpensKeeps, FormCloseKeeps

LEMMA TypingFacts ==
    ASSUME IInv, view.form # NONE
    PROVE  LET w == [view EXCEPT !.form.text = "typed"] IN
           /\ w \in TextedView /\ w.form # NONE /\ w.form.row = view.form.row /\ w.form.fill = view.form.fill
           /\ w.busy = view.busy /\ w.at = view.at /\ w.mounted = view.mounted /\ w.number = view.number
           /\ w.secrets = view.secrets /\ w.rows = view.rows /\ w.section = view.section /\ w.asked = view.asked
           /\ w.edits = view.edits
  BY ReadyFacts, TypedForm DEF TextedView

LEMMA TypingKeeps ==
    ASSUME IInv, page \notin RunPages \cup {"consultation"}, view.form # NONE, Typing PROVE IInv' /\ Kept
<1> DEFINE w == [view EXCEPT !.form.text = "typed"]
<1>1. /\ w \in TextedView /\ w.form # NONE /\ w.form.row = view.form.row /\ w.form.fill = view.form.fill
      /\ w.busy = view.busy /\ w.at = view.at /\ w.mounted = view.mounted /\ w.number = view.number
      /\ w.secrets = view.secrets /\ w.rows = view.rows /\ w.section = view.section
  BY TypingFacts
<1> HIDE DEF w
<1>2. w \in ViewOn(page)
  BY <1>1, ReadyFacts DEF QuietPages, ViewOn, RunPages, BusyPages
<1>3. Calmer(w)
  BY <1>1 DEF Calmer
<1> QED
  BY <1>1, <1>2, <1>3, CalmDoes DEF w, Typing

LEMMA SearchKeeps ==
    ASSUME IInv, page \notin SpecialPages \/ page = "portal documents", Search PROVE IInv' /\ Kept
<1>1. PICK query \in Query : UserDoes([view EXCEPT !.asked = query])
  BY DEF Search
<1> DEFINE w == [view EXCEPT !.asked = query]
<1>2. /\ w \in TextedView /\ w.form = view.form /\ w.busy = view.busy /\ w.at = view.at /\ w.mounted = view.mounted
      /\ w.number = view.number /\ w.secrets = view.secrets
  BY ReadyFacts DEF TextedView
<1> HIDE DEF w
<1>3. w \in ViewOn(page)
  <2>1. CASE page \notin SpecialPages
    BY <1>2, <2>1, PlainView
  <2>2. CASE page = "portal documents"
    BY <1>2, <2>2, ReadyFacts DEF QuietPages, ViewOn, DetailPages, SearchPages
  <2> QED
    BY <2>1, <2>2
<1>4. Calmer(w) /\ page \notin RunPages
  BY <1>2, PlainIsNoRun DEF QuietPages, Calmer, RunPages, BusyPages, SearchPages, DetailPages
<1> QED
  BY <1>1, <1>3, <1>4, CalmDoes DEF w

-----------------------------------------------------------------------------
(* The admin's pages that keep the content of the public site. *)

EditorTurn ==
    \/ LoadTaken
    \/ view.form = NONE /\ FormOpens(Blank)
    \/ \E r \in DOMAIN view.rows : view.form = NONE /\ FormOpens(FormOf(r, view.rows[r]))
    \/ FormCloses
    \/ view.form # NONE /\ Typing
    \/ \E r \in DOMAIN view.rows : UserAsks(view, Delete("delete", r)) \/ UserAsks(view, Patch("toggle", r))
    \/ ReloadsAfter("delete")
    \/ page \notin {"blog", "accountants"} /\ ReloadsAfter("toggle")
    \/ UserAsks(Busy(view, {"loading"}), GetList("load"))
EditorStep == EditorTurn \/ SavesReloadsCloses(view.form # NONE) \/ SavesClosesReloads(view.form # NONE)

LEMMA LoadClick ==
    ASSUME IInv, page \notin BusyPages, NEW q \in AskOn(page), q.op \in Loads,
           UserAsks(Busy(view, {"loading"}), q)
    PROVE  IInv' /\ Kept
<1>1. q.op \in Holders(page, "loading") /\ "loading" \in Flag
  BY DEF Holders, Flag
<1> QED
  BY <1>1, FlagClick

LEMMA ListClick ==
    ASSUME IInv, page \notin BusyPages \cup RowPages, UserAsks(Busy(view, {"loading"}), GetList("load"))
    PROVE  IInv' /\ Kept
<1>1. GetList("load") \in AskOn(page) /\ GetList("load").op = "load"
  BY FewRules, ListAsk DEF OpName, NoRowLoad
<1> QED
  BY <1>1, LoadClick DEF Loads

LEMMA EditorStepKeeps == ASSUME IInv, page \in EditorPages, EditorStep PROVE IInv' /\ Kept
<1> USE EditorsArePlain
<1>1. CASE LoadTaken
  BY <1>1, LoadTakenKeeps
<1>2. CASE \/ view.form = NONE /\ FormOpens(Blank)
           \/ \E r \in DOMAIN view.rows : view.form = NONE /\ FormOpens(FormOf(r, view.rows[r]))
           \/ FormCloses
  BY <1>2, FormModalKeeps
<1>3. CASE view.form # NONE /\ Typing
  <2>1. page \notin RunPages \cup {"consultation"}
    BY DEF QuietPages, EditorPages, RunPages, BusyPages, DetailPages, SearchPages
  <2> QED
    BY <1>3, <2>1, TypingKeeps
<1>4. CASE SavesReloadsCloses(view.form # NONE) \/ SavesClosesReloads(view.form # NONE)
  BY <1>4, SavesReloadsClosesKeeps, SavesClosesReloadsKeeps
<1>5. CASE \E r \in DOMAIN view.rows : UserAsks(view, Delete("delete", r)) \/ UserAsks(view, Patch("toggle", r))
  <2>1. PICK r \in DOMAIN view.rows : UserAsks(view, Delete("delete", r)) \/ UserAsks(view, Patch("toggle", r))
    BY <1>5
  <2>2. r \in Row
    BY RowsOfView
  <2> QED
    BY FewRules, <2>1, <2>2, RowClick
<1>6. CASE ReloadsAfter("delete")
  <2>1. "delete" \notin AtHolders(page)
    BY DEF AtHolders, EditorPages
  <2> QED
    BY <1>6, <2>1, ReloadsAfterKeeps
<1>7. CASE page \notin {"blog", "accountants"} /\ ReloadsAfter("toggle")
  <2>1. "toggle" \notin AtHolders(page)
    BY <1>7 DEF AtHolders, EditorPages
  <2> QED
    BY <1>7, <2>1, ReloadsAfterKeeps
<1>8. CASE UserAsks(Busy(view, {"loading"}), GetList("load"))
  BY <1>8, ListClick
<1> QED
  BY <1>1, <1>2, <1>3, <1>4, <1>5, <1>6, <1>7, <1>8 DEF EditorStep, EditorTurn

LEMMA ImageUploadsKeeps ==
    ASSUME IInv, page \in {"staff", "blog"}, NEW disabled, ImageUploads(view.form # NONE, disabled)
    PROVE  IInv' /\ Kept
<1>0. page \notin SpecialPages /\ page \notin BusyPages
  BY EditorsArePlain DEF EditorPages
<1>1. CASE view.form # NONE /\ UserAsks(Busy(view, {"uploading"}), Upload("upload", view.form))
  <2>1. view.form \in TextedForm
    BY <1>1, ReadyFacts DEF TextedView
  <2>2. "upload" \in OpName \ Reads /\ "uploading" \in Flag /\ "upload" \in Holders(page, "uploading")
    BY DEF OpName, Reads, Flag, Holders
  <2>3. /\ Upload("upload", view.form) \in AskOn(page) /\ Upload("upload", view.form).op = "upload"
        /\ Upload("upload", view.form).fill = view.form.fill
    BY <2>1, <2>2, ReadyFacts, UploadFits
  <2> QED
    BY <1>0, <1>1, <2>2, <2>3, FlagClick
<1>2. ASSUME NEW q \in Answers("upload"),
             LET own == view.form # NONE /\ view.form.fill = q.fill
                 v == IF own THEN Free(view, {"uploading"}) ELSE view IN
             Takes(q, IF q.state = "ok" /\ view.form # NONE THEN [v EXCEPT !.form.text = "typed"] ELSE v)
      PROVE  IInv' /\ Kept
  <2> DEFINE own == view.form # NONE /\ view.form.fill = q.fill
             v == IF own THEN Free(view, {"uploading"}) ELSE view
             w == IF q.state = "ok" /\ view.form # NONE THEN [v EXCEPT !.form.text = "typed"] ELSE v
  <2>1. q \in flight /\ q.op = "upload" /\ q.state \in {"ok", "failed"}
    BY AnswerFacts
  <2>2. /\ v \in TextedView /\ v.form = view.form /\ v.at = view.at /\ v.mounted = view.mounted /\ v.number = view.number
        /\ v.secrets = view.secrets /\ v.edits = view.edits
        /\ v.busy = IF own THEN view.busy \ {"uploading"} ELSE view.busy
    <3>1. {"uploading"} \in SUBSET Flag
      BY DEF Flag
    <3> QED
      BY <3>1, ReadyFacts, FlagFacts, ZenonT(30)
  <2> HIDE DEF v
  <2>3. CASE q.state = "ok" /\ view.form # NONE
    <3> DEFINE t == [v EXCEPT !.form.text = "typed"]
    <3>1. t \in TextedView /\ t.form # NONE /\ t.form.fill = view.form.fill
      BY <2>2, <2>3, TypedForm
    <3>2. t.at = v.at /\ t.mounted = v.mounted /\ t.number = v.number /\ t.secrets = v.secrets /\ t.busy = v.busy
      BY <2>2 DEF TextedView
    <3> HIDE DEF t
    <3>3. \A f : "upload" \in Holders(page, f) => f = "uploading"
      BY DEF Holders, Loads
    <3>4. "upload" \notin AtHolders(page)
      BY DEF AtHolders
    <3>5. StillHeld(t, {q}, {})
      BY <2>1, <2>2, <2>3, <3>1, <3>2, <3>3, <3>4 DEF StillHeld, Holder
    <3>6. t \in ViewOn(page)
      BY <1>0, <2>2, <3>1, <3>2, PlainView
    <3>7. Takes(q, t)
      BY <1>2, <2>3 DEF t, v
    <3> QED
      BY FewRules, <1>0, <2>1, <2>3, <3>5, <3>6, <3>7, TakesKeeps
  <2>4. CASE ~(q.state = "ok" /\ view.form # NONE)
    <3>1. \A f : "upload" \in Holders(page, f) => f = "uploading"
      BY DEF Holders, Loads
    <3>2. "upload" \notin AtHolders(page)
      BY DEF AtHolders
    <3>3. StillHeld(v, {q}, {})
      BY <2>1, <2>2, <2>4, <3>1, <3>2 DEF StillHeld, Holder
    <3>4. v \in ViewOn(page)
      BY <1>0, <2>2, PlainView
    <3>5. Takes(q, v)
      BY <1>2, <2>4 DEF v
    <3> QED
      BY FewRules, <1>0, <2>1, <2>2, <3>3, <3>4, <3>5, TakesKeeps
  <2> QED
    BY <2>3, <2>4
<1> QED
  BY <1>1, <1>2 DEF ImageUploads

LEMMA StaffKeeps == ASSUME IInv, page = "staff", StaffNext PROVE IInv' /\ Kept
<1>1. EditorStep \/ ImageUploads(view.form # NONE, Has("saving"))
  BY DEF StaffNext, EditorStep, EditorTurn, StaffModal, StaffUpdateForm, StaffSave, StaffDelete, StaffToggle, StaffTable, StaffForm,
         StaffEmpty, StaffToForm, SavesReloadsCloses
<1> QED
  BY <1>1, EditorStepKeeps, ImageUploadsKeeps DEF EditorPages

LEMMA TestimonialsKeeps == ASSUME IInv, page = "testimonials", TestimonialsNext PROVE IInv' /\ Kept
<1>1. EditorStep
  BY DEF TestimonialsNext, EditorStep, EditorTurn, TestimonialsModal, TestimonialsUpdateForm, TestimonialsSave, TestimonialsDelete,
         TestimonialsToggle, TestimonialsTable, TestimonialsForm, TestimonialsEmpty, TestimonialsToForm, SavesReloadsCloses
<1> QED
  BY <1>1, EditorStepKeeps DEF EditorPages

LEMMA ServicesKeeps == ASSUME IInv, page = "services", ServicesNext PROVE IInv' /\ Kept
<1>1. EditorStep
  BY DEF ServicesNext, EditorStep, EditorTurn, ServicesModal, ServicesUpdateForm, ServicesSave, ServicesDelete,
         ServicesToggle, ServicesTable, ServicesForm, ServicesEmpty, ServicesToForm, SavesReloadsCloses
<1> QED
  BY <1>1, EditorStepKeeps DEF EditorPages

LEMMA SocialLinksKeeps == ASSUME IInv, page = "social links", SocialLinksNext PROVE IInv' /\ Kept
<1>1. EditorStep
  BY DEF SocialLinksNext, EditorStep, EditorTurn, SocialLinksModal, SocialLinksPlatform, SocialLinksSave, SocialLinksDelete,
         SocialLinksToggle, SocialLinksList, SocialLinksForm, SocialLinksEmpty, SocialLinksToForm, SavesReloadsCloses
<1> QED
  BY <1>1, EditorStepKeeps DEF EditorPages

LEMMA TaxSystemsKeeps == ASSUME IInv, page = "tax systems", TaxSystemsNext PROVE IInv' /\ Kept
<1>1. \A r \in DOMAIN view.rows : r # NONE
  BY RowsOfView, NoneIsNoRow
<1>2. EditorStep
  BY <1>1 DEF TaxSystemsNext, EditorStep, EditorTurn, TaxSystemsModal, SystemFormUpdateField, TaxSystemsSave, TaxSystemsDelete,
         TaxSystemsToggle, TaxSystemsList, SystemFormShown, SystemFormInitial, TaxSystemsRefresh, SavesClosesReloads
<1> QED
  BY <1>2, EditorStepKeeps DEF EditorPages

\* A button of a row that is off until the answer comes.
LEMMA AtFacts ==
    ASSUME NEW v \in TextedView, NEW r \in Row \cup {NONE}
    PROVE  LET w == [v EXCEPT !.at = r] IN
           /\ w \in TextedView /\ w.busy = v.busy /\ w.form = v.form /\ w.edits = v.edits /\ w.at = r /\ w.mounted = v.mounted
           /\ w.number = v.number /\ w.secrets = v.secrets /\ w.section = v.section /\ w.rows = v.rows /\ w.asked = v.asked
  BY DEF TextedView

LEMMA AtClick ==
    ASSUME IInv, page \notin SpecialPages, NEW r \in Row, NEW q \in AskOn(page), q.op \in AtHolders(page),
           UserAsks([view EXCEPT !.at = r], q)
    PROVE  IInv' /\ Kept
<1> DEFINE w == [view EXCEPT !.at = r]
<1>1. /\ w \in TextedView /\ w.busy = view.busy /\ w.form = view.form /\ w.mounted = view.mounted
      /\ w.number = view.number /\ w.secrets = view.secrets
  BY ReadyFacts, AtFacts
<1> HIDE DEF w
<1>2. StillHeld(w, {}, {q})
  <2>1. \A f \in view.busy \ {"timer", "leaving"} : (f = "loading" /\ "timer" \in w.busy) \/ ~(f = "loading" /\ "timer" \in view.busy)
    BY <1>1
  <2> QED
    BY <1>1, <2>1 DEF StillHeld
<1> QED
  BY <1>1, <1>2, PlainView, PlainIsNoRun, AsksKeeps DEF w

LEMMA AtAnswer ==
    ASSUME IInv, page \notin SpecialPages, NEW q \in flight, \A f : q.op \notin Holders(page, f), q.op # "reveal",
           Takes(q, [view EXCEPT !.at = NONE]) \/ Fails(q, [view EXCEPT !.at = NONE])
    PROVE  IInv' /\ Kept
<1> DEFINE w == [view EXCEPT !.at = NONE]
<1>1. /\ w \in TextedView /\ w.busy = view.busy /\ w.form = view.form /\ w.edits = view.edits /\ w.at = NONE
      /\ w.mounted = view.mounted /\ w.number = view.number /\ w.secrets = view.secrets
  BY ReadyFacts, AtFacts
<1> HIDE DEF w
<1>2. Calmer(w) /\ FreeOf(w, q)
  BY <1>1 DEF Calmer, FreeOf
<1>3. w \in ViewOn(page)
  BY <1>1, PlainView
<1> QED
  BY <1>1, <1>2, <1>3, PlainIsNoRun, CalmTakes DEF w

\* The answer to the load after such a button.
LEMMA AtListTaken ==
    ASSUME IInv, page \notin SpecialPages, NEW op \in {"toggled", "updated"}, NEW q \in Answers(op), page # "accountant",
           Takes(q, [ListTaken(q, view) EXCEPT !.at = NONE])
    PROVE  IInv' /\ Kept
<1> DEFINE u == ListTaken(q, view)
           w == [u EXCEPT !.at = NONE]
<1>1. q \in flight /\ q.op = op /\ q.got \in TextedRows /\ q.verb \notin Writes
  BY AnswerFacts DEF Reads
<1>2. /\ u \in TextedView /\ u.busy = view.busy \ {"loading"} /\ u.form = view.form /\ u.mounted = view.mounted
      /\ u.number = view.number /\ DOMAIN u.secrets = {}
  BY <1>1, ReadyFacts, ListTakenFacts
<1> HIDE DEF u
<1>3. /\ w \in TextedView /\ w.busy = view.busy \ {"loading"} /\ w.form = view.form /\ w.mounted = view.mounted
      /\ w.number = view.number /\ DOMAIN w.secrets = {} /\ w.at = NONE
  BY <1>2, AtFacts
<1> HIDE DEF w
<1>4. \A f : op \in Holders(page, f) => f = "loading"
  BY DEF Holders
<1>5. Calmer(w) /\ FreeOf(w, q)
  BY <1>1, <1>3, <1>4 DEF Calmer, FreeOf
<1>6. w \in ViewOn(page)
  BY <1>3, PlainView
<1> QED
  BY <1>1, <1>3, <1>5, <1>6, PlainIsNoRun, CalmTakes DEF w, u

\* The publish button of a post and the on/off button of an accountant.
LEMMA AtToggleKeeps ==
    ASSUME IInv, page \in {"blog", "accountants"},
           \/ \E r \in DOMAIN view.rows : UserAsks([view EXCEPT !.at = r], Patch("toggle", r))
           \/ \E q \in Good("toggle") : TakesThenAsks(q, Busy(view, {"loading"}), GetList("toggled"))
           \/ \E q \in Answers("toggled") : Takes(q, [ListTaken(q, view) EXCEPT !.at = NONE])
           \/ \E q \in Bad("toggle") : Fails(q, [view EXCEPT !.at = NONE])
    PROVE  IInv' /\ Kept
<1>0. page \in EditorPages /\ page \notin SpecialPages /\ page \notin BusyPages
  BY EditorsArePlain DEF EditorPages
<1>1. AtHolders(page) = {"toggle", "toggled"} /\ \A f : "toggle" \notin Holders(page, f)
  BY DEF AtHolders, Holders, Loads
<1>2. ASSUME NEW r \in DOMAIN view.rows, UserAsks([view EXCEPT !.at = r], Patch("toggle", r)) PROVE IInv' /\ Kept
  <2>1. r \in Row /\ "toggle" \in OpName \ Reads
    BY RowsOfView DEF OpName, Reads
  <2>2. Patch("toggle", r) \in AskOn(page) /\ Patch("toggle", r).op = "toggle"
    BY <2>1, ReadyFacts, PatchFits
  <2> QED
    BY <1>0, <1>1, <1>2, <2>1, <2>2, AtClick
<1>3. ASSUME NEW q \in Good("toggle"), TakesThenAsks(q, Busy(view, {"loading"}), GetList("toggled")) PROVE IInv' /\ Kept
  <2>1. q \in flight /\ q.op = "toggle" /\ q.state = "ok"
    BY <1>3, AnswerFacts, GoodBad
  <2>2. GetList("toggled") \in AskOn(page) /\ GetList("toggled").op = "toggled"
    BY <1>0, EditorsArePlain, ListAsk DEF OpName, NoRowLoad
  <2>3. GetList("toggled").op \in Loads
    BY <2>2 DEF Loads
  <2> QED
    BY <1>0, <1>1, <1>3, <2>1, <2>2, <2>3, ReloadAnswer
<1>4. ASSUME NEW q \in Answers("toggled"), Takes(q, [ListTaken(q, view) EXCEPT !.at = NONE]) PROVE IInv' /\ Kept
  <2>1. page # "accountant"
    OBVIOUS
  <2> QED
    BY <1>0, <1>4, <2>1, AtListTaken
<1>5. ASSUME NEW q \in Bad("toggle"), Fails(q, [view EXCEPT !.at = NONE]) PROVE IInv' /\ Kept
  <2>1. q \in flight /\ q.op = "toggle"
    BY <1>5, AnswerFacts, GoodBad
  <2> QED
    BY <1>0, <1>1, <1>5, <2>1, AtAnswer
<1> QED
  BY <1>2, <1>3, <1>4, <1>5

LEMMA BlogKeeps == ASSUME IInv, page = "blog", BlogNext PROVE IInv' /\ Kept
<1>1. \A r \in DOMAIN view.rows : r # NONE
  BY RowsOfView, NoneIsNoRow
<1>2. CASE BlogTogglePublish
  BY <1>2, AtToggleKeeps DEF BlogTogglePublish
<1>3. CASE ~BlogTogglePublish
  <2>1. EditorStep \/ ImageUploads(view.form # NONE, Has("saving"))
    BY <1>1, <1>3 DEF BlogNext, EditorStep, EditorTurn, BlogModal, BlogUpdateField, BlogSave, BlogDelete, BlogTable, BlogForm, BlogFromPost,
                SavesClosesReloads
  <2> QED
    BY <2>1, EditorStepKeeps, ImageUploadsKeeps DEF EditorPages
<1> QED
  BY <1>2, <1>3

LEMMA AccountantsKeeps == ASSUME IInv, page = "accountants", AccountantsNext PROVE IInv' /\ Kept
<1>1. CASE AccountantsToggle
  BY <1>1, AtToggleKeeps DEF AccountantsToggle
<1>2. CASE ~AccountantsToggle
  <2>1. EditorStep
    BY <1>2 DEF AccountantsNext, EditorStep, EditorTurn, AccountantsModal, AccountantsCreate, SavesClosesReloads
  <2> QED
    BY <2>1, EditorStepKeeps DEF EditorPages
<1> QED
  BY <1>1, <1>2

LEMMA PutTexted ==
    ASSUME IInv, NEW r, NEW text \in Text, text \in TextsFor(r)
    PROVE  Put(r, text) \in TextedRows
<1> DEFINE S == DOMAIN view.rows
<1>1. S \in SUBSET Row /\ \A e \in S : view.rows[e] \in Text /\ view.rows[e] \in TextsFor(e)
  BY RowsOfView
<1>2. Put(r, text) = [e \in S |-> IF e = r THEN text ELSE view.rows[e]]
  BY DEF Put
<1> HIDE DEF S
<1>3. [e \in S |-> IF e = r THEN text ELSE view.rows[e]] \in TextedRows
  <2> DEFINE g == [e \in S |-> IF e = r THEN text ELSE view.rows[e]]
  <2>1. g \in [S -> Text] /\ \A e \in S : g[e] \in TextsFor(e)
    BY <1>1
  <2> HIDE DEF g
  <2>2. g \in TextedRows
    BY <1>1, <2>1, RowsIntro
  <2> QED
    BY <2>2 DEF g
<1> QED
  BY <1>2, <1>3

LEMMA EditsOfView == ASSUME IInv PROVE /\ DOMAIN view.edits \in SUBSET Row /\ view.edits \in TextedRows
                                       /\ \A r \in DOMAIN view.edits : view.edits[r] \in Text /\ view.edits[r] \in TextsFor(r)
<1>1. view.edits \in TextedRows
  BY ReadyFacts DEF TextedView
<1> QED
  BY <1>1, RowsElim

LEMMA StatisticsKeeps == ASSUME IInv, page = "statistics", StatisticsNext PROVE IInv' /\ Kept
<1>0. /\ page \notin SpecialPages /\ page \notin BusyPages /\ page \notin {"admin dashboard", "client requests"}
      /\ AtHolders(page) = {"save"} /\ \A f : "save" \notin Holders(page, f)
  BY DEF QuietPages, SpecialPages, FormPages, BlankPages, RunPages, BusyPages, DetailPages, SearchPages, AtHolders, Holders, Loads
<1>1. CASE LoadTaken
  BY <1>0, <1>1, LoadTakenKeeps
<1>2. CASE StatisticsUpdate
  <2>1. PICK r \in DOMAIN view.rows :
          UserDoes([view EXCEPT !.edits = [e \in DOMAIN @ \cup {r} |-> "typed"]])
    BY <1>2 DEF StatisticsUpdate
  <2> DEFINE S == DOMAIN view.edits \cup {r}
             edits == [e \in S |-> "typed"]
             w == [view EXCEPT !.edits = edits]
  <2>2. S \in SUBSET Row
    BY RowsOfView, EditsOfView
  <2>3. edits \in TextedRows
    <3>1. edits \in [S -> Text] /\ \A e \in S : edits[e] \in TextsFor(e)
      BY DEF Text, TextsFor
    <3> HIDE DEF edits, S
    <3> QED
      BY <2>2, <3>1, RowsIntro
  <2>4. UserDoes(w)
    BY <2>1
  <2> HIDE DEF edits
  <2>5. /\ w \in TextedView /\ w.busy = view.busy /\ w.form = view.form /\ w.at = view.at
        /\ w.mounted = view.mounted /\ w.number = view.number /\ w.secrets = view.secrets
    BY <2>3, ReadyFacts DEF TextedView
  <2> HIDE DEF w
  <2>6. Calmer(w)
    BY <2>5 DEF Calmer
  <2>7. w \in ViewOn(page)
    BY <1>0, <2>5, PlainView
  <2> QED
    BY FewRules, <1>0, <2>4, <2>6, <2>7, CalmDoes
<1>3. ASSUME NEW r \in DOMAIN view.rows, UserAsks([view EXCEPT !.at = r], Update("save", StatisticsPayload(r)))
      PROVE  IInv' /\ Kept
  <2>1. r \in Row /\ "save" \in OpName \ Reads
    BY RowsOfView DEF OpName, Reads
  <2>2. StatisticsGet(r) \in Text /\ StatisticsGet(r) \in TextsFor(r)
    BY RowsOfView, EditsOfView DEF StatisticsGet
  <2>3. StatisticsPayload(r) \in TextedForm
    BY <2>1, <2>2 DEF StatisticsPayload, TextedForm, Form
  <2>4. Update("save", StatisticsPayload(r)) \in AskOn(page) /\ Update("save", StatisticsPayload(r)).op = "save"
    BY <2>1, <2>3, ReadyFacts, UpdateFits
  <2> QED
    BY <1>0, <1>3, <2>1, <2>4, AtClick
<1>4. ASSUME NEW q \in Good("save"),
             Takes(q, [view EXCEPT !.rows = Put(q.row, q.text), !.edits = Restrict(@, DOMAIN @ \ {q.row}), !.at = NONE])
      PROVE  IInv' /\ Kept
  <2> DEFINE rows == Put(q.row, q.text)
             edits == Restrict(view.edits, DOMAIN view.edits \ {q.row})
             w == [view EXCEPT !.rows = rows, !.edits = edits, !.at = NONE]
  <2>1. q \in flight /\ q.op = "save" /\ q.state = "ok" /\ q.text \in Text /\ q.text \in TextsFor(q.row)
    BY <1>4, AnswerFacts, GoodBad
  <2>2. rows \in TextedRows
    BY <2>1, PutTexted
  <2>3. edits \in TextedRows
    BY EditsOfView, RestrictTexted
  <2>4. Takes(q, w)
    BY <1>4
  <2> HIDE DEF rows, edits
  <2>5. /\ w \in TextedView /\ w.busy = view.busy /\ w.form = view.form /\ w.at = NONE
        /\ w.mounted = view.mounted /\ w.number = view.number /\ w.secrets = view.secrets
    BY <2>2, <2>3, ReadyFacts DEF TextedView
  <2> HIDE DEF w
  <2>6. Calmer(w) /\ FreeOf(w, q)
    BY <1>0, <2>1, <2>5 DEF Calmer, FreeOf
  <2>7. w \in ViewOn(page)
    BY <1>0, <2>5, PlainView
  <2> QED
    BY FewRules, <1>0, <2>1, <2>4, <2>6, <2>7, CalmTakes
<1>5. ASSUME NEW q \in Bad("save"), Fails(q, [view EXCEPT !.at = NONE]) PROVE IInv' /\ Kept
  <2>1. q \in flight /\ q.op = "save"
    BY <1>5, AnswerFacts, GoodBad
  <2> QED
    BY <1>0, <1>5, <2>1, AtAnswer
<1> QED
  BY <1>1, <1>2, <1>3, <1>4, <1>5 DEF StatisticsNext, StatisticsSave

\* The page of the fixed sections of the site.
LEMMA ContentView ==
    ASSUME IInv, page = "content", NEW w \in TextedView, w.number = view.number, w.section \in Row
    PROVE  w \in ViewOn(page)
<1>1. view \in ViewOn(page)
  BY ReadyFacts
<1> QED
  BY <1>1 DEF QuietPages, ViewOn, FormPages, BlankPages, DetailPages, SearchPages, RunPages

LEMMA ContentTakenKeeps ==
    ASSUME IInv, page = "content", NEW op \in {"load", "saved"}, NEW q \in Answers(op), NEW S \in SUBSET {"saving"},
           op = "saved" => S = {"saving"}, Takes(q, Free(ContentTaken(q, view), S))
    PROVE  IInv' /\ Kept
<1> DEFINE u == ListTaken(q, view)
           c == ContentTaken(q, view)
           w == Free(c, S)
<1>1. q \in flight /\ q.op = op /\ q.got \in TextedRows /\ q.verb \notin Writes
  BY AnswerFacts DEF Reads
<1>2. /\ u \in TextedView /\ u.busy = view.busy \ {"loading"} /\ u.mounted = view.mounted /\ u.at = view.at
      /\ u.number = view.number /\ DOMAIN u.secrets = {} /\ u.section = view.section
  <2>1. u.section = view.section
    BY ReadyFacts DEF ListTaken, Free, TextedView
  <2> QED
    BY <1>1, <2>1, ReadyFacts, ListTakenFacts
<1>3. c = IF q.state = "ok" THEN [u EXCEPT !.edits = q.got] ELSE u
  BY DEF ContentTaken
<1> HIDE DEF u, c
<1>4. /\ c \in TextedView /\ c.busy = view.busy \ {"loading"} /\ c.mounted = view.mounted /\ c.at = view.at
      /\ c.number = view.number /\ DOMAIN c.secrets = {} /\ c.section = view.section
  BY <1>1, <1>2, <1>3 DEF TextedView
<1>5. /\ w \in TextedView /\ w.busy = view.busy \ ({"loading"} \cup S) /\ w.mounted = view.mounted /\ w.at = view.at
      /\ w.number = view.number /\ DOMAIN w.secrets = {} /\ w.section = view.section
  <2>1. S \in SUBSET Flag
    BY DEF Flag
  <2>2. /\ w \in TextedView /\ w.busy = c.busy \ S /\ w.mounted = c.mounted /\ w.at = c.at
        /\ w.number = c.number /\ w.secrets = c.secrets /\ w.section = c.section
    BY <1>4, <2>1, FlagFacts
  <2> HIDE DEF w
  <2> QED
    BY <1>4, <2>2
<1>6. Takes(q, w)
  BY DEF c
<1> HIDE DEF w
<1>7. (\A f : op \in Holders(page, f) => f \in {"loading"} \cup S) /\ op \notin AtHolders(page)
  BY DEF Holders, AtHolders
<1>8. Calmer(w) /\ FreeOf(w, q)
  BY <1>1, <1>5, <1>7 DEF Calmer, FreeOf
<1>9. view.section \in Row
  BY ReadyFacts DEF QuietPages, ViewOn
<1>10. w \in ViewOn(page) /\ page \notin RunPages
  BY <1>5, <1>9, ContentView DEF QuietPages, RunPages, BusyPages, DetailPages, SearchPages
<1> QED
  BY <1>1, <1>6, <1>8, <1>10, CalmTakes

LEMMA ContentPayloadFits ==
    ASSUME IInv, page = "content"
    PROVE  /\ ContentPayload \in TextedForm
           /\ Update("save", ContentPayload) \in AskOn(page) /\ Update("save", ContentPayload).op = "save"
           /\ [Create("save", ContentPayload) EXCEPT !.row = view.section] \in AskOn(page)
           /\ [Create("save", ContentPayload) EXCEPT !.row = view.section].op = "save"
<1>1. view.section \in Row /\ "save" \in OpName \ Reads
  BY ReadyFacts DEF QuietPages, ViewOn, OpName, Reads
<1>2. ContentData \in Text /\ ContentData \in TextsFor(view.section)
  BY EditsOfView DEF ContentData, Text, TextsFor
<1>3. ContentPayload \in TextedForm /\ ContentPayload.text = ContentData /\ ContentPayload.fill \in Nat
  BY <1>1, <1>2, ReadyFacts DEF ContentPayload, FormOf, TextedForm, Form
<1> DEFINE n == Request("save", "create", view.section, ContentPayload.text, "all", ContentPayload.fill)
<1>4. [Create("save", ContentPayload) EXCEPT !.row = view.section] = n
  BY DEF Create, Request
<1>5. n \in TextedAsk
  <2>1. "create" \in Verb /\ "all" \in Query /\ "save" # "reveal" /\ "create" \notin {"updateAll", "createOnce"} /\ "create" \in TextVerbs
    BY DEF Verb, Query, TextVerbs
  <2> QED
    BY <1>1, <1>2, <1>3, <2>1, ReadyFacts, RequestTexted DEF Ready
<1>6. n.op = "save"
  BY DEF Request
<1>7. n \in AskOn(page)
  BY <1>5, <1>6 DEF AskOn, CreatePages, RowLoads
<1>8. Update("save", ContentPayload) \in AskOn(page) /\ Update("save", ContentPayload).op = "save"
  BY <1>1, <1>3, ReadyFacts, UpdateFits
<1> HIDE DEF n
<1> QED
  BY <1>3, <1>4, <1>6, <1>7, <1>8

LEMMA ContentKeeps == ASSUME IInv, page = "content", ContentNext PROVE IInv' /\ Kept
<1>0. /\ page \notin BusyPages \cup RowPages /\ page \notin BusyPages /\ AtHolders(page) = {}
      /\ {"save", "saved"} \subseteq Holders(page, "saving") /\ \A f : "save" \in Holders(page, f) => f = "saving"
  BY DEF QuietPages, RunPages, BusyPages, DetailPages, SearchPages, RowPages, AtHolders, Holders, Loads
<1>1. CASE UserAsks(Busy(view, {"loading"}), GetList("load"))
  BY <1>0, <1>1, ListClick
<1>2. ASSUME NEW q \in Answers("load"), Takes(q, ContentTaken(q, view)) PROVE IInv' /\ Kept
  <2>1. ASSUME NEW v \in TextedView PROVE Free(v, {}) = v
    <3>1. [v EXCEPT !.busy = v.busy] = v
      BY DEF TextedView
    <3> QED
      BY <3>1 DEF Free
  <2>2. ContentTaken(q, view) \in TextedView
    <3>1. ListTaken(q, view) \in TextedView /\ q.got \in TextedRows
      BY <1>2, AnswerFacts, ReadyFacts, ListTakenFacts
    <3> DEFINE u == ListTaken(q, view)
    <3>2. ContentTaken(q, view) \in {u, [u EXCEPT !.edits = q.got]}
      BY DEF ContentTaken
    <3> HIDE DEF u
    <3>3. u \in TextedView
      BY <3>1 DEF u
    <3> QED
      BY <3>1, <3>2, <3>3 DEF TextedView
  <2>3. Takes(q, Free(ContentTaken(q, view), {}))
    BY <1>2, <2>1, <2>2
  <2> QED
    BY <1>2, <2>3, ContentTakenKeeps
<1>3. ASSUME NEW r \in Row, UserDoes([view EXCEPT !.section = r]) PROVE IInv' /\ Kept
  <2> DEFINE w == [view EXCEPT !.section = r]
  <2>1. /\ w \in TextedView /\ w.busy = view.busy /\ w.mounted = view.mounted /\ w.at = view.at
        /\ w.number = view.number /\ w.secrets = view.secrets /\ w.section = r
    BY ReadyFacts DEF TextedView
  <2> HIDE DEF w
  <2>2. Calmer(w) /\ w \in ViewOn(page)
    BY <2>1, ContentView DEF Calmer
  <2> QED
    BY FewRules, <1>0, <1>3, <2>2, CalmDoes DEF w
<1>4. CASE ContentUpdateField
  <2>0. view.section \in Row
    BY ReadyFacts DEF QuietPages, ViewOn
  <2> DEFINE S == DOMAIN view.edits \cup {view.section}
             edits == [r \in S |-> IF r = view.section THEN "typed" ELSE view.edits[r]]
             w == [view EXCEPT !.edits = edits]
  <2>1. UserDoes(w)
    BY <1>4 DEF ContentUpdateField
  <2>2. edits \in TextedRows
    <3>1. S \in SUBSET Row /\ edits \in [S -> Text] /\ \A e \in S : edits[e] \in TextsFor(e)
      BY <2>0, EditsOfView DEF Text, TextsFor
    <3> HIDE DEF S, edits
    <3> QED
      BY <3>1, RowsIntro
  <2> HIDE DEF edits
  <2>3. /\ w \in TextedView /\ w.busy = view.busy /\ w.mounted = view.mounted /\ w.at = view.at
        /\ w.number = view.number /\ w.secrets = view.secrets /\ w.section = view.section
    BY <2>2, ReadyFacts DEF TextedView
  <2> HIDE DEF w
  <2>4. Calmer(w) /\ w \in ViewOn(page)
    BY <2>0, <2>3, ContentView DEF Calmer
  <2> QED
    BY FewRules, <1>0, <2>1, <2>4, CalmDoes
<1>5. CASE UserAsks(Busy(view, {"saving"}),
                   IF view.section \in DOMAIN view.rows THEN Update("save", ContentPayload)
                   ELSE [Create("save", ContentPayload) EXCEPT !.row = view.section])
  <2>1. PICK n \in AskOn(page) : n.op = "save" /\ UserAsks(Busy(view, {"saving"}), n)
    BY <1>5, ContentPayloadFits
  <2>2. "saving" \in Flag /\ n.op \in Holders(page, "saving")
    BY <1>0, <2>1 DEF Flag
  <2> QED
    BY <1>0, <2>1, <2>2, FlagClick
<1>6. ASSUME NEW q \in Good("save"), TakesThenAsks(q, Busy(view, {"loading"}), GetList("saved")) PROVE IInv' /\ Kept
  <2>1. q \in flight /\ q.op = "save" /\ q.state = "ok"
    BY <1>6, AnswerFacts, GoodBad
  <2>2. GetList("saved") \in AskOn(page) /\ GetList("saved").op = "saved"
    BY <1>0, ListAsk DEF OpName, NoRowLoad
  <2> QED
    BY <1>0, <1>6, <2>1, <2>2, ReloadAnswer DEF Loads
<1>7. ASSUME NEW q \in Answers("saved"), Takes(q, Free(ContentTaken(q, view), {"saving"})) PROVE IInv' /\ Kept
  BY <1>7, ContentTakenKeeps
<1>8. ASSUME NEW q \in Bad("save"), Fails(q, Free(view, {"saving"})) PROVE IInv' /\ Kept
  <2>1. q \in flight /\ q.op = "save"
    BY <1>8, AnswerFacts, GoodBad
  <2>2. {"saving"} \in SUBSET (Flag \ {"timer"})
    BY DEF Flag
  <2>3. (\A g : q.op \in Holders(page, g) => g \in {"saving"}) /\ q.op \notin AtHolders(page) \cup {"reveal"}
    BY <1>0, <2>1
  <2> QED
    BY <1>0, <1>8, <2>1, <2>2, <2>3, FlagAnswer
<1> QED
  BY <1>1, <1>2, <1>3, <1>4, <1>5, <1>6, <1>7, <1>8 DEF ContentNext, ContentLoad, ContentSection, ContentSave

-----------------------------------------------------------------------------
(* The lists of cases and the dashboards. *)

LEMMA StatusPutKeeps ==
    ASSUME IInv, page \in {"accountant dashboard", "assigned list", "accountant consultations"},
           NEW rows \in SUBSET DOMAIN view.rows, StatusPutIntoList(rows)
    PROVE  IInv' /\ Kept
<1>0. /\ page \notin SpecialPages /\ AtHolders(page) = {"status"} /\ \A f : "status" \notin Holders(page, f)
  BY DEF QuietPages, SpecialPages, FormPages, BlankPages, RunPages, BusyPages, DetailPages, SearchPages, AtHolders, Holders, Loads
<1>1. ASSUME NEW r \in rows, UserAsks([view EXCEPT !.at = r], Update("status", ChosenStatus(r))) PROVE IInv' /\ Kept
  <2>1. r \in Row /\ "status" \in OpName \ Reads
    BY RowsOfView DEF OpName, Reads
  <2>2. ChosenStatus(r) \in TextedForm
    BY <2>1 DEF ChosenStatus, TextedForm, Form, Text, TextsFor
  <2>3. Update("status", ChosenStatus(r)) \in AskOn(page) /\ Update("status", ChosenStatus(r)).op = "status"
    BY <2>1, <2>2, ReadyFacts, UpdateFits
  <2> QED
    BY <1>0, <1>1, <2>1, <2>3, AtClick
<1>2. ASSUME NEW q \in Good("status"), Takes(q, [view EXCEPT !.rows = Put(q.row, q.text), !.at = NONE])
      PROVE  IInv' /\ Kept
  <2> DEFINE put == Put(q.row, q.text)
             w == [view EXCEPT !.rows = put, !.at = NONE]
  <2>1. q \in flight /\ q.op = "status" /\ q.state = "ok" /\ q.text \in Text /\ q.text \in TextsFor(q.row)
    BY <1>2, AnswerFacts, GoodBad
  <2>2. put \in TextedRows
    BY <2>1, PutTexted
  <2>3. Takes(q, w)
    BY <1>2
  <2> HIDE DEF put
  <2>4. /\ w \in TextedView /\ w.busy = view.busy /\ w.form = view.form /\ w.at = NONE
        /\ w.mounted = view.mounted /\ w.number = view.number /\ w.secrets = view.secrets
    BY <2>2, ReadyFacts DEF TextedView
  <2> HIDE DEF w
  <2>5. Calmer(w) /\ FreeOf(w, q)
    BY <1>0, <2>1, <2>4 DEF Calmer, FreeOf
  <2>6. w \in ViewOn(page)
    BY <1>0, <2>4, PlainView
  <2> QED
    BY <1>0, <2>1, <2>3, <2>5, <2>6, CalmTakes, PlainIsNoRun
<1>3. ASSUME NEW q \in Bad("status"), Fails(q, [view EXCEPT !.at = NONE]) PROVE IInv' /\ Kept
  <2>1. q \in flight /\ q.op = "status"
    BY <1>3, AnswerFacts, GoodBad
  <2> QED
    BY <1>0, <1>3, <2>1, AtAnswer
<1> QED
  BY <1>1, <1>2, <1>3 DEF StatusPutIntoList

LEMMA QuietListClick ==
    ASSUME IInv, page \notin BusyPages \cup RowPages, UserAsks(view, GetList("load"))
    PROVE  IInv' /\ Kept
<1>1. GetList("load") \in AskOn(page)
  BY FewRules, ListAsk DEF OpName, NoRowLoad
<1> QED
  BY FewRules, <1>1, QuietClick

LEMMA WorkPagesArePlain ==
    page \in {"accountant dashboard", "assigned list", "accountant consultations", "admin consultations", "client requests",
              "client dashboard", "admin documents", "admin credentials", "accountant credentials",
              "credentials card", "client credentials", "notifications", "client", "accountant", "admin requests"} =>
        /\ page \notin SpecialPages /\ page \notin BusyPages \cup RowPages /\ page \notin BusyPages
        /\ page \notin RunPages
  BY DEF QuietPages, SpecialPages, FormPages, BlankPages, RunPages, BusyPages, DetailPages, SearchPages, RowPages

LEMMA AccountantDashboardKeeps == ASSUME IInv, page = "accountant dashboard", AccountantDashboardNext PROVE IInv' /\ Kept
<1>1. CASE LoadTaken
  BY <1>1, WorkPagesArePlain, LoadTakenKeeps
<1>2. CASE AccountantDashboardRefresh
  BY <1>2, WorkPagesArePlain, QuietListClick DEF AccountantDashboardRefresh
<1>3. CASE Search
  BY <1>3, WorkPagesArePlain, SearchKeeps
<1>4. CASE AccountantDashboardStatus
  <2>1. AccountantDashboardList \in SUBSET DOMAIN view.rows
    BY DEF AccountantDashboardList, AccountantDashboardMatching, Matching
  <2> QED
    BY <1>4, <2>1, StatusPutKeeps DEF AccountantDashboardStatus
<1> QED
  BY <1>1, <1>2, <1>3, <1>4 DEF AccountantDashboardNext

LEMMA AssignedListKeeps == ASSUME IInv, page = "assigned list", AssignedListNext PROVE IInv' /\ Kept
<1>1. CASE LoadTaken
  BY <1>1, WorkPagesArePlain, LoadTakenKeeps
<1>2. CASE AssignedListRefresh
  BY <1>2, WorkPagesArePlain, QuietListClick DEF AssignedListRefresh
<1>3. CASE Search
  BY <1>3, WorkPagesArePlain, SearchKeeps
<1>4. CASE AssignedListStatus
  <2>1. AssignedListList \in SUBSET DOMAIN view.rows
    BY DEF AssignedListList, AssignedListMatching, Matching
  <2> QED
    BY <1>4, <2>1, StatusPutKeeps DEF AssignedListStatus
<1> QED
  BY <1>1, <1>2, <1>3, <1>4 DEF AssignedListNext

\* The mark of an error changes nothing that anything waits for.
LEMMA ErrorFacts ==
    ASSUME NEW v \in TextedView, NEW b \in BOOLEAN
    PROVE  LET w == [v EXCEPT !.error = b] IN
           /\ w \in TextedView /\ w.busy = v.busy /\ w.form = v.form /\ w.edits = v.edits /\ w.at = v.at /\ w.mounted = v.mounted
           /\ w.number = v.number /\ w.secrets = v.secrets /\ w.section = v.section /\ w.rows = v.rows /\ w.asked = v.asked
  BY DEF TextedView

\* A click after which the page says that it is loading, and may have changed in other ways.
LEMMA LoadingClick ==
    ASSUME IInv, page \notin SpecialPages, NEW u \in TextedView, u.number = view.number, u.busy = view.busy, u.at = view.at,
           u.mounted = view.mounted, u.form = view.form, u.secrets = view.secrets \/ DOMAIN u.secrets = {},
           NEW f \in Flag, NEW q \in AskOn(page), q.op \in Holders(page, f), page \notin {"staff", "blog"},
           UserAsks(Busy(u, {f}), q)
    PROVE  IInv' /\ Kept
<1> DEFINE w == Busy(u, {f})
<1>1. {f} \in SUBSET Flag
  OBVIOUS
<1>2. /\ w \in TextedView /\ w.busy = u.busy \cup {f} /\ w.at = u.at
      /\ w.mounted = u.mounted /\ w.number = u.number /\ w.secrets = u.secrets
  BY <1>1, FlagFacts
<1> HIDE DEF w
<1>3. Holder(page, w, q, f)
  BY PlainIsNoRun DEF Holder, SpecialPages, BlankPages
<1>4. StillHeld(w, {}, {q})
  BY <1>2, <1>3 DEF StillHeld
<1>5. w \in ViewOn(page) /\ page \notin RunPages
  BY <1>2, PlainView, PlainIsNoRun
<1> QED
  BY <1>4, <1>5, AsksKeeps DEF w

\* A list that is shown, or emptied, with the mark of an error or without.
LEMMA ListOrEmptyKeeps ==
    ASSUME IInv, page \notin SpecialPages, NEW op \in {"load", "fallback"}, page \notin {"admin dashboard", "client requests"},
           NEW q \in Answers(op), NEW b \in BOOLEAN,
           \/ Takes(q, ListTakenOrEmptied(q, view)) \/ Takes(q, ListTakenOrEmptied(q, [view EXCEPT !.error = b]))
           \/ Takes(q, [ListTakenOrEmptied(q, view) EXCEPT !.error = b])
    PROVE  IInv' /\ Kept
<1> DEFINE v == [view EXCEPT !.error = b]
           x == ListTakenOrEmptied(q, view)
           y == ListTakenOrEmptied(q, v)
           z == [x EXCEPT !.error = b]
<1>1. q \in flight /\ q.op = op /\ q.got \in TextedRows /\ q.verb \notin Writes
  BY AnswerFacts DEF Reads
<1>2. /\ v \in TextedView /\ v.busy = view.busy /\ v.form = view.form /\ v.edits = view.edits /\ v.at = view.at
      /\ v.mounted = view.mounted /\ v.number = view.number
  BY ReadyFacts, ErrorFacts
<1> HIDE DEF v
<1>3. /\ x \in TextedView /\ x.busy = view.busy \ {"loading"} /\ x.form = view.form /\ x.at = view.at /\ x.mounted = view.mounted
      /\ x.number = view.number /\ DOMAIN x.secrets = {}
  BY <1>1, ReadyFacts, ListTakenFacts
<1>4. /\ y \in TextedView /\ y.busy = view.busy \ {"loading"} /\ y.form = view.form /\ y.at = view.at /\ y.mounted = view.mounted
      /\ y.number = view.number /\ DOMAIN y.secrets = {}
  BY <1>1, <1>2, ListTakenFacts, ZenonT(30)
<1> HIDE DEF x, y
<1>5. /\ z \in TextedView /\ z.busy = view.busy \ {"loading"} /\ z.form = view.form /\ z.at = view.at /\ z.mounted = view.mounted
      /\ z.number = view.number /\ DOMAIN z.secrets = {}
  BY <1>3, ErrorFacts
<1>6. PICK w \in {x, y, z} : Takes(q, w)
  BY DEF x, y, v
<1> HIDE DEF z
<1>7. (\A f : op \in Holders(page, f) => f = "loading") /\ op \notin AtHolders(page)
  BY DEF Holders, AtHolders
<1>8. Calmer(w) /\ FreeOf(w, q)
  BY <1>1, <1>3, <1>4, <1>5, <1>7 DEF Calmer, FreeOf
<1>9. w \in ViewOn(page) /\ page \notin RunPages
  BY <1>3, <1>4, <1>5, PlainView, PlainIsNoRun
<1> QED
  BY <1>1, <1>6, <1>8, <1>9, CalmTakes

LEMMA AccountantConsultationsKeeps ==
    ASSUME IInv, page = "accountant consultations", AccountantConsultationsNext PROVE IInv' /\ Kept
<1>1. CASE UserAsks(Busy([view EXCEPT !.error = FALSE], {"loading"}), GetList("load"))
  <2> DEFINE u == [view EXCEPT !.error = FALSE]
  <2>1. /\ u \in TextedView /\ u.busy = view.busy /\ u.form = view.form /\ u.at = view.at /\ u.mounted = view.mounted
        /\ u.number = view.number /\ u.secrets = view.secrets
    BY ReadyFacts, ErrorFacts
  <2>2. GetList("load") \in AskOn(page) /\ GetList("load").op = "load"
    BY ListAsk DEF OpName, NoRowLoad, RowPages
  <2>3. GetList("load").op \in Holders(page, "loading") /\ "loading" \in Flag
    BY <2>2 DEF Holders, Loads, Flag
  <2> HIDE DEF u
  <2> QED
    BY <1>1, <2>1, <2>2, <2>3, WorkPagesArePlain, LoadingClick DEF u
<1>2. ASSUME NEW q \in Good("load"), Takes(q, ListTakenOrEmptied(q, view)) PROVE IInv' /\ Kept
  BY <1>2, GoodBad, WorkPagesArePlain, ListOrEmptyKeeps
<1>3. ASSUME NEW q \in Bad("load"), Takes(q, ListTakenOrEmptied(q, [view EXCEPT !.error = TRUE])) PROVE IInv' /\ Kept
  BY <1>3, GoodBad, WorkPagesArePlain, ListOrEmptyKeeps
<1>4. CASE Search
  BY <1>4, WorkPagesArePlain, SearchKeeps
<1>5. CASE AccountantConsultationsStatus
  <2>1. AccountantConsultationsList \in SUBSET DOMAIN view.rows
    BY DEF AccountantConsultationsList, AccountantConsultationsMatching, Matching
  <2> QED
    BY <1>5, <2>1, StatusPutKeeps DEF AccountantConsultationsStatus
<1> QED
  BY <1>1, <1>2, <1>3, <1>4, <1>5 DEF AccountantConsultationsNext, AccountantConsultationsLoad

LEMMA AdminConsultationsKeeps == ASSUME IInv, page = "admin consultations", AdminConsultationsNext PROVE IInv' /\ Kept
<1>0. AtHolders(page) = {"status", "updated"} /\ \A f : "status" \notin Holders(page, f)
  BY DEF AtHolders, Holders, Loads
<1>1. CASE AdminConsultationsLoad
  BY <1>1, WorkPagesArePlain, ListClick, LoadTakenKeeps DEF AdminConsultationsLoad
<1>2. CASE Search
  BY <1>2, WorkPagesArePlain, SearchKeeps
<1>3. ASSUME NEW r \in AdminConsultationsList, UserAsks([view EXCEPT !.at = r], Update("status", ChosenStatus(r)))
      PROVE  IInv' /\ Kept
  <2>1. r \in Row /\ "status" \in OpName \ Reads
    BY RowsOfView DEF OpName, Reads, AdminConsultationsList, AdminConsultationsFiltered, Matching
  <2>2. ChosenStatus(r) \in TextedForm
    BY <2>1 DEF ChosenStatus, TextedForm, Form, Text, TextsFor
  <2>3. Update("status", ChosenStatus(r)) \in AskOn(page) /\ Update("status", ChosenStatus(r)).op = "status"
    BY <2>1, <2>2, ReadyFacts, UpdateFits
  <2> QED
    BY <1>0, <1>3, <2>1, <2>3, WorkPagesArePlain, AtClick
<1>4. ASSUME NEW q \in Good("status"), TakesThenAsks(q, Busy(view, {"loading"}), GetList("updated")) PROVE IInv' /\ Kept
  <2>1. q \in flight /\ q.op = "status" /\ q.state = "ok"
    BY <1>4, AnswerFacts, GoodBad
  <2>2. GetList("updated") \in AskOn(page) /\ GetList("updated").op = "updated"
    BY ListAsk DEF OpName, NoRowLoad, RowPages
  <2> QED
    BY <1>0, <1>4, <2>1, <2>2, WorkPagesArePlain, ReloadAnswer DEF Loads
<1>5. ASSUME NEW q \in Answers("updated"), Takes(q, [ListTaken(q, view) EXCEPT !.at = NONE]) PROVE IInv' /\ Kept
  <2>1. page # "accountant"
    OBVIOUS
  <2> QED
    BY <1>5, <2>1, WorkPagesArePlain, AtListTaken
<1>6. ASSUME NEW q \in Bad("status"), Fails(q, [view EXCEPT !.at = NONE]) PROVE IInv' /\ Kept
  <2>1. q \in flight /\ q.op = "status"
    BY <1>6, AnswerFacts, GoodBad
  <2> QED
    BY <1>0, <1>6, <2>1, WorkPagesArePlain, AtAnswer
<1> QED
  BY <1>1, <1>2, <1>3, <1>4, <1>5, <1>6 DEF AdminConsultationsNext, AdminConsultationsStatus

LEMMA NumberedView ==
    ASSUME IInv, page \notin SpecialPages, NEW v \in TextedView, v.number \in {1, 2}
    PROVE  v \in ViewOn(page)
  BY DEF QuietPages, ViewOn, SpecialPages, FormPages, BlankPages, RunPages, BusyPages, DetailPages, SearchPages

LEMMA FilteredAsk ==
    ASSUME IInv, page \notin BusyPages \cup RowPages, NEW op \in {"load", "number"}, NEW query \in Query
    PROVE  GetFiltered(op, query) \in AskOn(page) /\ GetFiltered(op, query).op = op
<1>1. op \in OpName /\ op # "reveal" /\ NoRowLoad(op)
  BY FewRules DEF OpName, NoRowLoad
<1> QED
  BY <1>1, ReadyFacts, GetListFits

\* The two pages of a list.
LEMMA OtherPage == ASSUME NEW n \in {1, 2} PROVE 3 - n \in {1, 2} /\ 3 - n \in Nat
  OBVIOUS

LEMMA AdminRequestsKeeps == ASSUME IInv, page = "admin requests", AdminRequestsNext PROVE IInv' /\ Kept
<1>0. /\ page \notin SpecialPages /\ page \notin RunPages /\ page \notin BusyPages \cup RowPages /\ view.asked \in Query
      /\ view.number \in {1, 2} /\ view \in TextedView
  BY WorkPagesArePlain, ReadyFacts DEF QuietPages, TextedView, ViewOn
<1>1. CASE AdminRequestsFilter
  <2>1. PICK query \in Query : UserAsksAll(Busy([view EXCEPT !.asked = query], {"timer"}), {})
    BY <1>1 DEF AdminRequestsFilter
  <2> DEFINE u == [view EXCEPT !.asked = query]
             w == Busy(u, {"timer"})
  <2>2. /\ u \in TextedView /\ u.busy = view.busy /\ u.at = view.at /\ u.mounted = view.mounted
        /\ u.number = view.number /\ u.secrets = view.secrets
    BY <1>0 DEF TextedView
  <2> HIDE DEF u
  <2>3. {"timer"} \in SUBSET Flag
    BY DEF Flag
  <2>4. /\ w \in TextedView /\ w.busy = view.busy \cup {"timer"} /\ w.at = view.at /\ w.mounted = view.mounted
        /\ w.number = view.number /\ w.secrets = view.secrets
    <3>1. /\ w \in TextedView /\ w.busy = u.busy \cup {"timer"} /\ w.at = u.at /\ w.mounted = u.mounted
          /\ w.number = u.number /\ w.secrets = u.secrets
      BY <2>2, <2>3, FlagFacts
    <3> HIDE DEF w
    <3> QED
      BY <3>1, <2>2
  <2> HIDE DEF w
  <2>5. StillHeld(w, {}, {})
    BY <2>4 DEF StillHeld
  <2>6. w \in ViewOn(page)
    BY <1>0, <2>4, PlainView
  <2>7. {} \in SUBSET AskOn(page) /\ IsFiniteSet({})
    BY FS_EmptySet
  <2>8. UserAsksAll(w, {})
    BY <2>1 DEF w, u
  <2> QED
    BY <1>0, <2>5, <2>6, <2>7, <2>8, AsksAllKeeps
<1>2. CASE AdminRequestsTimer
  <2> DEFINE ops == {"load"} \cup (IF view.number = 1 THEN {} ELSE {"number"})
             qs == {AdminRequestsAsks(op) : op \in ops}
             u == [view EXCEPT !.number = 1]
             b == Busy(u, {"loading"})
             w == Free(b, {"timer"})
  <2>1. TimerAsks(w, qs)
    BY <1>2 DEF AdminRequestsTimer
  <2>2. /\ u \in TextedView /\ u.busy = view.busy /\ u.at = view.at /\ u.mounted = view.mounted
        /\ u.number = 1 /\ u.secrets = view.secrets
    BY <1>0 DEF TextedView
  <2> HIDE DEF u
  <2>3. {"timer"} \in SUBSET Flag /\ {"loading"} \in SUBSET Flag
    BY DEF Flag
  <2>4. /\ b \in TextedView /\ b.busy = view.busy \cup {"loading"} /\ b.at = view.at /\ b.mounted = view.mounted
        /\ b.number = 1 /\ b.secrets = view.secrets
    <3>1. /\ b \in TextedView /\ b.busy = u.busy \cup {"loading"} /\ b.at = u.at /\ b.mounted = u.mounted
          /\ b.number = u.number /\ b.secrets = u.secrets
      BY <2>2, <2>3, FlagFacts, ZenonT(30)
    <3> HIDE DEF b
    <3> QED
      BY <3>1, <2>2
  <2> HIDE DEF b
  <2>5. /\ w \in TextedView /\ w.busy = (view.busy \cup {"loading"}) \ {"timer"} /\ w.at = view.at /\ w.mounted = view.mounted
        /\ w.number = 1 /\ w.secrets = view.secrets
    <3>1. /\ w \in TextedView /\ w.busy = b.busy \ {"timer"} /\ w.at = b.at /\ w.mounted = b.mounted
          /\ w.number = b.number /\ w.secrets = b.secrets
      BY <2>3, <2>4, FlagFacts, ZenonT(30)
    <3> HIDE DEF w
    <3> QED
      BY <3>1, <2>4
  <2> HIDE DEF w
  <2>6. \A op \in ops : AdminRequestsAsks(op) \in AskOn(page) /\ AdminRequestsAsks(op).op = op
    BY <1>0, FilteredAsk DEF AdminRequestsAsks
  <2>7. qs \in SUBSET AskOn(page)
    BY <2>6
  <2>8. IsFiniteSet(qs)
    <3> DEFINE a == AdminRequestsAsks("load")
               b2 == AdminRequestsAsks("number")
    <3>1. qs = {a} \/ qs = {a} \cup {b2}
      BY DEF ops
    <3> HIDE DEF a, b2, qs
    <3>2. IsFiniteSet({a}) /\ IsFiniteSet({b2})
      BY FS_Singleton
    <3>3. IsFiniteSet({a} \cup {b2})
      BY <3>2, FS_Union
    <3> QED
      BY <3>1, <3>2, <3>3
  <2>9. PICK n \in qs : n.op = "load"
    BY <2>6
  <2>10. Holder(page, w, n, "loading")
    BY <1>0, <2>9 DEF Holder, Holders, Loads, CardFlags
  <2> HIDE DEF qs
  <2>11. StillHeld(w, {}, qs)
    BY <2>5, <2>9, <2>10 DEF StillHeld
  <2>12. w \in ViewOn(page)
    BY <1>0, <2>5, NumberedView
  <2> QED
    BY <1>0, <2>1, <2>7, <2>8, <2>11, <2>12, AsksAllKeeps
<1>3. CASE AdminRequestsPage
  <2> DEFINE u == [view EXCEPT !.number = 3 - @]
             w == Busy(u, {"loading"})
             n == AdminRequestsAsks("number")
  <2>1. UserAsks(w, n)
    BY <1>3 DEF AdminRequestsPage
  <2>2. /\ u \in TextedView /\ u.busy = view.busy /\ u.at = view.at /\ u.mounted = view.mounted
        /\ u.number \in {1, 2} /\ u.secrets = view.secrets
    <3>1. 3 - view.number \in {1, 2} /\ 3 - view.number \in Nat
      BY <1>0, OtherPage
    <3> QED
      BY <1>0, <3>1 DEF TextedView
  <2> HIDE DEF u
  <2>3. {"loading"} \in SUBSET Flag
    BY DEF Flag
  <2>4. /\ w \in TextedView /\ w.busy = view.busy \cup {"loading"} /\ w.at = view.at /\ w.mounted = view.mounted
        /\ w.number \in {1, 2} /\ w.secrets = view.secrets
    <3>1. /\ w \in TextedView /\ w.busy = u.busy \cup {"loading"} /\ w.at = u.at /\ w.mounted = u.mounted
          /\ w.number = u.number /\ w.secrets = u.secrets
      BY <2>2, <2>3, FlagFacts
    <3> HIDE DEF w
    <3> QED
      BY <3>1, <2>2
  <2> HIDE DEF w
  <2>5. n \in AskOn(page) /\ n.op = "number"
    BY <1>0, FilteredAsk DEF AdminRequestsAsks
  <2> HIDE DEF n
  <2>6. Holder(page, w, n, "loading")
    BY <1>0, <2>5 DEF Holder, Holders, Loads, CardFlags
  <2>7. StillHeld(w, {}, {n})
    BY <2>4, <2>6 DEF StillHeld
  <2>8. w \in ViewOn(page)
    BY <1>0, <2>4, NumberedView
  <2> QED
    BY <1>0, <2>1, <2>5, <2>7, <2>8, AsksKeeps
<1>4. CASE LoadTaken
  BY <1>0, <1>4, LoadTakenKeeps
<1>5. ASSUME NEW q \in Answers("number"), Takes(q, ListTaken(q, view)) PROVE IInv' /\ Kept
  <2> DEFINE w == ListTaken(q, view)
  <2>1. q \in flight /\ q.op = "number" /\ q.got \in TextedRows /\ q.verb \notin Writes
    BY <1>5, AnswerFacts DEF Reads
  <2>2. /\ w \in TextedView /\ w.busy = view.busy \ {"loading"} /\ w.form = view.form /\ w.at = view.at
        /\ w.mounted = view.mounted /\ w.number = view.number /\ DOMAIN w.secrets = {}
    BY <1>0, <2>1, ListTakenFacts
  <2> HIDE DEF w
  <2>3. (\A f : "number" \in Holders(page, f) => f = "loading") /\ "number" \notin AtHolders(page)
    BY DEF Holders, AtHolders
  <2>4. Calmer(w) /\ FreeOf(w, q)
    BY <2>1, <2>2, <2>3 DEF Calmer, FreeOf
  <2>5. w \in ViewOn(page)
    BY <1>0, <2>2, PlainView
  <2> QED
    BY <1>0, <1>5, <2>1, <2>4, <2>5, CalmTakes DEF w
<1> QED
  BY <1>1, <1>2, <1>3, <1>4, <1>5 DEF AdminRequestsNext, AdminRequestsTaken

-----------------------------------------------------------------------------
(* The view w differs from v in its flags and in what it shows, no more. *)

Alike(w, v) == /\ w.at = v.at /\ w.mounted = v.mounted /\ w.number = v.number /\ w.form = v.form /\ w.edits = v.edits
               /\ w.secrets = v.secrets \/ DOMAIN w.secrets = {}

LEMMA AlikeFlags ==
    ASSUME NEW v, NEW u \in TextedView, Alike(u, v), NEW S \in SUBSET Flag
    PROVE  /\ Busy(u, S) \in TextedView /\ Alike(Busy(u, S), v) /\ Busy(u, S).busy = u.busy \cup S
           /\ Busy(u, S).section = u.section /\ Busy(u, S).rows = u.rows /\ Busy(u, S).asked = u.asked
           /\ Free(u, S) \in TextedView /\ Alike(Free(u, S), v) /\ Free(u, S).busy = u.busy \ S
           /\ Free(u, S).section = u.section /\ Free(u, S).rows = u.rows /\ Free(u, S).asked = u.asked
  BY FlagFacts DEF Alike

\* What a change of one of the parts that Alike does not name leaves alone.
Else(w, u) == w \in TextedView /\ Alike(w, u) /\ w.busy = u.busy

LEMMA AlikeShows ==
    ASSUME NEW u \in TextedView
    PROVE  /\ Alike(u, u)
           /\ \A rows \in TextedRows : LET w == [u EXCEPT !.rows = rows] IN
                Else(w, u) /\ w.section = u.section /\ w.rows = rows /\ w.asked = u.asked
           /\ \A b \in BOOLEAN : LET w == [u EXCEPT !.error = b] IN
                Else(w, u) /\ w.section = u.section /\ w.rows = u.rows /\ w.asked = u.asked
           /\ \A b \in BOOLEAN : LET w == [u EXCEPT !.open = b] IN
                Else(w, u) /\ w.section = u.section /\ w.rows = u.rows /\ w.asked = u.asked
           /\ \A S \in SUBSET Row : LET w == [u EXCEPT !.choices = S] IN
                Else(w, u) /\ w.section = u.section /\ w.rows = u.rows /\ w.asked = u.asked
           /\ \A r \in Row \cup {NONE} : LET w == [u EXCEPT !.section = r] IN
                Else(w, u) /\ w.section = r /\ w.rows = u.rows /\ w.asked = u.asked
           /\ \A query \in Query : LET w == [u EXCEPT !.asked = query] IN
                Else(w, u) /\ w.section = u.section /\ w.rows = u.rows /\ w.asked = query
           /\ LET w == [u EXCEPT !.secrets = Nothing] IN
                Else(w, u) /\ w.section = u.section /\ w.rows = u.rows /\ w.asked = u.asked
<1>1. ASSUME NEW rows \in TextedRows
      PROVE  LET w == [u EXCEPT !.rows = rows] IN
             Else(w, u) /\ w.section = u.section /\ w.rows = rows /\ w.asked = u.asked
  BY DEF TextedView, Alike, Else
<1>2. ASSUME NEW b \in BOOLEAN
      PROVE  LET w == [u EXCEPT !.error = b] IN
             Else(w, u) /\ w.section = u.section /\ w.rows = u.rows /\ w.asked = u.asked
  BY DEF TextedView, Alike, Else
<1>3. ASSUME NEW b \in BOOLEAN
      PROVE  LET w == [u EXCEPT !.open = b] IN
             Else(w, u) /\ w.section = u.section /\ w.rows = u.rows /\ w.asked = u.asked
  BY DEF TextedView, Alike, Else
<1>4. ASSUME NEW S \in SUBSET Row
      PROVE  LET w == [u EXCEPT !.choices = S] IN
             Else(w, u) /\ w.section = u.section /\ w.rows = u.rows /\ w.asked = u.asked
  BY DEF TextedView, Alike, Else
<1>5. ASSUME NEW r \in Row \cup {NONE}
      PROVE  LET w == [u EXCEPT !.section = r] IN
             Else(w, u) /\ w.section = r /\ w.rows = u.rows /\ w.asked = u.asked
  BY DEF TextedView, Alike, Else
<1>6. ASSUME NEW query \in Query
      PROVE  LET w == [u EXCEPT !.asked = query] IN
             Else(w, u) /\ w.section = u.section /\ w.rows = u.rows /\ w.asked = query
  BY DEF TextedView, Alike, Else
<1>7. LET w == [u EXCEPT !.secrets = Nothing] IN
      Else(w, u) /\ w.section = u.section /\ w.rows = u.rows /\ w.asked = u.asked
  BY NoSecrets, NothingTexted DEF TextedView, Alike, Else
<1>8. Alike(u, u)
  BY DEF Alike
<1> QED
  BY <1>1, <1>2, <1>3, <1>4, <1>5, <1>6, <1>7, <1>8, Zenon

LEMMA AlikeTrans ==
    ASSUME NEW v, NEW u, NEW w, Alike(w, u), Alike(u, v) PROVE Alike(w, v)
  BY DEF Alike

\* What waits goes on waiting when the flags S are lowered and T raised, the requests gone leave
\* and the requests more are added.
Passes(w, S, T, gone, more) ==
    /\ w.at = view.at /\ w.mounted = view.mounted /\ (w.secrets = view.secrets \/ DOMAIN w.secrets = {})
    /\ "timer" \notin S /\ w.busy = (view.busy \ S) \cup T
    /\ \A f \in T : f \in {"timer", "leaving"} \/ \E n \in more : n.op \in Holders(page, f)
    /\ \A q \in gone : /\ q.op # "reveal"
                       /\ \A f : q.op \in Holders(page, f) => f \in S \/ \E n \in more : n.op \in Holders(page, f)
                       /\ q.op \in AtHolders(page) => \E n \in more : n.op \in AtHolders(page)

LEMMA AlikeHeld ==
    ASSUME page \notin RunPages \cup {"request", "staff", "blog"}, NEW w, NEW S, NEW T, NEW gone, NEW more,
           Passes(w, S, T, gone, more)
    PROVE  StillHeld(w, gone, more)
<1>1. \A n : \A f : Holder(page, w, n, f) <=> n.op \in Holders(page, f)
  BY DEF Holder
<1>2. \A n : \A f : Holder(page, view, n, f) <=> n.op \in Holders(page, f)
  BY DEF Holder
<1>3. ASSUME NEW f \in w.busy \ {"timer", "leaving"}
      PROVE  \/ f = "loading" /\ "timer" \in w.busy
             \/ \E n \in more : n.op \in Holders(page, f)
             \/ /\ f \in view.busy /\ ~(f = "loading" /\ "timer" \in view.busy)
                /\ \A q \in gone : q.op \notin Holders(page, f)
  <2>1. CASE f \in T
    BY <1>3, <2>1 DEF Passes
  <2>2. CASE f \in view.busy \ S
    BY <1>3, <2>2 DEF Passes
  <2> QED
    BY <1>3, <2>1, <2>2 DEF Passes
<1>4. \A q \in gone : q.op # "reveal" /\ (q.op \in AtHolders(page) => \E n \in more : n.op \in AtHolders(page))
  BY DEF Passes
<1>5. w.at = view.at /\ w.mounted = view.mounted /\ (w.secrets = view.secrets \/ DOMAIN w.secrets = {})
  BY DEF Passes
<1> QED
  BY <1>1, <1>2, <1>3, <1>4, <1>5 DEF StillHeld

LEMMA AlikeAnswer ==
    ASSUME IInv, page \notin RunPages \cup {"request", "staff", "blog"}, NEW q \in flight, NEW w \in ViewOn(page), Alike(w, view),
           NEW S, "timer" \notin S, w.busy = view.busy \ S, \A f : q.op \in Holders(page, f) => f \in S,
           q.op \notin AtHolders(page) \cup {"reveal"}, Takes(q, w) \/ Fails(q, w)
    PROVE  IInv' /\ Kept
<1>1. Passes(w, S, {}, {q}, {})
  BY DEF Passes, Alike
<1>2. StillHeld(w, {q}, {})
  BY <1>1, AlikeHeld
<1> QED
  BY <1>2, TakesKeeps, FailsKeeps DEF Alike

LEMMA AlikeAsksAll ==
    ASSUME IInv, page \notin RunPages \cup {"request", "staff", "blog"}, NEW w \in ViewOn(page), Alike(w, view),
           NEW T, w.busy = view.busy \cup T, NEW qs \in SUBSET AskOn(page), IsFiniteSet(qs),
           \A f \in T : f \in {"timer", "leaving"} \/ \E n \in qs : n.op \in Holders(page, f),
           UserAsksAll(w, qs) \/ TimerAsks(w, qs)
    PROVE  IInv' /\ Kept
<1>1. Passes(w, {}, T, {}, qs)
  BY DEF Passes, Alike
<1>2. StillHeld(w, {}, qs)
  BY <1>1, AlikeHeld
<1> QED
  BY <1>2, AsksAllKeeps

LEMMA AlikeChains ==
    ASSUME IInv, page \notin RunPages \cup {"request", "staff", "blog"}, NEW q \in flight, q.state = "ok" \/ q.verb \notin Writes,
           NEW w \in ViewOn(page), Alike(w, view), NEW S, NEW T, "timer" \notin S, w.busy = (view.busy \ S) \cup T,
           NEW qs \in SUBSET AskOn(page), IsFiniteSet(qs), \A f \in T : \E n \in qs : n.op \in Holders(page, f),
           q.op # "reveal", \A f : q.op \in Holders(page, f) => f \in S \/ \E n \in qs : n.op \in Holders(page, f),
           q.op \in AtHolders(page) => \E n \in qs : n.op \in AtHolders(page),
           TakesThenAsksAll(q, w, qs)
    PROVE  IInv' /\ Kept
<1>0. Passes(w, S, T, {q}, qs)
  BY DEF Passes, Alike
<1>1. StillHeld(w, {q}, qs)
  BY <1>0, AlikeHeld
<1>2. q.state # "failed" \/ q.verb \notin Writes
  OBVIOUS
<1> QED
  BY <1>1, <1>2, TakesAsksAllKeeps
-----------------------------------------------------------------------------
(* The lists of a client. *)

LEMMA TriesKeeps ==
    ASSUME IInv, page \in {"client requests", "client dashboard"}, TriesTheOther("load", "fallback")
    PROVE  IInv' /\ Kept
<1> DEFINE n == GetList("fallback")
<1>1. PICK q \in Bad("load") : TakesThenAsks(q, view, n)
  BY DEF TriesTheOther
<1>2. q \in flight /\ q.op = "load" /\ q.verb \notin Writes
  <2>1. q \in Answers("load") /\ "load" \in Reads
    BY GoodBad DEF Reads
  <2> QED
    BY <2>1, AnswerFacts
<1>3. n \in AskOn(page) /\ n.op = "fallback"
  BY ListAsk DEF OpName, NoRowLoad, RowPages
<1> HIDE DEF n
<1>4. view \in ViewOn(page) /\ view \in TextedView
  BY ReadyFacts
<1>5. page \notin RunPages \cup {"request", "staff", "blog"}
  BY WorkPagesArePlain
<1>6. \A f : q.op \in Holders(page, f) => n.op \in Holders(page, f)
  BY <1>2, <1>3 DEF Holders, Loads
<1>7. q.op \notin AtHolders(page)
  BY <1>2 DEF AtHolders
<1>8. Passes(view, {}, {}, {q}, {n})
  BY <1>2, <1>6, <1>7 DEF Passes, Alike
<1>9. StillHeld(view, {q}, {n})
  BY <1>5, <1>8, AlikeHeld
<1> QED
  BY <1>1, <1>2, <1>3, <1>4, <1>5, <1>9, TakesAsksKeeps

LEMMA ClientRequestsKeeps == ASSUME IInv, page = "client requests", ClientRequestsNext PROVE IInv' /\ Kept
<1>1. CASE UserAsks(Busy([view EXCEPT !.error = FALSE], {"refreshing"}), GetList("load"))
  <2> DEFINE u == [view EXCEPT !.error = FALSE]
  <2>1. /\ u \in TextedView /\ u.busy = view.busy /\ u.form = view.form /\ u.at = view.at /\ u.mounted = view.mounted
        /\ u.number = view.number /\ u.secrets = view.secrets
    BY ReadyFacts, ErrorFacts
  <2>2. GetList("load") \in AskOn(page) /\ GetList("load").op = "load"
    BY ListAsk DEF OpName, NoRowLoad, RowPages
  <2>3. GetList("load").op \in Holders(page, "refreshing") /\ "refreshing" \in Flag
    BY <2>2 DEF Holders, Flag
  <2> HIDE DEF u
  <2> QED
    BY <1>1, <2>1, <2>2, <2>3, WorkPagesArePlain, LoadingClick DEF u
<1>2. CASE TriesTheOther("load", "fallback")
  BY <1>2, TriesKeeps
<1>3. ASSUME NEW q \in Settled("load", "fallback"), Takes(q, ClientRequestsTaken(q, view)) PROVE IInv' /\ Kept
  <2> DEFINE x == ListTakenOrEmptied(q, view)
             y == Free(x, {"refreshing"})
             b == q.state = "failed"
             w == [y EXCEPT !.error = b]
  <2>1. PICK op \in {"load", "fallback"} : q \in Answers(op)
    BY GoodBad DEF Settled
  <2>2. q \in flight /\ q.op = op /\ q.got \in TextedRows /\ q.verb \notin Writes
    BY <2>1, AnswerFacts DEF Reads
  <2>3. x \in TextedView /\ x.busy = view.busy \ {"loading"} /\ Alike(x, view)
    BY <2>2, ReadyFacts, ListTakenFacts DEF Alike
  <2> HIDE DEF x
  <2>4. y \in TextedView /\ y.busy = view.busy \ {"loading", "refreshing"} /\ Alike(y, view)
    <3>1. {"refreshing"} \in SUBSET Flag
      BY DEF Flag
    <3>2. x \in TextedView /\ Alike(x, view)
      BY <2>3
    <3>3. y \in TextedView
      BY <3>1, <3>2, AlikeFlags
    <3>4. y.busy = x.busy \ {"refreshing"}
      BY <3>1, <3>2, FlagFacts DEF Alike
    <3>5. Alike(y, view)
      BY <3>1, <3>2, AlikeFlags
    <3> QED
      BY <2>3, <3>3, <3>4, <3>5
  <2> HIDE DEF y
  <2>5. w \in TextedView /\ w.busy = view.busy \ {"loading", "refreshing"} /\ Alike(w, view)
    <3>1. Else(w, y)
      BY <2>4, AlikeShows
    <3> QED
      BY <2>4, <3>1, AlikeTrans DEF Else
  <2>6. Takes(q, w)
    BY <1>3 DEF ClientRequestsTaken, w, y, x
  <2> HIDE DEF w
  <2>7. (\A f : q.op \in Holders(page, f) => f \in {"loading", "refreshing"}) /\ q.op \notin AtHolders(page) \cup {"reveal"}
    BY <2>2 DEF Holders, AtHolders
  <2>8. w \in ViewOn(page)
    BY <2>5, WorkPagesArePlain, PlainView DEF Alike
  <2> QED
    BY <2>2, <2>5, <2>6, <2>7, <2>8, WorkPagesArePlain, AlikeAnswer
<1> QED
  BY <1>1, <1>2, <1>3 DEF ClientRequestsNext, ClientRequestsLoad

LEMMA ClientDashboardKeeps == ASSUME IInv, page = "client dashboard", ClientDashboardNext PROVE IInv' /\ Kept
<1>1. ASSUME NEW q \in Settled("load", "fallback"), Takes(q, ListTakenOrEmptied(q, view)) PROVE IInv' /\ Kept
  <2>1. PICK op \in {"load", "fallback"} : q \in Answers(op)
    BY GoodBad DEF Settled
  <2> QED
    BY <1>1, <2>1, WorkPagesArePlain, ListOrEmptyKeeps
<1> QED
  BY <1>1, TriesKeeps DEF ClientDashboardNext, ClientDashboardLoad

-----------------------------------------------------------------------------
(* The page of a client, notifications. *)

\* An answer whose rows are shown, or put into what is shown, and that lowers flags.
LEMMA RowsAnswer ==
    ASSUME IInv, page \notin SpecialPages, page \notin {"staff", "blog"}, NEW q \in flight, NEW rows \in TextedRows,
           NEW S \in SUBSET (Flag \ {"timer"}),
           q.op \notin AtHolders(page) \cup {"reveal"},
           \/ Takes(q, Free([view EXCEPT !.rows = rows], S)) /\ \A f : q.op \in Holders(page, f) => f \in S
           \/ Takes(q, [view EXCEPT !.rows = rows]) /\ \A f : q.op \notin Holders(page, f)
    PROVE  IInv' /\ Kept
<1> DEFINE u == [view EXCEPT !.rows = rows]
           w == Free(u, S)
<1>1. u \in TextedView /\ u.busy = view.busy /\ Alike(u, view)
  BY ReadyFacts, AlikeShows DEF Else
<1> HIDE DEF u
<1>2. w \in TextedView /\ w.busy = view.busy \ S /\ Alike(w, view)
  BY <1>1, AlikeFlags
<1> HIDE DEF w
<1>3. u \in ViewOn(page) /\ w \in ViewOn(page) /\ page \notin RunPages \cup {"request", "staff", "blog"}
  BY <1>1, <1>2, PlainView, PlainIsNoRun DEF Alike, SpecialPages, BlankPages
<1>4. CASE Takes(q, w) /\ \A f : q.op \in Holders(page, f) => f \in S
  BY <1>2, <1>3, <1>4, AlikeAnswer
<1>5. CASE Takes(q, u) /\ \A f : q.op \notin Holders(page, f)
  <2>1. u.busy = view.busy \ {} /\ \A f : q.op \in Holders(page, f) => f \in {}
    BY <1>1, <1>5
  <2> QED
    BY <1>1, <1>3, <1>5, <2>1, AlikeAnswer
<1> QED
  BY <1>4, <1>5 DEF w, u

LEMMA ClientKeeps == ASSUME IInv, page = "client", ClientNext PROVE IInv' /\ Kept
<1>1. ASSUME NEW q \in Answers("load"), Takes(q, Free([view EXCEPT !.rows = q.got], {"loading"})) PROVE IInv' /\ Kept
  <2>1. q \in flight /\ q.op = "load" /\ q.got \in TextedRows
    BY <1>1, AnswerFacts
  <2>2. (\A f : q.op \in Holders(page, f) => f \in {"loading"}) /\ q.op \notin AtHolders(page) \cup {"reveal"}
    BY <2>1 DEF Holders, AtHolders
  <2>3. {"loading"} \in SUBSET (Flag \ {"timer"})
    BY DEF Flag
  <2> QED
    BY <1>1, <2>1, <2>2, <2>3, WorkPagesArePlain, RowsAnswer
<1>2. ASSUME NEW q \in Answers("requests"), Takes(q, Free([view EXCEPT !.choices = DOMAIN q.got], {"requests"}))
      PROVE  IInv' /\ Kept
  <2> DEFINE u == [view EXCEPT !.choices = DOMAIN q.got]
             w == Free(u, {"requests"})
  <2>1. q \in flight /\ q.op = "requests" /\ q.got \in TextedRows /\ DOMAIN q.got \in SUBSET Row
    BY <1>2, AnswerFacts, RowsElim
  <2>2. (\A f : q.op \in Holders(page, f) => f \in {"requests"}) /\ q.op \notin AtHolders(page) \cup {"reveal"}
    BY <2>1 DEF Holders, AtHolders, Loads
  <2>3. u \in TextedView /\ u.busy = view.busy /\ Alike(u, view)
    BY <2>1, ReadyFacts, AlikeShows DEF Else
  <2> HIDE DEF u
  <2>4. w \in TextedView /\ w.busy = view.busy \ {"requests"} /\ Alike(w, view)
    BY <2>3, AlikeFlags DEF Flag
  <2> HIDE DEF w
  <2>5. w \in ViewOn(page)
    BY <2>4, WorkPagesArePlain, PlainView DEF Alike
  <2> QED
    BY <1>2, <2>1, <2>2, <2>4, <2>5, WorkPagesArePlain, AlikeAnswer DEF w, u
<1> QED
  BY <1>1, <1>2 DEF ClientNext, ClientLoad, ClientRequests

\* A notification that has been read.
LEMMA ReadFits ==
    ASSUME IInv, page # "profile", NEW r \in Row
    PROVE  Update("read", Read(r)) \in AskOn(page) /\ Update("read", Read(r)).op = "read"
<1>1. Read(r) \in TextedForm /\ Read(r).row # NONE
  BY NoneIsNoRow DEF Read, TextedForm, Form, Text, TextsFor
<1> QED
  BY <1>1, ReadyFacts, UpdateFits DEF OpName, Reads

LEMMA AllReadTexted == ASSUME NEW rows \in TextedRows PROVE AllRead(rows) \in TextedRows
<1>1. DOMAIN rows \in SUBSET Row
  BY RowsElim
<1> DEFINE S == DOMAIN rows
<1>2. AllRead(rows) = [r \in S |-> "typed"]
  BY DEF AllRead
<1> HIDE DEF S
<1>3. AllRead(rows) \in [S -> Text] /\ \A r \in S : AllRead(rows)[r] \in TextsFor(r)
  BY <1>2 DEF Text, TextsFor
<1> QED
  BY <1>1, <1>3, RowsIntro DEF S

LEMMA NotificationsKeeps == ASSUME IInv, page = "notifications", NotificationsNext PROVE IInv' /\ Kept
<1>0. \A op \in {"read", "all"} : op \notin AtHolders(page) \cup {"reveal"} /\ \A f : op \in Holders(page, f) => op = "all" /\ f = "markingAll"
  BY DEF Holders, AtHolders, Loads
<1>1. CASE UserAsks(Busy(view, {"loading"}), GetList("load"))
  BY <1>1, WorkPagesArePlain, ListClick
<1>2. ASSUME NEW q \in Answers("load"), Takes(q, ListTakenOrEmptied(q, view)) PROVE IInv' /\ Kept
  BY <1>2, WorkPagesArePlain, ListOrEmptyKeeps
<1>3. ASSUME NEW r \in DOMAIN view.rows, UserAsks(view, Update("read", Read(r))) PROVE IInv' /\ Kept
  BY <1>3, RowsOfView, ReadFits, WorkPagesArePlain, QuietClick
<1>4. ASSUME NEW q \in Good("read"), Takes(q, [view EXCEPT !.rows = Put(q.row, "typed")]) PROVE IInv' /\ Kept
  <2>1. q \in flight /\ q.op = "read"
    BY <1>4, AnswerFacts, GoodBad
  <2>2. Put(q.row, "typed") \in TextedRows
    BY PutTexted DEF Text, TextsFor
  <2>3. {"loading"} \in SUBSET (Flag \ {"timer"})
    BY DEF Flag
  <2>4. (\A f : q.op \notin Holders(page, f)) /\ q.op \notin AtHolders(page) \cup {"reveal"}
    BY <1>0, <2>1
  <2> QED
    BY <1>4, <2>1, <2>2, <2>3, <2>4, WorkPagesArePlain, RowsAnswer
<1>5. ASSUME NEW q \in Bad("read"), Fails(q, view) PROVE IInv' /\ Kept
  <2>1. q \in flight /\ q.op = "read"
    BY <1>5, AnswerFacts, GoodBad
  <2> QED
    BY <1>0, <1>5, <2>1, WorkPagesArePlain, QuietAnswer
<1>6. CASE UserAsks(Busy(view, {"markingAll"}), UpdateAll("all", "typed"))
  <2>1. UpdateAll("all", "typed") \in AskOn(page) /\ UpdateAll("all", "typed").op = "all"
    BY ReadyFacts, UpdateAllFits DEF OpName, Reads
  <2>2. UpdateAll("all", "typed").op \in Holders(page, "markingAll") /\ "markingAll" \in Flag
    BY <2>1 DEF Holders, Flag
  <2> QED
    BY <1>6, <2>1, <2>2, WorkPagesArePlain, FlagClick
<1>7. ASSUME NEW q \in Good("all"), Takes(q, Free([view EXCEPT !.rows = AllRead(view.rows)], {"markingAll"})) PROVE IInv' /\ Kept
  <2>1. q \in flight /\ q.op = "all"
    BY <1>7, AnswerFacts, GoodBad
  <2>2. AllRead(view.rows) \in TextedRows
    BY ReadyFacts, AllReadTexted DEF TextedView
  <2>3. {"markingAll"} \in SUBSET (Flag \ {"timer"})
    BY DEF Flag
  <2>4. \A f : q.op \in Holders(page, f) => f \in {"markingAll"}
    BY <1>0, <2>1
  <2> QED
    BY <1>0, <1>7, <2>1, <2>2, <2>3, <2>4, WorkPagesArePlain, RowsAnswer
<1>8. ASSUME NEW q \in Bad("all"), Fails(q, Free(view, {"markingAll"})) PROVE IInv' /\ Kept
  <2>1. q \in flight /\ q.op = "all"
    BY <1>8, AnswerFacts, GoodBad
  <2>3. {"markingAll"} \in SUBSET (Flag \ {"timer"})
    BY DEF Flag
  <2>4. (\A f : q.op \in Holders(page, f) => f \in {"markingAll"}) /\ q.op \notin AtHolders(page) \cup {"reveal"}
    BY <1>0, <2>1
  <2> QED
    BY <1>8, <2>1, <2>3, <2>4, WorkPagesArePlain, FlagAnswer
<1> QED
  BY <1>1, <1>2, <1>3, <1>4, <1>5, <1>6, <1>7, <1>8
     DEF NotificationsNext, NotificationsLoad, NotificationsOpenOne, NotificationsMarkAll, NotificationsList

-----------------------------------------------------------------------------
(* Passwords that are shown. *)

\* One password more that is on its way.
LEMMA WaitingTexted ==
    ASSUME NEW s \in TextedSecrets, NEW r \in Row
    PROVE  LET t == [e \in DOMAIN s \cup {r} |-> IF e = r THEN "waiting" ELSE s[e]] IN
           /\ t \in TextedSecrets
           /\ \A e \in DOMAIN t : t[e] = "waiting" => e = r \/ (e \in DOMAIN s /\ s[e] = "waiting")
<1>1. /\ DOMAIN s \in SUBSET Row /\ s \in [DOMAIN s -> Text \cup {"waiting"}]
      /\ \A e \in DOMAIN s : s[e] \in TextsFor(e) \cup {"waiting"}
  BY SecretsElim
<1> DEFINE S == DOMAIN s \cup {r}
           t == [e \in S |-> IF e = r THEN "waiting" ELSE s[e]]
<1>2. S \in SUBSET Row /\ \A e \in S : e = r \/ e \in DOMAIN s
  BY <1>1
<1> HIDE DEF S
<1>3. t \in [S -> Text \cup {"waiting"}] /\ \A e \in S : t[e] \in TextsFor(e) \cup {"waiting"}
  BY <1>1, <1>2
<1>4. t \in TextedSecrets
  BY <1>2, <1>3, SecretsIntro
<1>5. DOMAIN t = S /\ \A e \in S : t[e] = "waiting" => e = r \/ (e \in DOMAIN s /\ s[e] = "waiting")
  BY <1>2
<1> QED
  BY <1>4, <1>5 DEF S

LEMMA ForgetTexted ==
    ASSUME NEW s \in TextedSecrets, NEW r
    PROVE  LET t == Restrict(s, DOMAIN s \ {r}) IN
           /\ t \in TextedSecrets
           /\ \A e \in DOMAIN t : t[e] = "waiting" => e # r /\ e \in DOMAIN s /\ s[e] = "waiting"
<1>1. /\ DOMAIN s \in SUBSET Row /\ s \in [DOMAIN s -> Text \cup {"waiting"}]
      /\ \A e \in DOMAIN s : s[e] \in TextsFor(e) \cup {"waiting"}
  BY SecretsElim
<1> DEFINE S == DOMAIN s \ {r}
           t == Restrict(s, S)
<1>2. S \in SUBSET Row /\ \A e \in S : e # r /\ e \in DOMAIN s
  BY <1>1
<1>3. t = [e \in S |-> s[e]]
  BY DEF Restrict
<1> HIDE DEF S, t
<1>4. t \in [S -> Text \cup {"waiting"}] /\ \A e \in S : t[e] \in TextsFor(e) \cup {"waiting"}
  BY <1>1, <1>2, <1>3
<1>5. t \in TextedSecrets
  BY <1>2, <1>4, SecretsIntro
<1>6. DOMAIN t = S /\ \A e \in S : t[e] = "waiting" => e # r /\ e \in DOMAIN s /\ s[e] = "waiting"
  BY <1>2, <1>3
<1> QED
  BY <1>5, <1>6 DEF S, t

\* A password that has come.
PutIn(s, r, text) == [s EXCEPT ![r] = text]
AddedTo(s, r, text) == [e \in DOMAIN s \cup {r} |-> IF e = r THEN text ELSE s[e]]

LEMMA ShownTexted ==
    ASSUME NEW s \in TextedSecrets, NEW r \in Row, NEW text \in Text, text \in TextsFor(r)
    PROVE  /\ PutIn(s, r, text) \in TextedSecrets /\ AddedTo(s, r, text) \in TextedSecrets
           /\ \A e \in DOMAIN PutIn(s, r, text) : PutIn(s, r, text)[e] = "waiting" => e # r /\ e \in DOMAIN s /\ s[e] = "waiting"
           /\ \A e \in DOMAIN AddedTo(s, r, text) : AddedTo(s, r, text)[e] = "waiting" => e # r /\ e \in DOMAIN s /\ s[e] = "waiting"
<1>1. /\ DOMAIN s \in SUBSET Row /\ s \in [DOMAIN s -> Text \cup {"waiting"}]
      /\ \A e \in DOMAIN s : s[e] \in TextsFor(e) \cup {"waiting"}
  BY SecretsElim
<1>2. text # "waiting"
  BY NoneIsNoRow DEF TextsFor
<1> DEFINE S == DOMAIN s
           R == DOMAIN s \cup {r}
           t == [s EXCEPT ![r] = text]
           u == [e \in R |-> IF e = r THEN text ELSE s[e]]
<1>3. R \in SUBSET Row /\ \A e \in R : e = r \/ e \in S
  BY <1>1
<1>4. t \in [S -> Text \cup {"waiting"}] /\ DOMAIN t = S /\ \A e \in S : t[e] = IF e = r THEN text ELSE s[e]
  BY <1>1
<1> HIDE DEF R, t
<1>5. u \in [R -> Text \cup {"waiting"}] /\ DOMAIN u = R /\ \A e \in R : u[e] \in TextsFor(e) \cup {"waiting"}
  BY <1>1, <1>3
<1>6. \A e \in S : t[e] \in TextsFor(e) \cup {"waiting"}
  BY <1>1, <1>4
<1>7. t \in TextedSecrets /\ u \in TextedSecrets
  BY <1>1, <1>3, <1>4, <1>5, <1>6, SecretsIntro
<1>8. \A e \in S : t[e] = "waiting" => e # r /\ e \in S /\ s[e] = "waiting"
  BY <1>2, <1>4
<1>9. \A e \in R : u[e] = "waiting" => e # r /\ e \in S /\ s[e] = "waiting"
  BY <1>2, <1>3
<1> QED
  BY <1>4, <1>5, <1>7, <1>8, <1>9 DEF t, R, PutIn, AddedTo

LEMMA RevealAsk ==
    ASSUME IInv, NEW r \in Row
    PROVE  GetRow("reveal", r) \in AskOn(page) /\ GetRow("reveal", r).op = "reveal" /\ GetRow("reveal", r).row = r
  BY ReadyFacts, GetRowFits DEF OpName, RowLoads, NoRowLoad

LEMMA RevealButtonKeeps ==
    ASSUME IInv, page \in {"client credentials", "admin credentials"}, NEW rows \in SUBSET DOMAIN view.rows, RevealButton(rows)
    PROVE  IInv' /\ Kept
<1>0. /\ page \notin SpecialPages /\ page \notin RunPages /\ view \in TextedView /\ view.secrets \in TextedSecrets
      /\ page \notin {"staff", "blog"} /\ view \in ViewOn(page) /\ \A f : "reveal" \notin Holders(page, f)
      /\ "reveal" \notin AtHolders(page)
  BY WorkPagesArePlain, ReadyFacts DEF TextedView, Holders, Loads, AtHolders
<1>1. ASSUME NEW r \in rows, UserAsks([view EXCEPT !.secrets = [e \in DOMAIN view.secrets \cup {r} |->
                  IF e = r THEN "waiting" ELSE view.secrets[e]]], GetRow("reveal", r))
      PROVE  IInv' /\ Kept
  <2> DEFINE t == [e \in DOMAIN view.secrets \cup {r} |-> IF e = r THEN "waiting" ELSE view.secrets[e]]
             w == [view EXCEPT !.secrets = t]
             n == GetRow("reveal", r)
  <2>1. r \in Row
    BY RowsOfView
  <2>2. /\ t \in TextedSecrets
        /\ \A e \in DOMAIN t : t[e] = "waiting" => e = r \/ (e \in DOMAIN view.secrets /\ view.secrets[e] = "waiting")
    BY <1>0, <2>1, WaitingTexted
  <2>3. UserAsks(w, n)
    BY <1>1
  <2> HIDE DEF t
  <2>4. /\ w \in TextedView /\ w.busy = view.busy /\ w.form = view.form /\ w.at = view.at /\ w.mounted = view.mounted
        /\ w.number = view.number /\ w.secrets = t
    BY <1>0, <2>2 DEF TextedView
  <2> HIDE DEF w
  <2>5. n \in AskOn(page) /\ n.op = "reveal" /\ n.row = r
    BY <2>1, RevealAsk
  <2> HIDE DEF n
  <2>6. StillHeld(w, {}, {n})
    BY <1>0, <2>2, <2>4, <2>5 DEF StillHeld, IInv, HeldAll
  <2>7. w \in ViewOn(page)
    BY <1>0, <2>4, PlainView
  <2> QED
    BY <1>0, <2>3, <2>5, <2>6, <2>7, AsksKeeps
<1>2. ASSUME NEW s \in TextedSecrets, NEW gone \in SUBSET flight, \A q \in gone : q.op = "reveal",
             \A e \in DOMAIN s : s[e] = "waiting" =>
                 e \in DOMAIN view.secrets /\ view.secrets[e] = "waiting" /\ \A q \in gone : e # q.row
      PROVE  [view EXCEPT !.secrets = s] \in ViewOn(page) /\ StillHeld([view EXCEPT !.secrets = s], gone, {})
  <2> DEFINE w == [view EXCEPT !.secrets = s]
  <2>1. /\ w \in TextedView /\ w.busy = view.busy /\ w.form = view.form /\ w.at = view.at /\ w.mounted = view.mounted
        /\ w.number = view.number /\ w.secrets = s
    BY <1>0 DEF TextedView
  <2> HIDE DEF w
  <2>2. w \in ViewOn(page)
    BY <1>0, <2>1, PlainView
  <2>3. \A q \in gone : (\A f : ~Holder(page, view, q, f)) /\ q.op \notin AtHolders(page)
    BY <1>0, <1>2 DEF Holder
  <2>4. StillHeld(w, gone, {})
    BY <1>0, <1>2, <2>1, <2>3, ZenonT(30) DEF StillHeld, IInv, HeldAll
  <2> QED
    BY <2>2, <2>4 DEF w
<1>3. ASSUME NEW q \in Answers("reveal"),
             Takes(q, IF q.row \notin DOMAIN view.secrets THEN view
                      ELSE IF q.state = "ok" /\ q.row \in DOMAIN q.got THEN [view EXCEPT !.secrets[q.row] = q.got[q.row]]
                      ELSE [view EXCEPT !.secrets = Restrict(view.secrets, DOMAIN view.secrets \ {q.row})])
      PROVE  IInv' /\ Kept
  <2>1. q \in flight /\ q.op = "reveal" /\ q.got \in TextedRows /\ q.verb \notin Writes
    BY <1>3, AnswerFacts, ZenonT(30) DEF Reads
  <2>2. CASE q.row \notin DOMAIN view.secrets
    <3>1. \A f : ~Holder(page, view, q, f)
      BY <1>0, <2>1 DEF Holder
    <3>2. StillHeld(view, {q}, {})
      BY <1>0, <2>1, <2>2, <3>1, ZenonT(30) DEF StillHeld, IInv, HeldAll
    <3> QED
      BY <1>0, <1>3, <2>1, <2>2, <3>2, TakesKeeps
  <2>3. CASE q.row \in DOMAIN view.secrets /\ q.state = "ok" /\ q.row \in DOMAIN q.got
    <3> DEFINE s == PutIn(view.secrets, q.row, q.got[q.row])
    <3>1. q.row \in Row /\ q.got[q.row] \in Text /\ q.got[q.row] \in TextsFor(q.row)
      BY <2>1, <2>3, RowsElim
    <3>2. s \in TextedSecrets /\ \A e \in DOMAIN s : s[e] = "waiting" => e # q.row /\ e \in DOMAIN view.secrets /\ view.secrets[e] = "waiting"
      BY <1>0, <3>1, ShownTexted
    <3>3. [view EXCEPT !.secrets[q.row] = q.got[q.row]] = [view EXCEPT !.secrets = s]
      BY DEF PutIn
    <3> HIDE DEF s
    <3>4. [view EXCEPT !.secrets = s] \in ViewOn(page) /\ StillHeld([view EXCEPT !.secrets = s], {q}, {})
      BY <1>2, <2>1, <3>2
    <3>5. Takes(q, [view EXCEPT !.secrets = s])
      BY <1>3, <2>3, <3>3
    <3> QED
      BY <1>0, <2>1, <3>4, <3>5, TakesKeeps
  <2>4. CASE q.row \in DOMAIN view.secrets /\ ~(q.state = "ok" /\ q.row \in DOMAIN q.got)
    <3> DEFINE s == Restrict(view.secrets, DOMAIN view.secrets \ {q.row})
    <3>2. s \in TextedSecrets /\ \A e \in DOMAIN s : s[e] = "waiting" => e # q.row /\ e \in DOMAIN view.secrets /\ view.secrets[e] = "waiting"
      BY <1>0, ForgetTexted
    <3>5. Takes(q, [view EXCEPT !.secrets = s])
      BY <1>3, <2>4
    <3> HIDE DEF s
    <3>4. [view EXCEPT !.secrets = s] \in ViewOn(page) /\ StillHeld([view EXCEPT !.secrets = s], {q}, {})
      BY <1>2, <2>1, <3>2
    <3> QED
      BY <1>0, <2>1, <3>4, <3>5, TakesKeeps
  <2> QED
    BY <2>2, <2>3, <2>4
<1>4. ASSUME NEW r, UserDoes([view EXCEPT !.secrets = Restrict(view.secrets, DOMAIN view.secrets \ {r})])
      PROVE  IInv' /\ Kept
  <2> DEFINE s == Restrict(view.secrets, DOMAIN view.secrets \ {r})
  <2>1. s \in TextedSecrets /\ \A e \in DOMAIN s : s[e] = "waiting" => e \in DOMAIN view.secrets /\ view.secrets[e] = "waiting"
    BY <1>0, ForgetTexted
  <2>2. UserDoes([view EXCEPT !.secrets = s])
    BY <1>4
  <2> HIDE DEF s
  <2>3. [view EXCEPT !.secrets = s] \in ViewOn(page) /\ StillHeld([view EXCEPT !.secrets = s], {}, {})
    BY <1>2, <2>1
  <2> QED
    BY <1>0, <2>2, <2>3, DoesKeeps
<1> QED
  BY <1>1, <1>3, <1>4 DEF RevealButton

LEMMA ClientCredentialsKeeps == ASSUME IInv, page = "client credentials", ClientCredentialsNext PROVE IInv' /\ Kept
<1>1. ClientCredentialsCards \in SUBSET DOMAIN view.rows
  BY DEF ClientCredentialsCards
<1>2. CASE CredentialCardReveal
  BY <1>1, <1>2, RevealButtonKeeps DEF CredentialCardReveal
<1>3. CASE ClientCredentialsRefresh \/ ClientCredentialsModal \/ CredentialFormField \/ ClientCredentialsDelete
  <2>1. EditorStep
    BY <1>1, <1>3, NoneIsNoRow, RowsOfView DEF EditorStep, EditorTurn, ClientCredentialsRefresh, ClientCredentialsModal, CredentialFormField,
       ClientCredentialsDelete, CredentialFormInitial, ClientCredentialsCards
  <2> QED
    BY <2>1, EditorStepKeeps DEF EditorPages
<1>4. CASE ClientCredentialsSave
  <2>1. SavesClosesReloads(view.form # NONE)
    BY <1>4 DEF ClientCredentialsSave, CredentialFormValid, SavesClosesReloads
  <2> QED
    BY <2>1, EditorStepKeeps DEF EditorPages, EditorStep, EditorTurn
<1> QED
  BY <1>2, <1>3, <1>4 DEF ClientCredentialsNext

-----------------------------------------------------------------------------
(* Documents and logins of all. *)

LEMMA DownloadsKeeps ==
    ASSUME IInv, page \notin RunPages, NEW rows \in SUBSET Row, Downloads(rows)
    PROVE  IInv' /\ Kept
<1>1. ASSUME NEW r \in rows, UserAsks(view, GetRow("download", r)) PROVE IInv' /\ Kept
  <2>1. GetRow("download", r) \in AskOn(page)
    BY ReadyFacts, GetRowFits DEF OpName, RowLoads, NoRowLoad
  <2> QED
    BY <1>1, <2>1, QuietClick
<1>2. ASSUME NEW q \in Answers("download"), Takes(q, view) PROVE IInv' /\ Kept
  <2>1. q \in flight /\ q.op = "download"
    BY <1>2, AnswerFacts
  <2>2. (\A f : q.op \notin Holders(page, f)) /\ q.op \notin AtHolders(page)
    BY <2>1 DEF Holders, AtHolders, Loads
  <2> QED
    BY <1>2, <2>1, <2>2, QuietAnswer
<1> QED
  BY <1>1, <1>2 DEF Downloads

LEMMA AdminDocumentsKeeps == ASSUME IInv, page = "admin documents", AdminDocumentsNext PROVE IInv' /\ Kept
<1>0. /\ page \notin SpecialPages /\ page \notin RunPages /\ page \notin BusyPages \cup RowPages /\ view \in TextedView
      /\ view.asked \in Query /\ "load" \in Holders(page, "loading") /\ "loading" \in Flag
      /\ \A f : "delete" \notin Holders(page, f)
  BY WorkPagesArePlain, ReadyFacts DEF TextedView, Holders, Loads, Flag
<1>1. \A query \in Query : GetFiltered("load", query) \in AskOn(page) /\ GetFiltered("load", query).op = "load"
  BY <1>0, FilteredAsk
<1>2. CASE UserAsks(Busy([view EXCEPT !.error = FALSE], {"loading"}), AdminDocumentsAsks)
  <2> DEFINE u == [view EXCEPT !.error = FALSE]
  <2>1. /\ u \in TextedView /\ u.busy = view.busy /\ u.form = view.form /\ u.at = view.at /\ u.mounted = view.mounted
        /\ u.number = view.number /\ u.secrets = view.secrets
    BY <1>0, ErrorFacts
  <2>2. UserAsks(Busy(u, {"loading"}), GetFiltered("load", view.asked))
    BY <1>2 DEF AdminDocumentsAsks
  <2> HIDE DEF u
  <2> QED
    BY <1>0, <1>1, <2>1, <2>2, LoadingClick
<1>3. ASSUME NEW q \in Answers("load"), Takes(q, [ListTakenOrEmptied(q, view) EXCEPT !.error = @ \/ q.state = "failed"])
      PROVE  IInv' /\ Kept
  <2> DEFINE b == ListTakenOrEmptied(q, view).error \/ q.state = "failed"
  <2>1. Takes(q, [ListTakenOrEmptied(q, view) EXCEPT !.error = b]) /\ b \in BOOLEAN
    BY <1>3
  <2> HIDE DEF b
  <2> QED
    BY <1>0, <2>1, ListOrEmptyKeeps
<1>4. ASSUME NEW query \in Query,
             UserAsks(Busy([view EXCEPT !.asked = query, !.error = FALSE], {"loading"}), GetFiltered("load", query))
      PROVE  IInv' /\ Kept
  <2> DEFINE u == [view EXCEPT !.asked = query, !.error = FALSE]
  <2>1. /\ u \in TextedView /\ u.busy = view.busy /\ u.form = view.form /\ u.at = view.at /\ u.mounted = view.mounted
        /\ u.number = view.number /\ u.secrets = view.secrets
    BY <1>0 DEF TextedView
  <2>2. UserAsks(Busy(u, {"loading"}), GetFiltered("load", query))
    BY <1>4
  <2> HIDE DEF u
  <2> QED
    BY <1>0, <1>1, <2>1, <2>2, LoadingClick
<1>5. CASE DocumentDownload
  <2>1. DocumentFolders \in SUBSET Row
    BY RowsOfView DEF DocumentFolders
  <2> QED
    BY <1>0, <1>5, <2>1, DownloadsKeeps DEF DocumentDownload
<1>6. ASSUME NEW r \in DocumentFolders, UserAsks(view, Delete("delete", r)) PROVE IInv' /\ Kept
  <2>1. r \in Row
    BY RowsOfView DEF DocumentFolders
  <2> QED
    BY <1>0, <1>6, <2>1, RowClick
<1>7. ASSUME NEW q \in Good("delete"),
             TakesThenAsks(q, Busy([view EXCEPT !.error = FALSE], {"loading"}), AdminDocumentsAsks)
      PROVE  IInv' /\ Kept
  <2> DEFINE u == [view EXCEPT !.error = FALSE]
             w == Busy(u, {"loading"})
             n == GetFiltered("load", view.asked)
  <2>1. q \in flight /\ q.op = "delete" /\ q.state = "ok"
    BY <1>7, AnswerFacts, GoodBad
  <2>2. TakesThenAsks(q, w, n)
    BY <1>7 DEF AdminDocumentsAsks
  <2>3. n \in AskOn(page) /\ n.op = "load"
    BY <1>0, <1>1
  <2> HIDE DEF n
  <2>4. u \in TextedView /\ u.busy = view.busy /\ Alike(u, view)
    BY <1>0, AlikeShows DEF Else
  <2> HIDE DEF u
  <2>5. w \in TextedView /\ w.busy = view.busy \cup {"loading"} /\ Alike(w, view)
    <3>1. {"loading"} \in SUBSET Flag
      BY DEF Flag
    <3> QED
      <4>1. u \in TextedView
        BY <2>4
      <4>2. w \in TextedView /\ w.busy = u.busy \cup {"loading"}
        BY <4>1, <3>1, FlagFacts
      <4>3. w.at = u.at /\ w.mounted = u.mounted /\ w.number = u.number /\ w.form = u.form /\ w.edits = u.edits
        BY <4>1, <3>1, FlagFacts
      <4>4. w.secrets = u.secrets
        BY <4>1, <3>1, FlagFacts
      <4> HIDE DEF w
      <4> QED
        BY <2>4, <4>2, <4>3, <4>4 DEF Alike
  <2> HIDE DEF w
  <2>6. w \in ViewOn(page)
    BY <1>0, <2>5, PlainView DEF Alike
  <2>7. Passes(w, {}, {"loading"}, {q}, {n})
    BY <1>0, <2>1, <2>3, <2>5 DEF Passes, Alike, AtHolders
  <2>8. StillHeld(w, {q}, {n})
    BY <1>0, <2>7, AlikeHeld
  <2> QED
    BY <1>0, <2>1, <2>2, <2>3, <2>6, <2>8, TakesAsksKeeps
<1>8. ASSUME NEW q \in Bad("delete"), Fails(q, view) PROVE IInv' /\ Kept
  <2>1. q \in flight /\ q.op = "delete" /\ q.op \notin AtHolders(page)
    BY <1>8, AnswerFacts, GoodBad DEF AtHolders
  <2> QED
    BY <1>0, <1>8, <2>1, QuietAnswer
<1> QED
  BY <1>2, <1>3, <1>4, <1>5, <1>6, <1>7, <1>8 DEF AdminDocumentsNext, AdminDocumentsLoad, AdminDocumentsFilter, DocumentDelete

\* A patch, or the removal of a row, that remembers what was asked for.
LEMMA AskedPatchFits ==
    ASSUME IInv, NEW op \in {"toggle", "delete"}, NEW r \in Row, NEW query \in Query
    PROVE  [Patch(op, r) EXCEPT !.query = query] \in AskOn(page) /\ [Delete(op, r) EXCEPT !.query = query] \in AskOn(page)
<1>1. op \in OpName \ Reads
  BY DEF OpName, Reads
<1>2. ASSUME NEW a \in {Patch(op, r), Delete(op, r)} PROVE [a EXCEPT !.query = query] \in AskOn(page)
  <2>1. a \in AskOn(page) /\ a.verb # "list"
    <3>1. Patch(op, r).verb = "patch" /\ Delete(op, r).verb = "delete"
      BY DEF Patch, Delete, Request
    <3>2. Patch(op, r) \in AskOn(page) /\ Delete(op, r) \in AskOn(page)
      BY <1>1, ReadyFacts, PatchFits
    <3> QED
      BY <3>1, <3>2
  <2>2. a \in AskFields /\ AskRules(a)
    BY <2>1 DEF AskOn, TextedAsk
  <2> DEFINE n == [a EXCEPT !.query = query]
  <2>3. /\ n \in AskFields /\ n.op = a.op /\ n.verb = a.verb /\ n.row = a.row /\ n.text = a.text /\ n.state = a.state /\ n.got = a.got
    BY <2>2 DEF AskFields
  <2> HIDE DEF n
  <2>4. AskRules(n)
    BY <2>1, <2>2, <2>3 DEF AskRules
  <2>5. n \in AskOn(page)
    BY <2>1, <2>3, <2>4 DEF AskOn, TextedAsk
  <2> QED
    BY <2>5 DEF n
<1> QED
  BY <1>2

LEMMA AdminCredentialsReloadKeeps ==
    ASSUME IInv, page = "admin credentials", NEW op \in {"toggle", "delete"}, AdminCredentialsReload(op) PROVE IInv' /\ Kept
<1>0. (\A f : op \notin Holders(page, f)) /\ op \notin AtHolders(page) \cup {"reveal"}
  BY DEF Holders, Loads, AtHolders
<1>1. ASSUME NEW q \in Good(op), TakesThenAsks(q, Busy(view, {"loading"}), GetFiltered("load", q.query)) PROVE IInv' /\ Kept
  <2>1. q \in flight /\ q.op = op /\ q.state = "ok" /\ q.query \in Query
    BY <1>1, AnswerFacts, GoodBad
  <2>2. GetFiltered("load", q.query) \in AskOn(page) /\ GetFiltered("load", q.query).op = "load"
    BY <2>1, WorkPagesArePlain, FilteredAsk
  <2> QED
    BY <1>0, <1>1, <2>1, <2>2, WorkPagesArePlain, ReloadAnswer DEF Loads
<1>2. ASSUME NEW q \in Bad(op), Fails(q, view) PROVE IInv' /\ Kept
  <2>1. q \in flight /\ q.op = op
    BY <1>2, AnswerFacts, GoodBad
  <2> QED
    BY <1>0, <1>2, <2>1, WorkPagesArePlain, QuietAnswer
<1> QED
  BY <1>1, <1>2 DEF AdminCredentialsReload

LEMMA AdminCredentialsKeeps == ASSUME IInv, page = "admin credentials", AdminCredentialsNext PROVE IInv' /\ Kept
<1>0. /\ page \notin SpecialPages /\ page \notin RunPages /\ page \notin BusyPages \cup RowPages /\ view \in TextedView
      /\ view.asked \in Query /\ "load" \in Holders(page, "loading") /\ "loading" \in Flag /\ page \notin BusyPages
  BY WorkPagesArePlain, ReadyFacts DEF TextedView, Holders, Loads, Flag
<1>1. \A query \in Query : GetFiltered("load", query) \in AskOn(page) /\ GetFiltered("load", query).op = "load"
  BY <1>0, FilteredAsk
<1>2. CASE UserAsks(Busy(view, {"loading"}), GetFiltered("load", view.asked))
  BY <1>0, <1>1, <1>2, LoadClick DEF Loads
<1>3. CASE LoadTaken
  BY <1>0, <1>3, LoadTakenKeeps
<1>4. ASSUME NEW query \in Query,
             UserAsks(Busy([view EXCEPT !.asked = query], {"loading"}), GetFiltered("load", query))
      PROVE  IInv' /\ Kept
  <2> DEFINE u == [view EXCEPT !.asked = query]
  <2>1. /\ u \in TextedView /\ u.busy = view.busy /\ u.form = view.form /\ u.at = view.at /\ u.mounted = view.mounted
        /\ u.number = view.number /\ u.secrets = view.secrets
    BY <1>0 DEF TextedView
  <2>2. UserAsks(Busy(u, {"loading"}), GetFiltered("load", query))
    BY <1>4
  <2> HIDE DEF u
  <2> QED
    BY <1>0, <1>1, <2>1, <2>2, LoadingClick
<1>5. AdminCredentialsShown \in SUBSET DOMAIN view.rows /\ AdminCredentialsShown \in SUBSET Row
  BY RowsOfView DEF AdminCredentialsShown
<1>6. ASSUME NEW r \in AdminCredentialsShown, UserAsks(view, [Patch("toggle", r) EXCEPT !.query = view.asked]) PROVE IInv' /\ Kept
  <2>1. [Patch("toggle", r) EXCEPT !.query = view.asked] \in AskOn(page)
    BY <1>0, <1>5, AskedPatchFits, Zenon
  <2> QED
    BY <1>0, <1>6, <2>1, QuietClick
<1>7. ASSUME NEW r \in AdminCredentialsShown, UserAsks(view, [Delete("delete", r) EXCEPT !.query = view.asked]) PROVE IInv' /\ Kept
  <2>1. [Delete("delete", r) EXCEPT !.query = view.asked] \in AskOn(page)
    BY <1>0, <1>5, AskedPatchFits, Zenon
  <2> QED
    BY <1>0, <1>7, <2>1, QuietClick
<1>8. CASE AdminCredentialsReload("toggle") \/ AdminCredentialsReload("delete")
  BY <1>8, AdminCredentialsReloadKeeps
<1>9. CASE RevealButton(AdminCredentialsShown)
  BY <1>5, <1>9, RevealButtonKeeps
<1> QED
  BY <1>2, <1>3, <1>4, <1>6, <1>7, <1>8, <1>9
     DEF AdminCredentialsNext, AdminCredentialsLoad, AdminCredentialsClient, AdminCredentialsToggle, AdminCredentialsDelete

LEMMA AlikeBusy ==
    ASSUME NEW v, NEW u \in TextedView, Alike(u, v), NEW S \in SUBSET Flag
    PROVE  Busy(u, S) \in TextedView /\ Alike(Busy(u, S), v) /\ Busy(u, S).busy = u.busy \cup S
  BY FlagFacts DEF Alike

LEMMA AlikeFree ==
    ASSUME NEW v, NEW u \in TextedView, Alike(u, v), NEW S \in SUBSET Flag
    PROVE  Free(u, S) \in TextedView /\ Alike(Free(u, S), v) /\ Free(u, S).busy = u.busy \ S
  BY FlagFacts DEF Alike

-----------------------------------------------------------------------------
(* Logins of an accountant's clients.  A password is kept once it has come: *)
(* none is on its way in secrets.                                           *)

CredentialPages == {"accountant credentials", "credentials card"}

LEMMA CredentialPagesArePlain ==
    page \in CredentialPages =>
        /\ page \notin SpecialPages /\ page \notin RunPages \cup {"request", "staff", "blog"} /\ page \notin BusyPages \cup RowPages
        /\ AtHolders(page) = {"reveal"} /\ \A f : "reveal" \notin Holders(page, f)
<1> SUFFICES ASSUME page \in CredentialPages
             PROVE  /\ page \notin SpecialPages /\ page \notin RunPages \cup {"request", "staff", "blog"} /\ page \notin BusyPages \cup RowPages
                    /\ AtHolders(page) = {"reveal"} /\ \A f : "reveal" \notin Holders(page, f)
  OBVIOUS
<1>1. page \notin SpecialPages /\ page \notin RunPages /\ page \notin BusyPages \cup RowPages
  BY WorkPagesArePlain DEF CredentialPages
<1>2. AtHolders(page) = {"reveal"} /\ \A f : "reveal" \notin Holders(page, f)
  BY DEF CredentialPages, AtHolders, Holders, Loads
<1> QED
  BY <1>1, <1>2 DEF CredentialPages

\* The secrets s, none of them on its way; at most one is asked for by n.
LEMMA ShowsSecrets ==
    ASSUME IInv, page \in CredentialPages, NEW s \in TextedSecrets, \A r \in DOMAIN s : s[r] # "waiting",
           NEW r \in Row \cup {NONE}, NEW w, w = [view EXCEPT !.secrets = s, !.at = r],
           \/ UserDoes(w) /\ r = view.at
           \/ r \in Row /\ UserAsks(w, GetRow("reveal", r))
           \/ r = NONE /\ \E q \in Answers("reveal") : Takes(q, w)
    PROVE  IInv' /\ Kept
<1>0. /\ page \notin SpecialPages /\ page \notin RunPages \cup {"request", "staff", "blog"}
      /\ AtHolders(page) = {"reveal"} /\ \A f : "reveal" \notin Holders(page, f)
  BY CredentialPagesArePlain
<1>1. /\ w \in TextedView /\ w.busy = view.busy /\ w.form = view.form /\ w.edits = view.edits /\ w.at = r /\ w.mounted = view.mounted
      /\ w.number = view.number /\ w.secrets = s
  BY ReadyFacts DEF TextedView
<1>2. w \in ViewOn(page)
  BY <1>0, <1>1, PlainView
<1>3. CASE UserDoes(w) /\ r = view.at
  <2>1. StillHeld(w, {}, {})
    BY <1>1, <1>3 DEF StillHeld, IInv, HeldAll
  <2> QED
    BY <1>0, <1>2, <1>3, <2>1, DoesKeeps
<1>4. CASE r \in Row /\ UserAsks(w, GetRow("reveal", r))
  <2> DEFINE n == GetRow("reveal", r)
  <2>1. n \in AskOn(page) /\ n.op = "reveal"
    BY <1>4, RevealAsk
  <2>2. UserAsks(w, n)
    BY <1>4
  <2> HIDE DEF n
  <2>3. StillHeld(w, {}, {n})
    BY <1>0, <1>1, <2>1 DEF StillHeld, IInv, HeldAll
  <2> QED
    BY <1>0, <1>2, <2>1, <2>2, <2>3, AsksKeeps
<1>5. ASSUME r = NONE, NEW q \in Answers("reveal"), Takes(q, w) PROVE IInv' /\ Kept
  <2>1. q \in flight /\ q.op = "reveal"
    BY <1>5, AnswerFacts
  <2>2. \A f : ~Holder(page, view, q, f)
    BY <1>0, <2>1 DEF Holder
  <2>3. StillHeld(w, {q}, {})
    BY <1>0, <1>1, <1>5, <2>1, <2>2 DEF StillHeld
  <2> QED
    BY <1>0, <1>1, <1>2, <1>5, <2>1, <2>3, TakesKeeps
<1> QED
  BY <1>3, <1>4, <1>5

\* No password is on its way in secrets there.
LEMMA NoneWaits ==
    ASSUME IInv, page \in CredentialPages
    PROVE  view.secrets \in TextedSecrets /\ \A r \in DOMAIN view.secrets : view.secrets[r] # "waiting"
<1>1. view.secrets \in TextedSecrets
  BY ReadyFacts DEF TextedView
<1>2. \A r \in DOMAIN view.secrets : view.secrets[r] # "waiting"
  BY CredentialPagesArePlain DEF IInv, HeldAll
<1> QED
  BY <1>1, <1>2

\* The answer that shows no password.
LEMMA ShowsNone ==
    ASSUME IInv, page \in CredentialPages, NEW q \in Bad("reveal"), Takes(q, [view EXCEPT !.at = NONE])
    PROVE  IInv' /\ Kept
<1> DEFINE w == [view EXCEPT !.at = NONE]
<1>0. /\ page \notin SpecialPages /\ page \notin RunPages
      /\ \A f : "reveal" \notin Holders(page, f)
  BY CredentialPagesArePlain
<1>1. /\ w \in TextedView /\ w.busy = view.busy /\ w.form = view.form /\ w.edits = view.edits /\ w.at = NONE /\ w.mounted = view.mounted
      /\ w.number = view.number /\ w.secrets = view.secrets
  BY ReadyFacts DEF TextedView
<1> HIDE DEF w
<1>2. q \in flight /\ q.op = "reveal"
  BY AnswerFacts, GoodBad
<1>3. \A f : ~Holder(page, view, q, f)
  BY <1>0, <1>2 DEF Holder
<1>4. StillHeld(w, {q}, {})
  BY <1>0, <1>1, <1>2, <1>3, NoneWaits, CredentialPagesArePlain DEF StillHeld
<1>5. w \in ViewOn(page)
  BY <1>0, <1>1, PlainView
<1> QED
  BY <1>0, <1>1, <1>2, <1>4, <1>5, TakesKeeps DEF w

LEMMA CredentialsCardKeeps == ASSUME IInv, page = "credentials card", CredentialsCardNext PROVE IInv' /\ Kept
<1>0. /\ page \notin SpecialPages /\ page \notin RunPages \cup {"request", "staff", "blog"} /\ page \in CredentialPages
      /\ view \in TextedView /\ "load" \in Holders(page, "loading") /\ "loading" \in Flag
  BY CredentialPagesArePlain, ReadyFacts DEF CredentialPages, Holders, Loads, Flag
<1>1. CASE UserAsks(Busy([view EXCEPT !.error = FALSE, !.secrets = Nothing], {"loading"}), GetList("load"))
  <2> DEFINE u == [view EXCEPT !.error = FALSE, !.secrets = Nothing]
  <2>1. /\ u \in TextedView /\ u.busy = view.busy /\ u.form = view.form /\ u.at = view.at /\ u.mounted = view.mounted
        /\ u.number = view.number /\ DOMAIN u.secrets = {}
    BY <1>0, NoSecrets, NothingTexted DEF TextedView
  <2>2. GetList("load") \in AskOn(page) /\ GetList("load").op = "load"
    BY ListAsk DEF OpName, NoRowLoad, RowPages
  <2> HIDE DEF u
  <2> QED
    BY <1>0, <1>1, <2>1, <2>2, LoadingClick DEF u
<1>2. ASSUME NEW q \in Answers("load"),
             Takes(q, Free([view EXCEPT !.rows = q.got, !.error = view.error \/ q.state = "failed"], {"loading"}))
      PROVE  IInv' /\ Kept
  <2> DEFINE b == view.error \/ q.state = "failed"
             u == [view EXCEPT !.rows = q.got, !.error = b]
             w == Free(u, {"loading"})
  <2>1. q \in flight /\ q.op = "load" /\ q.got \in TextedRows /\ b \in BOOLEAN
    BY <1>2, AnswerFacts
  <2>2. Takes(q, w)
    BY <1>2
  <2> HIDE DEF b
  <2>3. u \in TextedView /\ u.busy = view.busy /\ Alike(u, view)
    BY <1>0, <2>1 DEF TextedView, Alike
  <2> HIDE DEF u
  <2>4. w \in TextedView /\ w.busy = view.busy \ {"loading"} /\ Alike(w, view)
    <3>1. {"loading"} \in SUBSET Flag
      BY DEF Flag
    <3>2. w \in TextedView /\ w.busy = u.busy \ {"loading"}
      BY <2>3, <3>1, FlagFacts
    <3>3. w.at = u.at /\ w.mounted = u.mounted /\ w.number = u.number /\ w.form = u.form /\ w.edits = u.edits
      BY <2>3, <3>1, FlagFacts
    <3>4. w.secrets = u.secrets
      BY <2>3 DEF TextedView, Free
    <3> HIDE DEF w
    <3> QED
      BY <2>3, <3>2, <3>3, <3>4 DEF Alike
  <2> HIDE DEF w
  <2>5. w \in ViewOn(page)
    BY <1>0, <2>4, PlainView DEF Alike
  <2>6. (\A f : q.op \in Holders(page, f) => f \in {"loading"}) /\ q.op \notin AtHolders(page) \cup {"reveal"}
    BY <2>1 DEF Holders, AtHolders
  <2> QED
    BY <1>0, <2>1, <2>2, <2>4, <2>5, <2>6, AlikeAnswer
<1>3. ASSUME NEW r \in CredentialsCardShown, UserAsks([view EXCEPT !.at = r, !.secrets = Nothing], GetRow("reveal", r))
      PROVE  IInv' /\ Kept
  <2> DEFINE w == [view EXCEPT !.secrets = Nothing, !.at = r]
  <2>1. r \in Row
    BY RowsOfView DEF CredentialsCardShown
  <2>2. [view EXCEPT !.at = r, !.secrets = Nothing] = w
    BY <1>0 DEF TextedView
  <2>3. UserAsks(w, GetRow("reveal", r))
    BY <1>3, <2>2
  <2> QED
    BY <1>0, <2>1, <2>3, NoSecrets, NothingTexted, ShowsSecrets
<1>4. ASSUME NEW q \in Good("reveal"), Takes(q, [view EXCEPT !.secrets = q.got, !.at = NONE]) PROVE IInv' /\ Kept
  <2>1. q \in Answers("reveal") /\ q.got \in TextedSecrets /\ \A r \in DOMAIN q.got : q.got[r] # "waiting"
    BY <1>4, AnswerFacts, GoodBad, RowsAreSecrets
  <2> QED
    BY <1>0, <1>4, <2>1, ShowsSecrets
<1>5. ASSUME NEW q \in Bad("reveal"), Takes(q, [view EXCEPT !.at = NONE]) PROVE IInv' /\ Kept
  BY <1>0, <1>5, ShowsNone
<1>6. CASE UserDoes([view EXCEPT !.secrets = Nothing])
  <2> DEFINE w == [view EXCEPT !.secrets = Nothing, !.at = view.at]
  <2>1. [view EXCEPT !.secrets = Nothing] = w /\ view.at \in Row \cup {NONE}
    BY <1>0 DEF TextedView
  <2>3. UserDoes(w)
    BY <1>6, <2>1
  <2> QED
    BY <1>0, <2>1, <2>3, NoSecrets, NothingTexted, ShowsSecrets
<1> QED
  BY <1>1, <1>2, <1>3, <1>4, <1>5, <1>6 DEF CredentialsCardNext, CredentialsCardLoad, CredentialsCardReveal

-----------------------------------------------------------------------------
(* The accountant's stored logins. *)

SelectFlags(client) == IF client = NONE THEN {"clients"} ELSE {"clients", "loading"}
SelectAsks(client) == {ClientsAsks(client)} \cup CredentialsFor(client)

\* The case that is chosen, and the flags of the two lists it is asked for with.
LEMMA SelectFacts ==
    ASSUME NEW v \in TextedView, NEW client \in Row \cup {NONE}
    PROVE  LET w == Busy(CredentialsSelect(v, client), {"clients"}) IN
           w \in TextedView /\ Alike(w, v) /\ w.busy = v.busy \cup SelectFlags(client)
<1> DEFINE x == [v EXCEPT !.section = NONE, !.rows = Nothing]
           y == [v EXCEPT !.section = client]
<1>1. x \in TextedView /\ Alike(x, v) /\ x.busy = v.busy
  BY NothingTexted DEF TextedView, Alike
<1>2. y \in TextedView /\ Alike(y, v) /\ y.busy = v.busy
  BY DEF TextedView, Alike
<1>3. {"clients"} \in SUBSET Flag /\ {"loading"} \in SUBSET Flag
  BY DEF Flag
<1>4. CASE client = NONE
  <2>1. CredentialsSelect(v, client) = x
    BY <1>4 DEF CredentialsSelect
  <2> HIDE DEF x
  <2>2. /\ Busy(x, {"clients"}) \in TextedView /\ Alike(Busy(x, {"clients"}), v)
        /\ Busy(x, {"clients"}).busy = x.busy \cup {"clients"}
    BY <1>1, <1>3, AlikeBusy
  <2> QED
    BY <1>1, <1>4, <2>1, <2>2 DEF SelectFlags
<1>5. CASE client # NONE
  <2> DEFINE z == Busy(y, {"loading"})
  <2>1. CredentialsSelect(v, client) = z
    BY <1>5 DEF CredentialsSelect
  <2> HIDE DEF y
  <2>2. z \in TextedView /\ Alike(z, v) /\ z.busy = y.busy \cup {"loading"}
    BY <1>2, <1>3, AlikeBusy
  <2> HIDE DEF z
  <2>3. /\ Busy(z, {"clients"}) \in TextedView /\ Alike(Busy(z, {"clients"}), v)
        /\ Busy(z, {"clients"}).busy = z.busy \cup {"clients"}
    BY <2>2, <1>3, AlikeBusy
  <2>4. z.busy \cup {"clients"} = v.busy \cup SelectFlags(client)
    BY <1>2, <1>5, <2>2 DEF SelectFlags
  <2> QED
    BY <2>1, <2>3, <2>4
<1> QED
  BY <1>4, <1>5

LEMMA SelectAsksFit ==
    ASSUME IInv, page = "accountant credentials", NEW client \in Row \cup {NONE}
    PROVE  /\ SelectAsks(client) \in SUBSET AskOn(page) /\ IsFiniteSet(SelectAsks(client))
           /\ \A f \in SelectFlags(client) : \E n \in SelectAsks(client) : n.op \in Holders(page, f)
<1>1. Ready
  BY ReadyFacts
<1> DEFINE a == GetList("clients")
<1>2. a \in AskOn(page) /\ a.op = "clients" /\ a.verb = "list"
  <2>1. "clients" \in OpName /\ "clients" # "reveal" /\ NoRowLoad("clients") /\ "all" \in Query
    BY DEF OpName, NoRowLoad, RowPages, Query
  <2> QED
    BY <1>1, <2>1, GetListFits
<1>2a. a.text = "" /\ a.state = "sent"
  BY DEF GetList, Request
<1>3. ClientsAsks(client) = [a EXCEPT !.row = client]
  BY DEF ClientsAsks
<1> HIDE DEF a
<1>4. ClientsAsks(client) \in AskOn(page) /\ ClientsAsks(client).op = "clients"
  <2>1. a \in AskFields /\ AskRules(a)
    BY <1>2 DEF AskOn, TextedAsk
  <2>2. [a EXCEPT !.row = client] \in AskFields
    BY <2>1 DEF AskFields
  <2>3. /\ [a EXCEPT !.row = client].op = a.op /\ [a EXCEPT !.row = client].verb = a.verb
        /\ [a EXCEPT !.row = client].text = a.text /\ [a EXCEPT !.row = client].query = a.query
        /\ [a EXCEPT !.row = client].state = a.state /\ [a EXCEPT !.row = client].got = a.got
        /\ [a EXCEPT !.row = client].row = client
    BY <2>1 DEF AskFields
  <2>4. AskRules([a EXCEPT !.row = client])
    BY <2>1, <2>3, <1>2, <1>2a DEF AskRules, TextsFor
  <2>5. page \notin RowPages \cup {"request"} /\ "list" \notin Creates
    BY DEF RowPages, Creates
  <2> QED
    BY <1>2, <1>3, <2>2, <2>3, <2>4, <2>5 DEF AskOn, TextedAsk
<1>5. client # NONE => ListOf("load", client) \in AskOn(page) /\ ListOf("load", client).op = "load"
  BY <1>1, ListOfFits DEF OpName, NoRowLoad, RowPages
<1>6. SelectAsks(client) \in SUBSET AskOn(page)
  BY <1>4, <1>5 DEF SelectAsks, CredentialsFor
<1>7. IsFiniteSet(SelectAsks(client))
  <2>1. IsFiniteSet({ClientsAsks(client)}) /\ IsFiniteSet({ListOf("load", client)}) /\ IsFiniteSet({})
    BY FS_Singleton, FS_EmptySet
  <2>2. IsFiniteSet(CredentialsFor(client))
    BY <2>1 DEF CredentialsFor
  <2> QED
    BY <2>1, <2>2, FS_Union DEF SelectAsks
<1>8. ASSUME NEW f \in SelectFlags(client) PROVE \E n \in SelectAsks(client) : n.op \in Holders(page, f)
  <2>1. CASE f = "clients"
    BY <2>1, <1>4 DEF SelectAsks, Holders
  <2>2. CASE f = "loading" /\ client # NONE
    <3>1. ListOf("load", client) \in SelectAsks(client)
      BY <2>2 DEF SelectAsks, CredentialsFor
    <3> QED
      BY <2>2, <3>1, <1>5 DEF Holders, Loads
  <2> QED
    BY <2>1, <2>2 DEF SelectFlags
<1> QED
  BY <1>6, <1>7, <1>8

LEMMA AccountantClientsKeeps ==
    ASSUME IInv, page = "accountant credentials", AccountantCredentialsClients PROVE IInv' /\ Kept
<1>0. /\ page \notin SpecialPages /\ page \notin RunPages \cup {"request", "staff", "blog"} /\ page \in CredentialPages
      /\ view \in TextedView /\ {"clients"} \in SUBSET Flag
  BY CredentialPagesArePlain, ReadyFacts DEF CredentialPages, Flag
<1>1. PICK q \in Answers("clients") :
         LET v == Free(IF q.state = "ok" THEN [view EXCEPT !.choices = DOMAIN q.got] ELSE view, {"clients"}) IN
         IF q.row # NONE \/ q.got = Nothing THEN Takes(q, v)
         ELSE \E client \in DOMAIN q.got :
                 IF client = view.section THEN Takes(q, v)
                 ELSE TakesThenAsksAll(q, Busy(CredentialsSelect(v, client), {"clients"}), SelectAsks(client))
  BY DEF AccountantCredentialsClients, SelectAsks
<1> DEFINE u == IF q.state = "ok" THEN [view EXCEPT !.choices = DOMAIN q.got] ELSE view
           v == Free(u, {"clients"})
<1>2. q \in flight /\ q.op = "clients" /\ q.got \in TextedRows /\ q.verb \notin Writes /\ DOMAIN q.got \in SUBSET Row
  <2>1. "clients" \in Reads
    BY DEF Reads
  <2> QED
    BY <1>1, <2>1, AnswerFacts, RowsElim
<1>3. u \in TextedView /\ u.busy = view.busy /\ Alike(u, view)
  BY <1>0, <1>2 DEF TextedView, Alike
<1>4. \/ Takes(q, v)
      \/ \E client \in DOMAIN q.got :
            TakesThenAsksAll(q, Busy(CredentialsSelect(v, client), {"clients"}), SelectAsks(client))
  BY <1>1
<1> HIDE DEF u
<1>5. v \in TextedView /\ Alike(v, view) /\ v.busy = u.busy \ {"clients"}
  BY <1>0, <1>3, AlikeFree
<1> HIDE DEF v
<1>6. (\A f : q.op \in Holders(page, f) => f \in {"clients"}) /\ q.op \notin AtHolders(page) \cup {"reveal"}
  BY <1>2 DEF Holders, AtHolders, Loads
<1>7. CASE Takes(q, v)
  <2>1. v \in ViewOn(page)
    BY <1>0, <1>5, PlainView DEF Alike
  <2> QED
    BY <1>0, <1>2, <1>3, <1>5, <1>6, <1>7, <2>1, AlikeAnswer
<1>8. ASSUME NEW client \in DOMAIN q.got,
             TakesThenAsksAll(q, Busy(CredentialsSelect(v, client), {"clients"}), SelectAsks(client))
      PROVE  IInv' /\ Kept
  <2> DEFINE w == Busy(CredentialsSelect(v, client), {"clients"})
  <2>1. client \in Row \cup {NONE} /\ client # NONE
    BY <1>2, NoneIsNoRow
  <2>2. w \in TextedView /\ Alike(w, v) /\ w.busy = v.busy \cup SelectFlags(client)
    BY <1>5, <2>1, SelectFacts
  <2>3. TakesThenAsksAll(q, w, SelectAsks(client))
    BY <1>8
  <2> HIDE DEF w
  <2>4. Alike(w, view)
    BY <1>5, <2>2, AlikeTrans
  <2>5. w.busy = (view.busy \ {"clients"}) \cup SelectFlags(client)
    BY <1>3, <1>5, <2>2
  <2>6. w \in ViewOn(page)
    BY <1>0, <2>2, <2>4, PlainView DEF Alike
  <2>7. /\ SelectAsks(client) \in SUBSET AskOn(page) /\ IsFiniteSet(SelectAsks(client))
        /\ \A f \in SelectFlags(client) : \E n \in SelectAsks(client) : n.op \in Holders(page, f)
    BY <2>1, SelectAsksFit
  <2>8. \A f : q.op \in Holders(page, f) => f \in {"clients"} \/ \E n \in SelectAsks(client) : n.op \in Holders(page, f)
    BY <1>6
  <2>9. "timer" \notin {"clients"}
    OBVIOUS
  <2>10. q.op \in AtHolders(page) => \E n \in SelectAsks(client) : n.op \in AtHolders(page)
    BY <1>6
  <2>11. q.op # "reveal"
    BY <1>6
  <2> QED
    BY <1>0, <1>2, <2>3, <2>4, <2>5, <2>6, <2>7, <2>8, <2>9, <2>10, <2>11, AlikeChains, ZenonT(30)
<1> QED
  BY <1>4, <1>7, <1>8

LEMMA AccountantSelectKeeps ==
    ASSUME IInv, page = "accountant credentials", AccountantCredentialsSelect PROVE IInv' /\ Kept
<1>0. /\ page \notin SpecialPages /\ page \notin RunPages \cup {"request", "staff", "blog"}
      /\ view \in TextedView
  BY CredentialPagesArePlain, ReadyFacts DEF CredentialPages
<1> DEFINE u == [view EXCEPT !.secrets = Nothing]
<1>1. PICK client \in view.choices \cup {NONE} :
         UserAsksAll(Busy(CredentialsSelect(u, client), {"clients"}), SelectAsks(client))
  BY DEF AccountantCredentialsSelect, SelectAsks
<1>2. client \in Row \cup {NONE}
  BY <1>0 DEF TextedView
<1>3. u \in TextedView /\ Alike(u, view) /\ u.busy = view.busy
  BY <1>0, NoSecrets, NothingTexted DEF TextedView, Alike
<1> DEFINE w == Busy(CredentialsSelect(u, client), {"clients"})
<1>4. UserAsksAll(w, SelectAsks(client))
  BY <1>1
<1> HIDE DEF u
<1>5. w \in TextedView /\ Alike(w, u) /\ w.busy = u.busy \cup SelectFlags(client)
  BY <1>2, <1>3, SelectFacts
<1> HIDE DEF w
<1>6. Alike(w, view)
  BY <1>3, <1>5, AlikeTrans
<1>7. w \in ViewOn(page)
  BY <1>0, <1>5, <1>6, PlainView DEF Alike
<1>8. /\ SelectAsks(client) \in SUBSET AskOn(page) /\ IsFiniteSet(SelectAsks(client))
      /\ \A f \in SelectFlags(client) : \E n \in SelectAsks(client) : n.op \in Holders(page, f)
  BY <1>2, SelectAsksFit
<1>9. w.busy = view.busy \cup SelectFlags(client)
  BY <1>3, <1>5
<1> QED
  BY <1>0, <1>4, <1>6, <1>7, <1>8, <1>9, AlikeAsksAll

LEMMA AccountantCredentialsKeeps ==
    ASSUME IInv, page = "accountant credentials", AccountantCredentialsNext PROVE IInv' /\ Kept
<1>0. /\ page \notin SpecialPages /\ page \notin RunPages \cup {"request", "staff", "blog"} /\ page \in CredentialPages
      /\ page \notin BusyPages \cup RowPages /\ page \notin BusyPages /\ page \notin {"staff", "blog"}
      /\ view \in TextedView /\ Ready /\ {"loading"} \in SUBSET (Flag \ {"timer"})
  BY CredentialPagesArePlain, ReadyFacts DEF CredentialPages, Flag
<1>1. CASE AccountantCredentialsClients
  BY <1>1, AccountantClientsKeeps
<1>2. CASE AccountantCredentialsSelect
  BY <1>2, AccountantSelectKeeps
<1>3. CASE view.section # NONE /\ UserAsks(Busy(view, {"loading"}), ListOf("load", view.section))
  <2>1. view.section \in Row
    BY <1>0, <1>3 DEF TextedView
  <2>2. ListOf("load", view.section) \in AskOn(page) /\ ListOf("load", view.section).op = "load"
    <3>1. "load" \in OpName /\ "load" # "reveal" /\ NoRowLoad("load")
      BY DEF OpName, NoRowLoad, RowPages
    <3> QED
      BY <1>0, <2>1, <3>1, ListOfFits
  <2> QED
    BY <1>0, <1>3, <2>2, LoadClick DEF Loads
<1>4. ASSUME NEW q \in Answers("load"), Takes(q, Free([view EXCEPT !.rows = q.got], {"loading"})) PROVE IInv' /\ Kept
  <2>1. q \in flight /\ q.op = "load" /\ q.got \in TextedRows
    BY <1>4, AnswerFacts
  <2>2. (\A f : q.op \in Holders(page, f) => f \in {"loading"}) /\ q.op \notin AtHolders(page) \cup {"reveal"}
    BY <2>1 DEF Holders, AtHolders
  <2> QED
    BY <1>0, <1>4, <2>1, <2>2, RowsAnswer
<1>5. ASSUME NEW r \in DOMAIN view.secrets, UserDoes([view EXCEPT !.secrets = Restrict(@, DOMAIN @ \ {r})])
      PROVE  IInv' /\ Kept
  <2> DEFINE s == Restrict(view.secrets, DOMAIN view.secrets \ {r})
             w == [view EXCEPT !.secrets = s, !.at = view.at]
  <2>1. view.secrets \in TextedSecrets /\ \A e \in DOMAIN view.secrets : view.secrets[e] # "waiting"
    BY <1>0, NoneWaits
  <2>2. s \in TextedSecrets /\ \A e \in DOMAIN s : s[e] = "waiting" => e # r /\ e \in DOMAIN view.secrets /\ view.secrets[e] = "waiting"
    BY <2>1, ForgetTexted
  <2>3. [view EXCEPT !.secrets = Restrict(@, DOMAIN @ \ {r})] = w /\ view.at \in Row \cup {NONE}
    BY <1>0 DEF TextedView
  <2>4. UserDoes(w)
    BY <1>5, <2>3
  <2>5. \A e \in DOMAIN s : s[e] # "waiting"
    BY <2>1, <2>2
  <2> HIDE DEF s
  <2> QED
    BY <1>0, <2>2, <2>3, <2>4, <2>5, ShowsSecrets
<1>6. ASSUME NEW r \in AccountantCredentialsCards, UserAsks([view EXCEPT !.at = r], GetRow("reveal", r)) PROVE IInv' /\ Kept
  <2> DEFINE w == [view EXCEPT !.secrets = view.secrets, !.at = r]
  <2>1. r \in Row
    BY RowsOfView DEF AccountantCredentialsCards, Matching
  <2>2. view.secrets \in TextedSecrets /\ \A e \in DOMAIN view.secrets : view.secrets[e] # "waiting"
    BY <1>0, NoneWaits
  <2>3. [view EXCEPT !.at = r] = w
    BY <1>0 DEF TextedView
  <2>4. UserAsks(w, GetRow("reveal", r))
    BY <1>6, <2>3
  <2> QED
    BY <1>0, <2>1, <2>2, <2>4, ShowsSecrets
<1>7. ASSUME NEW q \in Good("reveal"),
             Takes(q, [view EXCEPT !.secrets = [r \in DOMAIN @ \cup DOMAIN q.got |-> IF r = q.row THEN q.got[r] ELSE @[r]],
                                   !.at = NONE])
      PROVE  IInv' /\ Kept
  <2>1. q \in Answers("reveal") /\ q.got \in TextedRows /\ q.state = "ok" /\ q \in TextedAsk /\ q.op = "reveal"
    BY <1>7, AnswerFacts, GoodBad
  <2>2. DOMAIN q.got = {q.row} /\ q.row \in Row
    BY <2>1 DEF TextedAsk, AskRules
  <2>3. q.got[q.row] \in Text /\ q.got[q.row] \in TextsFor(q.row)
    BY <2>1, <2>2, RowsElim
  <2> DEFINE s == AddedTo(view.secrets, q.row, q.got[q.row])
             w == [view EXCEPT !.secrets = s, !.at = NONE]
  <2>4. view.secrets \in TextedSecrets /\ \A e \in DOMAIN view.secrets : view.secrets[e] # "waiting"
    BY <1>0, NoneWaits
  <2>5. s \in TextedSecrets /\ \A e \in DOMAIN s : s[e] = "waiting" => e # q.row /\ e \in DOMAIN view.secrets /\ view.secrets[e] = "waiting"
    BY <2>2, <2>3, <2>4, ShownTexted
  <2>6. \A e \in DOMAIN s : s[e] # "waiting"
    BY <2>4, <2>5
  <2>7. [r \in DOMAIN view.secrets \cup DOMAIN q.got |-> IF r = q.row THEN q.got[r] ELSE view.secrets[r]] = s
    BY <2>2 DEF AddedTo
  <2>8. Takes(q, w)
    BY <1>7, <2>7
  <2> HIDE DEF s
  <2> QED
    BY <1>0, <2>1, <2>5, <2>6, <2>8, ShowsSecrets
<1>8. ASSUME NEW q \in Bad("reveal"), Takes(q, [view EXCEPT !.at = NONE]) PROVE IInv' /\ Kept
  BY <1>0, <1>8, ShowsNone
<1>9. CASE Search
  BY <1>0, <1>9, SearchKeeps
<1> QED
  BY <1>1, <1>2, <1>3, <1>4, <1>5, <1>6, <1>7, <1>8, <1>9
  DEF AccountantCredentialsNext, AccountantCredentialsLoad, AccountantCredentialsReveal

-----------------------------------------------------------------------------
(* The documents of a portal. *)

LEMMA DocumentsFacts ==
    page = "portal documents" =>
        /\ page \notin BusyPages \cup RowPages /\ page \notin BusyPages /\ page \notin RunPages
        /\ page \notin RunPages \cup {"request", "staff", "blog"} /\ page \in CreatePages /\ page # "consultation"
        /\ AtHolders(page) = {}
        /\ \A f : "load" \in Holders(page, f) => f = "loading"
        /\ \A f : "uploaded" \in Holders(page, f) => f \in {"loading", "uploading"}
        /\ \A f : "upload" \in Holders(page, f) => f = "uploading"
        /\ "uploaded" \in Holders(page, "loading") /\ "uploaded" \in Holders(page, "uploading") /\ "load" \in Holders(page, "loading")
  BY DEF QuietPages, BusyPages, RowPages, RunPages, CreatePages, DetailPages, SearchPages, AtHolders, Holders, Loads

LEMMA DocumentsView ==
    ASSUME IInv, page = "portal documents", NEW w \in TextedView, w.number = view.number, w.form # NONE, w.form.row = NONE
    PROVE  w \in ViewOn(page)
  BY DEF QuietPages, IInv, ViewOn, RowPages, RunPages, DetailPages, SearchPages, BlankPages

LEMMA DocumentsForm ==
    ASSUME IInv, page = "portal documents" PROVE view.form \in TextedForm /\ view.form # NONE /\ view.form.row = NONE
  BY DEF QuietPages, IInv, ViewOn, FormPages, BlankPages, TextedView

LEMMA DocumentsAsksFit ==
    ASSUME IInv, page = "portal documents", NEW op \in {"load", "uploaded"}, NEW r \in Row \cup {NONE}
    PROVE  DocumentsAsks(op, r) \in AskOn(page) /\ DocumentsAsks(op, r).op = op
<1>1. Ready
  BY ReadyFacts
<1> DEFINE a == GetList(op)
<1>2. a \in AskOn(page) /\ a.op = op /\ a.verb = "list"
  <2>1. op \in OpName /\ op # "reveal" /\ NoRowLoad(op) /\ "all" \in Query
    BY DEF OpName, NoRowLoad, RowPages, Query
  <2> QED
    BY <1>1, <2>1, GetListFits
<1>3. a.text = "" /\ a.state = "sent"
  BY DEF GetList, Request
<1>4. DocumentsAsks(op, r) = [a EXCEPT !.row = r]
  BY DEF DocumentsAsks
<1> HIDE DEF a
<1>5. a \in AskFields /\ AskRules(a)
  BY <1>2 DEF AskOn, TextedAsk
<1>6. [a EXCEPT !.row = r] \in AskFields
  BY <1>5 DEF AskFields
<1>7. /\ [a EXCEPT !.row = r].op = a.op /\ [a EXCEPT !.row = r].verb = a.verb
      /\ [a EXCEPT !.row = r].text = a.text /\ [a EXCEPT !.row = r].query = a.query
      /\ [a EXCEPT !.row = r].state = a.state /\ [a EXCEPT !.row = r].got = a.got
      /\ [a EXCEPT !.row = r].row = r
  BY <1>5 DEF AskFields
<1>8. AskRules([a EXCEPT !.row = r])
  BY <1>2, <1>3, <1>5, <1>7 DEF AskRules, TextsFor
<1>9. page \notin RowPages \cup {"request"} /\ "list" \notin Creates
  BY DEF RowPages, Creates
<1> QED
  BY <1>2, <1>4, <1>6, <1>7, <1>8, <1>9 DEF AskOn, TextedAsk

LEMMA AlikeChain ==
    ASSUME IInv, page \notin RunPages \cup {"request", "staff", "blog"}, NEW q \in flight, q.state = "ok" \/ q.verb \notin Writes,
           NEW w \in ViewOn(page), Alike(w, view), NEW S, NEW g, "timer" \notin S, w.busy = (view.busy \ S) \cup {g},
           NEW n \in AskOn(page), n.op \in Holders(page, g), q.op # "reveal", q.op \notin AtHolders(page),
           \A f : q.op \in Holders(page, f) => f \in S \/ n.op \in Holders(page, f), TakesThenAsks(q, w, n)
    PROVE  IInv' /\ Kept
<1>1. Passes(w, S, {g}, {q}, {n})
  BY DEF Passes, Alike
<1>2. StillHeld(w, {q}, {n})
  BY <1>1, AlikeHeld
<1>3. q.state # "failed" \/ q.verb \notin Writes
  OBVIOUS
<1> QED
  BY <1>2, <1>3, TakesAsksKeeps DEF RunPages

\* The rest of a load, by the flags that it lowers.
LEMMA LoadsDocumentsKeeps ==
    ASSUME IInv, page = "portal documents", NEW op \in {"load", "uploaded"}, NEW S, S \in SUBSET (Flag \ {"timer"}),
           "loading" \in S, \A f : op \in Holders(page, f) => f \in S, LoadsDocuments(op, S)
    PROVE  IInv' /\ Kept
<1>0. /\ page \notin RunPages \cup {"request", "staff", "blog"} /\ page \notin BusyPages /\ AtHolders(page) = {}
      /\ view \in TextedView /\ view.form # NONE /\ view.form.row = NONE /\ S \in SUBSET Flag /\ "timer" \notin S
      /\ op # "reveal" /\ op \in Reads
  BY DocumentsFacts, DocumentsForm, ReadyFacts DEF Reads
<1>1. ASSUME NEW q \in Answers(op), Takes(q, Free(view, S)) PROVE IInv' /\ Kept
  <2>1. q \in flight /\ q.op = op
    BY <1>1, AnswerFacts
  <2> QED
    BY <1>0, <1>1, <2>1, FlagAnswer
<1>2. ASSUME NEW q \in Answers(op), NEW v, v = [Free(view, S) EXCEPT !.rows = q.got, !.choices = DOMAIN q.got \ SparePool],
             \/ Takes(q, v)
             \/ \E first \in v.choices : DocumentsSelected(q, v, first)
      PROVE  IInv' /\ Kept
  <2>1. /\ q \in flight /\ q.op = op /\ q.got \in TextedRows /\ q.verb \notin Writes /\ DOMAIN q.got \in SUBSET Row
    BY <1>0, AnswerFacts, RowsElim
  <2> DEFINE u == Free(view, S)
  <2>2. u \in TextedView /\ Alike(u, view) /\ u.busy = view.busy \ S
    <3>1. /\ u \in TextedView /\ u.busy = view.busy \ S /\ u.at = view.at /\ u.mounted = view.mounted /\ u.number = view.number
          /\ u.form = view.form /\ u.edits = view.edits /\ u.secrets = view.secrets
      BY <1>0, FlagFacts, ZenonT(60)
    <3> QED
      BY <3>1 DEF Alike
  <2>3. v = [u EXCEPT !.rows = q.got, !.choices = DOMAIN q.got \ SparePool]
    BY <1>2
  <2> HIDE DEF u
  <2>4. v \in TextedView /\ Alike(v, u) /\ v.busy = u.busy /\ v.choices \in SUBSET Row
    BY <2>1, <2>2, <2>3 DEF TextedView, Alike
  <2>5. Alike(v, view)
    BY <2>2, <2>4, AlikeTrans
  <2>6. v \in ViewOn(page)
    BY <1>0, <2>4, <2>5, DocumentsView DEF Alike
  <2>7. \A f : q.op \in Holders(page, f) => f \in S
    BY <2>1
  <2>8. CASE Takes(q, v)
    BY <1>0, <2>1, <2>2, <2>4, <2>5, <2>6, <2>7, <2>8, AlikeAnswer
  <2>9. ASSUME NEW first \in v.choices,
               TakesThenAsks(q, Busy([v EXCEPT !.section = first], {"loading"}), DocumentsAsks("load", first))
        PROVE  IInv' /\ Kept
    <3> DEFINE x == [v EXCEPT !.section = first]
               w == Busy(x, {"loading"})
               n == DocumentsAsks("load", first)
    <3>1. x \in TextedView /\ Alike(x, view) /\ x.busy = v.busy
      BY <2>4, <2>5 DEF TextedView, Alike
    <3>2. TakesThenAsksAll(q, w, {n})
      BY <2>9 DEF TakesThenAsks
    <3> HIDE DEF x
    <3>3. {"loading"} \in SUBSET Flag
      BY DEF Flag
    <3>4. w \in TextedView /\ Alike(w, view) /\ w.busy = x.busy \cup {"loading"}
      BY <3>1, <3>3, AlikeBusy
    <3> HIDE DEF w
    <3>5. w \in ViewOn(page)
      BY <1>0, <3>4, DocumentsView DEF Alike
    <3>6. n \in AskOn(page) /\ n.op = "load"
      BY <2>4, DocumentsAsksFit
    <3>7. n.op \in Holders(page, "loading")
      BY <3>6 DEF Holders, Loads
    <3> HIDE DEF n
    <3>8. TakesThenAsks(q, w, n)
      BY <3>2 DEF TakesThenAsks
    <3>9. w.busy = (view.busy \ S) \cup {"loading"}
      BY <2>2, <2>4, <3>1, <3>4
    <3>10. q.op # "reveal" /\ q.op \notin AtHolders(page)
      BY <1>0, <2>1
    <3> QED
      BY <1>0, <2>1, <2>7, <3>4, <3>5, <3>6, <3>7, <3>8, <3>9, <3>10, AlikeChain
  <2> QED
    BY <1>2, <2>8, <2>9 DEF DocumentsSelected
<1> QED
  BY <1>1, <1>2, GoodBad DEF LoadsDocuments

LEMMA PortalDocumentsKeeps == ASSUME IInv, page = "portal documents", PortalDocumentsNext PROVE IInv' /\ Kept
<1>0. /\ page \notin RunPages \cup {"request", "staff", "blog"} /\ page \notin BusyPages /\ AtHolders(page) = {}
      /\ view \in TextedView /\ view.form # NONE /\ view.form.row = NONE /\ view.form \in TextedForm
      /\ page \notin RunPages /\ page \notin RunPages \cup {"consultation"} /\ Ready /\ clicks \in Nat /\ page \in CreatePages
      /\ {"loading"} \in SUBSET Flag /\ "uploading" \in Flag /\ page \notin {"staff", "blog"}
  BY DocumentsFacts, DocumentsForm, ReadyFacts DEF Flag
<1>1. CASE UserAsks(Busy(view, {"loading"}), DocumentsAsks("load", view.section))
  <2>1. view.section \in Row \cup {NONE}
    BY <1>0 DEF TextedView
  <2>2. DocumentsAsks("load", view.section) \in AskOn(page) /\ DocumentsAsks("load", view.section).op = "load"
    BY <2>1, DocumentsAsksFit
  <2> QED
    BY <1>0, <1>1, <2>2, LoadClick DEF Loads
<1>2. CASE LoadsDocuments("load", {"loading"})
  <2>1. {"loading"} \in SUBSET (Flag \ {"timer"}) /\ \A f : "load" \in Holders(page, f) => f \in {"loading"}
    BY <1>0, DocumentsFacts
  <2> QED
    BY <1>2, <2>1, LoadsDocumentsKeeps
<1>3. ASSUME NEW r \in view.choices \cup {NONE}, UserAsks(Busy([view EXCEPT !.section = r], {"loading"}), DocumentsAsks("load", r))
      PROVE  IInv' /\ Kept
  <2> DEFINE x == [view EXCEPT !.section = r]
             w == Busy(x, {"loading"})
             n == DocumentsAsks("load", r)
  <2>0. r \in Row \cup {NONE}
    BY <1>0 DEF TextedView
  <2>1. x \in TextedView /\ Alike(x, view) /\ x.busy = view.busy
    BY <1>0, <2>0 DEF TextedView, Alike
  <2>2. UserAsksAll(w, {n})
    BY <1>3 DEF UserAsks
  <2> HIDE DEF x
  <2>3. w \in TextedView /\ Alike(w, view) /\ w.busy = x.busy \cup {"loading"}
    BY <1>0, <2>1, AlikeBusy, ZenonT(30)
  <2> HIDE DEF w
  <2>4. w \in ViewOn(page)
    BY <1>0, <2>3, DocumentsView DEF Alike
  <2>5. n \in AskOn(page) /\ n.op = "load"
    BY <2>0, DocumentsAsksFit
  <2>6. n.op \in Holders(page, "loading")
    BY <2>5 DEF Holders, Loads
  <2> HIDE DEF n
  <2>7. {n} \in SUBSET AskOn(page) /\ IsFiniteSet({n})
    BY <2>5, FS_Singleton
  <2> DEFINE T == {"loading"}
             N == {n}
  <2>8. w.busy = view.busy \cup T /\ UserAsksAll(w, N) /\ N \in SUBSET AskOn(page) /\ IsFiniteSet(N)
    BY <2>1, <2>2, <2>3, <2>7
  <2>9. \A f \in T : f \in {"timer", "leaving"} \/ \E m \in N : m.op \in Holders(page, f)
    BY <2>6
  <2> HIDE DEF T, N
  <2> QED
    BY <1>0, <2>3, <2>4, <2>8, <2>9, AlikeAsksAll
<1>4. CASE Typing
  BY <1>0, <1>4, TypingKeeps
<1>5. CASE UserAsks(Busy(view, {"uploading"}), Create("upload", view.form))
  <2>1. "upload" \in OpName \ Reads
    BY DEF OpName, Reads
  <2>2. Create("upload", view.form) \in AskOn(page) /\ Create("upload", view.form).op = "upload"
    BY <1>0, <2>1, CreateFits
  <2>3. "upload" \in Holders(page, "uploading")
    BY DEF Holders
  <2> QED
    BY <1>0, <1>5, <2>2, <2>3, FlagClick
<1>6. ASSUME NEW q \in Good("upload"),
             TakesThenAsks(q, Busy([view EXCEPT !.form = Blank], {"loading"}), DocumentsAsks("uploaded", FirstRow))
      PROVE  IInv' /\ Kept
  <2> DEFINE x == [view EXCEPT !.form = Blank]
             w == Busy(x, {"loading"})
             n == DocumentsAsks("uploaded", FirstRow)
  <2>0. q \in flight /\ q.op = "upload" /\ q.state = "ok"
    BY <1>6, AnswerFacts, GoodBad
  <2>1. Blank \in TextedForm /\ Blank.row = NONE /\ Blank # NONE
    BY <1>0, FormsTexted, FormIsSome
  <2>2. /\ x \in TextedView /\ x.busy = view.busy /\ x.form = Blank /\ x.at = view.at /\ x.mounted = view.mounted
        /\ x.number = view.number /\ x.secrets = view.secrets
    BY <1>0, <2>1 DEF TextedView
  <2>3. TakesThenAsks(q, w, n)
    BY <1>6
  <2> HIDE DEF x
  <2>4. /\ w \in TextedView /\ w.busy = x.busy \cup {"loading"} /\ w.form = x.form /\ w.at = x.at /\ w.mounted = x.mounted
        /\ w.number = x.number /\ w.secrets = x.secrets
    BY <1>0, <2>2, FlagFacts, ZenonT(30)
  <2> HIDE DEF w
  <2>5. w \in ViewOn(page)
    BY <2>1, <2>2, <2>4, DocumentsView
  <2>6. n \in AskOn(page) /\ n.op = "uploaded"
    BY NoneIsNoRow, DocumentsAsksFit
  <2>7. n.op \in Holders(page, "loading") /\ n.op \in Holders(page, "uploading")
    BY <2>6, DocumentsFacts
  <2> HIDE DEF n
  <2>8. \A f : q.op \in Holders(page, f) => f \in {} \/ \E m \in {n} : m.op \in Holders(page, f)
    BY <2>0, <2>7, DocumentsFacts
  <2>9. Passes(w, {}, {"loading"}, {q}, {n})
    BY <1>0, <2>0, <2>2, <2>4, <2>7, <2>8 DEF Passes
  <2>10. StillHeld(w, {q}, {n})
    BY <1>0, <2>9, AlikeHeld
  <2> QED
    BY <1>0, <2>0, <2>3, <2>5, <2>6, <2>10, TakesAsksKeeps
<1>7. CASE LoadsDocuments("uploaded", {"loading", "uploading"})
  <2>1. /\ {"loading", "uploading"} \in SUBSET (Flag \ {"timer"})
        /\ \A f : "uploaded" \in Holders(page, f) => f \in {"loading", "uploading"}
    BY <1>0, DocumentsFacts
  <2> QED
    BY <1>7, <2>1, LoadsDocumentsKeeps
<1>8. ASSUME NEW q \in Bad("upload"), Fails(q, Free(view, {"uploading"})) PROVE IInv' /\ Kept
  <2>1. q \in flight /\ q.op = "upload"
    BY <1>8, AnswerFacts, GoodBad
  <2>2. (\A f : q.op \in Holders(page, f) => f \in {"uploading"}) /\ q.op \notin AtHolders(page) \cup {"reveal"}
    BY <1>0, <2>1, DocumentsFacts
  <2>3. {"uploading"} \in SUBSET (Flag \ {"timer"})
    BY <1>0
  <2> QED
    BY <1>0, <1>8, <2>1, <2>2, <2>3, FlagAnswer
<1>9. CASE PortalDocumentsDownload
  <2>1. PortalDocumentsFolders \in SUBSET Row
    BY RowsOfView DEF PortalDocumentsFolders, PortalDocumentsMatching, Matching
  <2> QED
    BY <1>0, <1>9, <2>1, DownloadsKeeps DEF PortalDocumentsDownload
<1>10. CASE Search
  BY <1>10, SearchKeeps
<1> QED
  BY <1>1, <1>2, <1>3, <1>4, <1>5, <1>6, <1>7, <1>8, <1>9, <1>10
  DEF PortalDocumentsNext, PortalDocumentsLoad, PortalDocumentsSelect, PortalDocumentsDescribe, PortalDocumentsUpload

-----------------------------------------------------------------------------
(* The dashboard of the admin. *)

LEMMA DashboardAsksFit ==
    ASSUME IInv, page = "admin dashboard"
    PROVE  /\ DashboardAsks(GetList("load")) \in SUBSET AskOn(page) /\ IsFiniteSet(DashboardAsks(GetList("load")))
           /\ \E n \in DashboardAsks(GetList("load")) : n.op = "load"
<1> DEFINE a == GetList("load")
<1>1. a \in AskOn(page) /\ a.op = "load" /\ a.verb = "list"
  <2>1. "load" \in OpName /\ "load" # "reveal" /\ NoRowLoad("load") /\ "all" \in Query
    BY DEF OpName, NoRowLoad, RowPages, Query
  <2> QED
    BY <2>1, ReadyFacts, GetListFits
<1> HIDE DEF a
<1>2. a \in AskFields /\ AskRules(a)
  BY <1>1 DEF AskOn, TextedAsk
<1>3. ASSUME NEW op \in {"stats", "load", "consultations"} PROVE [a EXCEPT !.op = op] \in AskOn(page)
  <2>1. op \in OpName /\ op \in Reads /\ op # "reveal" /\ "list" \notin Writes /\ "list" \notin Creates
    BY DEF OpName, Reads, Writes, Creates
  <2>2. [a EXCEPT !.op = op] \in AskFields
    BY <1>2, <2>1 DEF AskFields
  <2>3. /\ [a EXCEPT !.op = op].op = op /\ [a EXCEPT !.op = op].verb = a.verb
        /\ [a EXCEPT !.op = op].text = a.text /\ [a EXCEPT !.op = op].query = a.query
        /\ [a EXCEPT !.op = op].state = a.state /\ [a EXCEPT !.op = op].got = a.got
        /\ [a EXCEPT !.op = op].row = a.row
    BY <1>2 DEF AskFields
  <2>4. AskRules([a EXCEPT !.op = op])
    BY <1>1, <1>2, <2>1, <2>3 DEF AskRules
  <2>5. page \notin RowPages \cup {"request"}
    BY DEF RowPages
  <2> QED
    BY <1>1, <2>1, <2>2, <2>3, <2>4, <2>5 DEF AskOn, TextedAsk
<1>4. DashboardAsks(a) \in SUBSET AskOn(page)
  BY <1>3 DEF DashboardAsks
<1>5. IsFiniteSet(DashboardAsks(a))
  <2> DEFINE x == [a EXCEPT !.op = "stats"]
             y == [a EXCEPT !.op = "load"]
             z == [a EXCEPT !.op = "consultations"]
  <2>1. DashboardAsks(a) = {x} \cup ({y} \cup {z})
    BY DEF DashboardAsks
  <2> HIDE DEF x, y, z
  <2>2. IsFiniteSet({x}) /\ IsFiniteSet({y}) /\ IsFiniteSet({z})
    BY FS_Singleton
  <2>3. IsFiniteSet({y} \cup {z})
    BY <2>2, FS_Union
  <2>4. IsFiniteSet({x} \cup ({y} \cup {z}))
    BY <2>2, <2>3, FS_Union
  <2> QED
    BY <2>1, <2>4
<1>6. [a EXCEPT !.op = "load"].op = "load" /\ [a EXCEPT !.op = "load"] \in DashboardAsks(a)
  BY <1>2 DEF DashboardAsks, AskFields
<1> QED
  BY <1>4, <1>5, <1>6 DEF a

LEMMA DashboardRules ==
    ASSUME NEW p, p = "admin dashboard"
    PROVE  /\ AtHolders(p) = {} /\ p \notin RunPages \cup {"request", "staff", "blog"} /\ p \notin RunPages
           /\ \A v : v \in ViewOn(p) <=> /\ v \in TextedView /\ v.busy \subseteq {"loading", "refreshing"} /\ v.at = NONE
                                         /\ DOMAIN v.secrets = {} /\ v.number \in {1, 2}
  BY DEF QuietPages, AtHolders, RunPages, DetailPages, SearchPages, ViewOn, FormPages, BlankPages

LEMMA AdminDashboardKeeps == ASSUME IInv, page = "admin dashboard", AdminDashboardNext PROVE IInv' /\ Kept
<1>0. /\ page \notin RunPages \cup {"request", "staff", "blog"} /\ page \notin RunPages
      /\ view \in TextedView /\ view.busy \subseteq {"loading", "refreshing"} /\ view.at = NONE /\ DOMAIN view.secrets = {}
      /\ view.number \in {1, 2} /\ {"refreshing"} \in SUBSET Flag /\ {"loading", "refreshing"} \in SUBSET Flag
  BY DashboardRules DEF IInv, Flag
<1>1. CASE AdminDashboardRefresh
  <2> DEFINE w == Busy(view, {"refreshing"})
             qs == DashboardAsks(GetList("load"))
             T == {"refreshing"}
  <2>1. /\ w \in TextedView /\ w.busy = view.busy \cup T /\ w.at = view.at /\ w.mounted = view.mounted
        /\ w.number = view.number /\ w.form = view.form /\ w.edits = view.edits /\ w.secrets = view.secrets
    BY <1>0, FlagFacts, ZenonT(30)
  <2>2. UserAsksAll(w, qs)
    BY <1>1 DEF AdminDashboardRefresh
  <2> HIDE DEF w
  <2>3. w \in ViewOn(page) /\ Alike(w, view)
    BY <1>0, <2>1, DashboardRules DEF Alike
  <2>4. qs \in SUBSET AskOn(page) /\ IsFiniteSet(qs) /\ \E n \in qs : n.op = "load"
    BY DashboardAsksFit
  <2> HIDE DEF qs
  <2>5. \A f \in T : f \in {"timer", "leaving"} \/ \E n \in qs : n.op \in Holders(page, f)
    BY <2>4 DEF Holders
  <2> HIDE DEF T
  <2> QED
    BY <1>0, <2>1, <2>2, <2>3, <2>4, <2>5, AlikeAsksAll
<1>2. CASE AdminDashboardTaken
  <2>1. PICK q \in Answers("load") : view' = Free([view EXCEPT !.rows = q.got], {"loading", "refreshing"})
    BY <1>2 DEF AdminDashboardTaken
  <2>2. flight' = {} /\ UNCHANGED <<page, server, ledger, clicks>>
    BY <1>2 DEF AdminDashboardTaken
  <2> DEFINE u == [view EXCEPT !.rows = q.got]
  <2>3. q.got \in TextedRows
    BY <2>1, AnswerFacts
  <2>4. /\ u \in TextedView /\ u.busy = view.busy /\ u.at = view.at /\ u.number = view.number /\ u.secrets = view.secrets
        /\ u.form = view.form /\ u.edits = view.edits
    BY <1>0, <2>3 DEF TextedView
  <2>5. view' = Free(u, {"loading", "refreshing"})
    BY <2>1
  <2> HIDE DEF u
  <2>6. /\ view' \in TextedView /\ view'.busy = u.busy \ {"loading", "refreshing"} /\ view'.at = u.at /\ view'.number = u.number
        /\ view'.secrets = u.secrets /\ view'.form = u.form /\ view'.edits = u.edits
    BY <1>0, <2>4, <2>5, FlagFacts, ZenonT(30)
  <2>7. view'.busy = {} /\ view'.at = NONE /\ DOMAIN view'.secrets = {}
    BY <1>0, <2>4, <2>6
  <2>8. view' \in ViewOn(page)
    BY <1>0, <2>4, <2>6, <2>7, DashboardRules
  <2>9. HeldAll(page, view', {})
    BY <2>7 DEF HeldAll
  <2>10. RunsFit(page, view', {})
    BY <1>0, RunsFree
  <2>11. Data'
    <3>1. IsFiniteSet({})
      BY FS_EmptySet
    <3> QED
      BY <2>2, <3>1 DEF IInv, Data, Shelf
  <2> QED
    BY <2>2, <2>4, <2>6, <2>8, <2>9, <2>10, <2>11 DEF IInv, Kept, FailureKept
<1> QED
  BY <1>1, <1>2 DEF AdminDashboardNext

-----------------------------------------------------------------------------
(* The assigned work of an accountant. *)

LEMMA AssignedWorkFoundKeeps ==
    ASSUME IInv, page = "assigned work", NEW q \in flight, q.op \in {"load", "fallback"}, q.verb \notin Writes,
           q.got \in TextedRows, AssignedWorkFound(q, view)
    PROVE  IInv' /\ Kept
<1>0. /\ page \notin SpecialPages /\ page \notin RunPages \cup {"request", "staff", "blog"} /\ view \in TextedView
      /\ {"documents"} \in SUBSET Flag
  BY ReadyFacts DEF QuietPages, SpecialPages, FormPages, BlankPages, BusyPages, RunPages, DetailPages, SearchPages, Flag
<1> DEFINE rows == AssignedWorkDetail(q)
           u == [view EXCEPT !.rows = rows]
           w == Busy(u, {"documents"})
           n == GetList("documents")
<1>1. rows \in TextedRows
  BY RestrictTexted DEF AssignedWorkDetail
<1>2. TakesThenAsks(q, w, n)
  BY DEF AssignedWorkFound
<1> HIDE DEF rows
<1>3. u \in TextedView /\ Alike(u, view) /\ u.busy = view.busy
  BY <1>0, <1>1 DEF TextedView, Alike
<1> HIDE DEF u
<1>4. w \in TextedView /\ Alike(w, view) /\ w.busy = u.busy \cup {"documents"}
  BY <1>0, <1>3, AlikeBusy
<1> HIDE DEF w
<1>5. w \in ViewOn(page)
  BY <1>0, <1>4, PlainView DEF Alike
<1>6. n \in AskOn(page) /\ n.op = "documents"
  <2>1. "documents" \in OpName /\ "documents" # "reveal" /\ NoRowLoad("documents")
    BY DEF OpName, NoRowLoad, RowLoads
  <2> QED
    BY <2>1, ListAsk
<1> HIDE DEF n
<1>7. n.op \in Holders(page, "documents") /\ n.op \in Holders(page, "loading")
  BY <1>6 DEF Holders, Loads
<1>8. \A f : q.op \in Holders(page, f) => f \in {} \/ n.op \in Holders(page, f)
  <2>1. \A f : q.op \in Holders(page, f) => f = "loading"
    BY DEF Holders
  <2> QED
    BY <1>7, <2>1
<1>9. q.op # "reveal" /\ q.op \notin AtHolders(page)
  BY DEF AtHolders
<1>10. w.busy = (view.busy \ {}) \cup {"documents"} /\ "timer" \notin {}
  BY <1>3, <1>4
<1> QED
  BY <1>0, <1>2, <1>4, <1>5, <1>6, <1>7, <1>8, <1>9, <1>10, AlikeChain

LEMMA AssignedWorkKeeps == ASSUME IInv, page = "assigned work", AssignedWorkNext PROVE IInv' /\ Kept
<1>0. /\ page \notin SpecialPages /\ page \notin RunPages \cup {"request", "staff", "blog"} /\ page \notin RunPages
      /\ page \notin BusyPages /\ view \in TextedView /\ Ready /\ FirstRow \in Row /\ page \notin {"staff", "blog"}
  BY ReadyFacts, NoneIsNoRow DEF QuietPages, SpecialPages, FormPages, BlankPages, BusyPages, RunPages, DetailPages, SearchPages
<1>1. CASE UserAsks(Busy(view, {"loading"}), GetRow("load", FirstRow))
  <2>1. "load" \in OpName /\ (NoRowLoad("load") \/ FirstRow = FirstRow) /\ "load" \in Loads
    BY DEF OpName, Loads
  <2>2. GetRow("load", FirstRow) \in AskOn(page) /\ GetRow("load", FirstRow).op = "load"
    BY <1>0, <2>1, GetRowFits
  <2> QED
    BY <1>0, <1>1, <2>1, <2>2, LoadClick
<1>2. ASSUME NEW q \in Good("load") \cup Good("fallback"), AssignedWorkFound(q, view) PROVE IInv' /\ Kept
  <2>1. PICK op \in {"load", "fallback"} : q \in Answers(op)
    BY <1>2, GoodBad
  <2>2. op \in Reads
    BY DEF Reads
  <2>3. q \in flight /\ q.op \in {"load", "fallback"} /\ q.got \in TextedRows /\ q.verb \notin Writes
    BY <2>1, <2>2, AnswerFacts
  <2> QED
    BY <1>2, <2>3, AssignedWorkFoundKeeps
<1>3. ASSUME NEW q \in Bad("load"), TakesThenAsks(q, view, GetList("fallback")) PROVE IInv' /\ Kept
  <2>1. q \in Answers("load") /\ "load" \in Reads
    BY <1>3, GoodBad DEF Reads
  <2>2. q \in flight /\ q.op = "load" /\ q.verb \notin Writes
    BY <2>1, AnswerFacts
  <2> DEFINE n == GetList("fallback")
  <2>3. n \in AskOn(page) /\ n.op = "fallback"
    <3>1. "fallback" \in OpName /\ "fallback" # "reveal" /\ NoRowLoad("fallback")
      BY DEF OpName, NoRowLoad, RowLoads
    <3> QED
      BY <3>1, ListAsk
  <2>4. TakesThenAsks(q, view, n)
    BY <1>3
  <2> HIDE DEF n
  <2>5. \A f : q.op \in Holders(page, f) => f = "loading"
    BY <2>2 DEF Holders
  <2>6. n.op \in Holders(page, "loading") /\ q.op \notin AtHolders(page)
    BY <2>2, <2>3 DEF Holders, Loads, AtHolders
  <2>7. Passes(view, {}, {}, {q}, {n})
    BY <2>2, <2>5, <2>6 DEF Passes
  <2>8. StillHeld(view, {q}, {n})
    BY <1>0, <2>7, AlikeHeld
  <2>9. view \in ViewOn(page)
    BY DEF IInv
  <2> QED
    BY <1>0, <2>2, <2>3, <2>4, <2>8, <2>9, TakesAsksKeeps
<1>4. ASSUME NEW q \in Answers("fallback"), Takes(q, Free([view EXCEPT !.rows = Nothing], {"loading"})) PROVE IInv' /\ Kept
  <2>1. q \in flight /\ q.op = "fallback"
    BY <1>4, AnswerFacts
  <2>2. (\A f : q.op \in Holders(page, f) => f \in {"loading"}) /\ q.op \notin AtHolders(page) \cup {"reveal"}
    BY <2>1 DEF Holders, AtHolders
  <2>3. {"loading"} \in SUBSET (Flag \ {"timer"})
    BY DEF Flag
  <2> QED
    BY <1>0, <1>4, <2>1, <2>2, <2>3, NothingTexted, RowsAnswer
<1>5. CASE AssignedWorkDocuments
  <2>1. PICK q \in Answers("documents") : Takes(q, Free(view, {"documents", "loading"}))
    BY <1>5 DEF AssignedWorkDocuments
  <2>2. q \in flight /\ q.op = "documents"
    BY <2>1, AnswerFacts
  <2>3. (\A f : q.op \in Holders(page, f) => f \in {"documents", "loading"}) /\ q.op \notin AtHolders(page) \cup {"reveal"}
    BY <2>2 DEF Holders, AtHolders
  <2>4. {"documents", "loading"} \in SUBSET (Flag \ {"timer"})
    BY DEF Flag
  <2> QED
    BY <1>0, <2>1, <2>2, <2>3, <2>4, FlagAnswer
<1>6. CASE UserAsks(Busy(view, {"status"}), Patch("status", FirstRow))
  <2>1. "status" \in OpName \ Reads /\ "status" \in Flag
    BY DEF OpName, Reads, Flag
  <2>2. Patch("status", FirstRow) \in AskOn(page) /\ Patch("status", FirstRow).op = "status"
    BY <1>0, <2>1, PatchFits
  <2>3. "status" \in Holders(page, "status")
    BY DEF Holders
  <2> QED
    BY <1>0, <1>6, <2>1, <2>2, <2>3, FlagClick
<1>7. ASSUME NEW q \in Answers("status"), Takes(q, Free(view, {"status"})) \/ Fails(q, Free(view, {"status"})) PROVE IInv' /\ Kept
  <2>1. q \in flight /\ q.op = "status"
    BY <1>7, AnswerFacts
  <2>2. (\A f : q.op \in Holders(page, f) => f \in {"status"}) /\ q.op \notin AtHolders(page) \cup {"reveal"}
    BY <2>1 DEF Holders, AtHolders, Loads
  <2>3. {"status"} \in SUBSET (Flag \ {"timer"})
    BY DEF Flag
  <2> QED
    BY <1>0, <1>7, <2>1, <2>2, <2>3, FlagAnswer
<1> QED
  BY <1>1, <1>2, <1>3, <1>4, <1>5, <1>6, <1>7, GoodBad DEF AssignedWorkNext, AssignedWorkLoad, AssignedWorkStatus

-----------------------------------------------------------------------------
(* A consultation and its form. *)

LEMMA ConsultationFacts ==
    page = "consultation" =>
        /\ page \notin RunPages \cup {"request", "staff", "blog"} /\ page \notin RunPages /\ page \notin BusyPages
        /\ page \in RowPages /\ AtHolders(page) = {}
        /\ \A f : "load" \in Holders(page, f) => f = "loading"
        /\ \A f : "save" \in Holders(page, f) => f = "savingDetails"
        /\ \A f : "status" \in Holders(page, f) => f = "savingStatus"
        /\ \A f : "delete" \in Holders(page, f) => f = "deleting"
        /\ \A f : "savingDetails" \in Holders(page, f) => f \in {"loading", "savingDetails"}
        /\ \A f : "savingStatus" \in Holders(page, f) => f \in {"loading", "savingStatus"}
        /\ "load" \in Holders(page, "loading") /\ "delete" \in Holders(page, "deleting")
        /\ "save" \in Holders(page, "savingDetails") /\ "status" \in Holders(page, "savingStatus")
        /\ "savingDetails" \in Holders(page, "savingDetails") /\ "savingStatus" \in Holders(page, "savingStatus")
        /\ {"load", "savingDetails", "savingStatus"} \subseteq Loads
  BY DEF QuietPages, BusyPages, RowPages, RunPages, DetailPages, SearchPages, AtHolders, Holders, Loads

LEMMA ConsultationView ==
    ASSUME page = "consultation"
    PROVE  \A v : v \in ViewOn(page) <=> /\ v \in TextedView /\ v.number \in {1, 2}
                                         /\ v.form # NONE \/ FirstRow \notin DOMAIN v.rows
  BY DEF QuietPages, ViewOn, FormPages, BlankPages, DetailPages, SearchPages, RunPages

\* An answer to a load fills the form in, and lowers the flags in S.
LEMMA ConsultationTakenKeeps ==
    ASSUME IInv, page = "consultation", NEW op \in RowLoads, NEW q \in Answers(op), NEW S \in SUBSET (Flag \ {"timer"}),
           \A f : op \in Holders(page, f) => f = "loading" \/ f \in S,
           NEW w, w = Free(ConsultationTaken(q, view), S), Takes(q, w)
    PROVE  IInv' /\ Kept
<1>0. /\ page \notin RunPages \cup {"request", "staff", "blog"} /\ page \notin RunPages /\ page \in RowPages /\ AtHolders(page) = {}
      /\ view \in TextedView /\ clicks \in Nat /\ view.number \in {1, 2}
      /\ view.form # NONE \/ FirstRow \notin DOMAIN view.rows
  BY ConsultationFacts, ConsultationView, ReadyFacts DEF IInv
<1>1. /\ q \in flight /\ q.op = op /\ q.got \in TextedRows /\ q \in TextedAsk /\ q \in AskOn(page)
      /\ q.verb = "get" /\ q.row = FirstRow /\ q.verb \notin Writes
  <2>1. q \in flight /\ q.op = op /\ q.got \in TextedRows /\ q \in TextedAsk /\ q \in AskOn(page)
    BY AnswerFacts, ReadyFacts
  <2>2. q.verb = "get" /\ q.row = FirstRow
    BY <1>0, <2>1 DEF AskOn
  <2> QED
    BY <2>1, <2>2 DEF Writes, Creates
<1> DEFINE f == ConsultationToForm(q)
           x == [view EXCEPT !.rows = q.got, !.form = f]
           u == IF q.state = "ok" THEN x ELSE view
           y == Free(u, {"loading"})
<1>2. q.state = "ok" => f \in TextedForm /\ DOMAIN q.got = {FirstRow}
  <2>1. q.state = "ok" => DOMAIN q.got = {FirstRow}
    BY <1>1 DEF TextedAsk, AskRules
  <2>2. q.state = "ok" => q.got[FirstRow] \in Text /\ q.got[FirstRow] \in TextsFor(FirstRow)
    BY <1>1, <2>1, RowsElim
  <2> QED
    BY <1>0, <2>1, <2>2, FormsTexted, NoneIsNoRow DEF ConsultationToForm
<1>3. w = Free(y, S)
  BY DEF ConsultationTaken, ShowsRow
<1> HIDE DEF f
<1>4. /\ u \in TextedView /\ u.busy = view.busy /\ u.at = view.at /\ u.mounted = view.mounted /\ u.number = view.number
      /\ u.secrets = view.secrets /\ (u.form # NONE \/ FirstRow \notin DOMAIN u.rows)
  <2>1. CASE q.state = "ok"
    <3>1. f \in TextedForm /\ f # NONE
      BY <1>2, <2>1, FormIsSome
    <3>2. x \in TextedView /\ x.form = f
      BY <1>0, <1>1, <3>1 DEF TextedView
    <3>3. /\ x.busy = view.busy /\ x.at = view.at /\ x.mounted = view.mounted /\ x.number = view.number
          /\ x.secrets = view.secrets
      BY <1>0 DEF TextedView
    <3> QED
      BY <2>1, <3>1, <3>2, <3>3
  <2>2. CASE q.state # "ok"
    BY <1>0, <2>2
  <2> QED
    BY <2>1, <2>2
<1> HIDE DEF u
<1>5. {"loading"} \in SUBSET Flag /\ S \in SUBSET Flag /\ "timer" \notin {"loading"} \cup S
  BY DEF Flag
<1>6. /\ y \in TextedView /\ y.busy = u.busy \ {"loading"} /\ y.at = u.at /\ y.mounted = u.mounted /\ y.number = u.number
      /\ y.secrets = u.secrets /\ y.form = u.form /\ y.rows = u.rows
  BY <1>4, <1>5, FlagFacts
<1> HIDE DEF y
<1>7. /\ w \in TextedView /\ w.busy = y.busy \ S /\ w.at = y.at /\ w.mounted = y.mounted /\ w.number = y.number
      /\ w.secrets = y.secrets /\ w.form = y.form /\ w.rows = y.rows
  BY <1>3, <1>5, <1>6, FlagFacts
<1>8. w \in ViewOn(page)
  BY <1>0, <1>4, <1>6, <1>7, ConsultationView
<1>9. w.busy = (view.busy \ ({"loading"} \cup S)) \cup {}
  BY <1>4, <1>6, <1>7
<1>10. q.op # "reveal" /\ q.op \notin AtHolders(page)
  BY <1>0, <1>1 DEF RowLoads
<1>11. \A g : q.op \in Holders(page, g) => g \in {"loading"} \cup S
  BY <1>1
<1>12. Passes(w, {"loading"} \cup S, {}, {q}, {})
  BY <1>4, <1>5, <1>6, <1>7, <1>9, <1>10, <1>11 DEF Passes
<1>13. StillHeld(w, {q}, {})
  BY <1>0, <1>12, AlikeHeld
<1> QED
  BY <1>0, <1>1, <1>8, <1>13, TakesKeeps

LEMMA ConsultationSavesKeeps ==
    ASSUME IInv, page = "consultation", NEW what, NEW op, NEW q0,
           \/ what = "savingDetails" /\ op = "save" /\ (ConsultationShown => q0 = Update("save", view.form))
           \/ what = "savingStatus" /\ op = "status" /\ q0 = Patch("status", FirstRow),
           ConsultationSaves(what, op, q0)
    PROVE  IInv' /\ Kept
<1>0. /\ page \notin RunPages \cup {"request", "staff", "blog"} /\ page \notin RunPages /\ page \in RowPages /\ AtHolders(page) = {}
      /\ view \in TextedView /\ Ready /\ FirstRow \in Row /\ page \notin BusyPages /\ page \notin {"staff", "blog"}
      /\ view.form # NONE \/ FirstRow \notin DOMAIN view.rows
  BY ConsultationFacts, ConsultationView, ReadyFacts, NoneIsNoRow DEF IInv
<1>a. /\ what \in Loads /\ what \in RowLoads /\ what \in OpName /\ what \in Flag /\ {what} \in SUBSET (Flag \ {"timer"})
      /\ op \in Holders(page, what) /\ what \in Holders(page, what) /\ op # "reveal" /\ op \in OpName \ Reads
      /\ \A f : op \in Holders(page, f) => f = what
      /\ \A f : what \in Holders(page, f) => f = "loading" \/ f \in {what}
  <2>1. {"save", "status"} \subseteq OpName \ Reads /\ {"savingDetails", "savingStatus"} \subseteq OpName \cap Flag
    BY DEF OpName, Reads, Flag
  <2>2. {"savingDetails", "savingStatus"} \subseteq RowLoads
    BY DEF RowLoads
  <2> QED
    BY <2>1, <2>2, ConsultationFacts
<1>1. CASE ConsultationShown /\ UserAsks(Busy(view, {what}), q0)
  <2>1. view.form \in TextedForm
    BY <1>0, <1>1 DEF ConsultationShown, TextedView
  <2>2. q0 \in AskOn(page) /\ q0.op = op
    <3>1. CASE q0 = Update("save", view.form) /\ op = "save"
      BY <1>0, <1>a, <2>1, <3>1, UpdateFits
    <3>2. CASE q0 = Patch("status", FirstRow) /\ op = "status"
      BY <1>0, <1>a, <3>2, PatchFits
    <3> QED
      BY <1>1, <3>1, <3>2
  <2> QED
    BY <1>0, <1>1, <1>a, <2>2, FlagClick
<1>2. ASSUME NEW q \in Good(op), TakesThenAsks(q, Busy(view, {"loading"}), GetRow(what, FirstRow)) PROVE IInv' /\ Kept
  <2>1. q \in flight /\ q.op = op /\ q.state = "ok"
    BY <1>2, AnswerFacts, GoodBad
  <2> DEFINE n == GetRow(what, FirstRow)
  <2>2. n \in AskOn(page) /\ n.op = what
    <3>1. NoRowLoad(what) \/ FirstRow = FirstRow
      OBVIOUS
    <3> QED
      BY <1>0, <1>a, <3>1, GetRowFits
  <2>3. TakesThenAsks(q, Busy(view, {"loading"}), n)
    BY <1>2
  <2> HIDE DEF n
  <2>4. n.op \in Loads /\ (\A g : q.op \in Holders(page, g) => n.op \in Holders(page, g)) /\ q.op # "reveal"
    BY <1>a, <2>1, <2>2
  <2> QED
    BY <1>0, <2>1, <2>2, <2>3, <2>4, ReloadAnswer
<1>3. ASSUME NEW q \in Answers(what), Takes(q, Free(ConsultationTaken(q, view), {what})) PROVE IInv' /\ Kept
  BY <1>3, <1>a, ConsultationTakenKeeps
<1>4. ASSUME NEW q \in Bad(op), Fails(q, Free(view, {what})) PROVE IInv' /\ Kept
  <2>1. q \in flight /\ q.op = op
    BY <1>4, AnswerFacts, GoodBad
  <2>2. (\A g : q.op \in Holders(page, g) => g \in {what}) /\ q.op \notin AtHolders(page) \cup {"reveal"}
    BY <1>0, <1>a, <2>1
  <2> QED
    BY <1>0, <1>4, <1>a, <2>1, <2>2, FlagAnswer
<1> QED
  BY <1>1, <1>2, <1>3, <1>4 DEF ConsultationSaves

LEMMA ConsultationKeeps == ASSUME IInv, page = "consultation", ConsultationNext PROVE IInv' /\ Kept
<1>0. /\ page \notin RunPages \cup {"request", "staff", "blog"} /\ page \notin RunPages /\ page \in RowPages /\ AtHolders(page) = {}
      /\ view \in TextedView /\ Ready /\ FirstRow \in Row /\ page \notin BusyPages /\ page \notin {"staff", "blog"}
      /\ view.form # NONE \/ FirstRow \notin DOMAIN view.rows
  BY ConsultationFacts, ConsultationView, ReadyFacts, NoneIsNoRow DEF IInv
<1>1. CASE UserAsks(Busy(view, {"loading"}), GetRow("load", FirstRow))
  <2>1. "load" \in OpName /\ (NoRowLoad("load") \/ FirstRow = FirstRow) /\ "load" \in Loads
    BY DEF OpName, Loads
  <2>2. GetRow("load", FirstRow) \in AskOn(page) /\ GetRow("load", FirstRow).op = "load"
    BY <1>0, <2>1, GetRowFits
  <2> QED
    BY <1>0, <1>1, <2>1, <2>2, LoadClick
<1>2. ASSUME NEW q \in Answers("load"), Takes(q, ConsultationTaken(q, view)) PROVE IInv' /\ Kept
  <2> DEFINE w == ConsultationTaken(q, view)
             y == IF q.state = "ok" THEN [ShowsRow(q, view) EXCEPT !.form = ConsultationToForm(q)] ELSE view
  <2>1. w = Free(y, {"loading"}) /\ Takes(q, w)
    BY <1>2 DEF ConsultationTaken
  <2>2. w = Free(w, {})
    BY <2>1 DEF Free, ShowsRow
  <2>3. {} \in SUBSET (Flag \ {"timer"}) /\ "load" \in RowLoads
    BY DEF RowLoads
  <2>4. \A f : "load" \in Holders(page, f) => f = "loading" \/ f \in {}
    BY ConsultationFacts
  <2> QED
    BY <2>1, <2>2, <2>3, <2>4, ConsultationTakenKeeps
<1>3. CASE ConsultationShown /\ Typing
  <2> DEFINE w == [view EXCEPT !.form.text = "typed"]
  <2>1. view.form # NONE
    BY <1>0, <1>3 DEF ConsultationShown
  <2>2. /\ w \in TextedView /\ w.form # NONE /\ w.busy = view.busy /\ w.at = view.at /\ w.mounted = view.mounted
        /\ w.number = view.number /\ w.secrets = view.secrets
    BY <2>1, TypingFacts
  <2>3. UserDoes(w)
    BY <1>3 DEF Typing
  <2> HIDE DEF w
  <2>4. w \in ViewOn(page)
    BY <2>2, ConsultationView DEF IInv
  <2>5. Passes(w, {}, {}, {}, {})
    BY <2>2 DEF Passes
  <2>6. StillHeld(w, {}, {})
    BY <1>0, <2>5, AlikeHeld
  <2> QED
    BY <1>0, <2>3, <2>4, <2>6, DoesKeeps
<1>4. CASE ConsultationSaveDetails
  BY <1>4, ConsultationSavesKeeps DEF ConsultationSaveDetails
<1>5. CASE ConsultationSaveStatus
  BY <1>5, ConsultationSavesKeeps DEF ConsultationSaveStatus
<1>6. CASE UserAsks(Busy(view, {"deleting"}), Delete("delete", FirstRow))
  <2>1. "delete" \in OpName \ Reads /\ "deleting" \in Flag
    BY DEF OpName, Reads, Flag
  <2>2. Delete("delete", FirstRow) \in AskOn(page) /\ Delete("delete", FirstRow).op = "delete"
    BY <1>0, <2>1, PatchFits
  <2>3. "delete" \in Holders(page, "deleting")
    BY DEF Holders
  <2> QED
    BY <1>0, <1>6, <2>1, <2>2, <2>3, FlagClick
<1>7. ASSUME NEW q \in Answers("delete"), Takes(q, Free(view, {"deleting"})) \/ Fails(q, Free(view, {"deleting"}))
      PROVE  IInv' /\ Kept
  <2>1. q \in flight /\ q.op = "delete"
    BY <1>7, AnswerFacts
  <2>2. (\A f : q.op \in Holders(page, f) => f \in {"deleting"}) /\ q.op \notin AtHolders(page) \cup {"reveal"}
    BY <1>0, <2>1, ConsultationFacts
  <2>3. {"deleting"} \in SUBSET (Flag \ {"timer"})
    BY DEF Flag
  <2> QED
    BY <1>0, <1>7, <2>1, <2>2, <2>3, FlagAnswer
<1> QED
  BY <1>1, <1>2, <1>3, <1>4, <1>5, <1>6, <1>7, GoodBad
  DEF ConsultationNext, ConsultationLoad, ConsultationUpdateForm, ConsultationDelete

-----------------------------------------------------------------------------
(* The admin's page of one request. *)

RequestRule(v) == \/ v.busy \cap CardFlags = {} /\ v.form = NONE
                  \/ "loading" \notin v.busy /\ FirstRow \in DOMAIN v.rows

LEMMA RequestFacts ==
    ASSUME page = "request"
    PROVE  /\ page \notin RunPages /\ page \in CreatePages /\ AtHolders(page) = {} /\ page \notin {"staff", "blog"}
           /\ page \notin RunPages \cup {"consultation"}
           /\ \A v : v \in ViewOn(page) <=> /\ v \in TextedView /\ v.number \in {1, 2} /\ RequestRule(v)
                                            /\ v.form = NONE \/ v.form.row = NONE
           /\ \A f : "load" \in Holders(page, f) => f = "loading"
           /\ \A f : "status" \in Holders(page, f) => f = "status"
           /\ \A f : "upload" \in Holders(page, f) => f = "uploading"
           /\ \A f : "accountants" \in Holders(page, f) => f = "accountants"
           /\ \A f : "assign" \in Holders(page, f) => f = "assigning"
           /\ \A f : "send" \in Holders(page, f) => f = "sending"
           /\ "load" \in Holders(page, "loading") /\ "status" \in Holders(page, "status")
           /\ "upload" \in Holders(page, "uploading") /\ "accountants" \in Holders(page, "accountants")
           /\ "assign" \in Holders(page, "assigning") /\ "send" \in Holders(page, "sending")
<1>1. /\ page \notin RunPages /\ page \in CreatePages /\ AtHolders(page) = {} /\ page \notin {"staff", "blog"}
      /\ page \notin RunPages \cup {"consultation"}
  BY DEF RunPages, DetailPages, SearchPages, CreatePages, AtHolders
<1>2. \A v : v \in ViewOn(page) <=> /\ v \in TextedView /\ v.number \in {1, 2} /\ RequestRule(v)
                                    /\ v.form = NONE \/ v.form.row = NONE
  BY DEF QuietPages, ViewOn, FormPages, BlankPages, DetailPages, SearchPages, RunPages, RequestRule
<1>3. /\ \A f : "load" \in Holders(page, f) => f = "loading"
      /\ \A f : "status" \in Holders(page, f) => f = "status"
      /\ \A f : "upload" \in Holders(page, f) => f = "uploading"
      /\ \A f : "accountants" \in Holders(page, f) => f = "accountants"
      /\ \A f : "assign" \in Holders(page, f) => f = "assigning"
      /\ \A f : "send" \in Holders(page, f) => f = "sending"
      /\ "load" \in Holders(page, "loading") /\ "status" \in Holders(page, "status")
      /\ "upload" \in Holders(page, "uploading") /\ "accountants" \in Holders(page, "accountants")
      /\ "assign" \in Holders(page, "assigning") /\ "send" \in Holders(page, "sending")
  BY DEF Holders, Loads
<1> QED
  BY <1>1, <1>2, <1>3

\* A request of a card, sent in the life the card is in.
LEMMA CardClick ==
    ASSUME IInv, page = "request", FirstRow \in DOMAIN view.rows, "loading" \notin view.busy, NEW f \in CardFlags,
           NEW q \in AskOn(page), q.op \in Holders(page, f), q.life = view.mounted, UserAsks(Busy(view, {f}), q)
    PROVE  IInv' /\ Kept
<1> DEFINE w == Busy(view, {f})
<1>0. /\ view \in TextedView /\ {f} \in SUBSET Flag /\ f # "loading"
  BY ReadyFacts DEF CardFlags, Flag
<1>1. /\ w \in TextedView /\ w.busy = view.busy \cup {f} /\ w.at = view.at /\ w.mounted = view.mounted /\ w.number = view.number
      /\ w.form = view.form /\ w.rows = view.rows /\ w.secrets = view.secrets
  BY <1>0, FlagFacts
<1>2. UserAsks(w, q)
  OBVIOUS
<1> HIDE DEF w
<1>3. w \in ViewOn(page)
  <2>1. RequestRule(w)
    BY <1>0, <1>1 DEF RequestRule
  <2> QED
    BY <1>1, <2>1, RequestFacts DEF IInv
<1>4. StillHeld(w, {}, {q})
  BY <1>0, <1>1, RequestFacts DEF StillHeld, Holder
<1> QED
  BY <1>2, <1>3, <1>4, RequestFacts, AsksKeeps

\* The answer to it is the card's business in that life, and nobody's in another.
LEMMA CardAnswer ==
    ASSUME IInv, page = "request", NEW f \in CardFlags, NEW q \in flight, \A g : q.op \in Holders(page, g) => g = f,
           q.op # "reveal", NEW w \in ViewOn(page), w.form = view.form, w.edits = view.edits, w.at = view.at,
           w.mounted = view.mounted, w.secrets = view.secrets,
           IF Own(q) THEN w.busy = view.busy \ {f} ELSE w.busy = view.busy,
           Takes(q, w) \/ Fails(q, w)
    PROVE  IInv' /\ Kept
<1>1. view \in ViewOn(page) /\ RequestRule(view)
  BY RequestFacts DEF IInv
<1>2. ~Own(q) => f \notin view.busy \/ q.life # view.mounted
  BY <1>1 DEF RequestRule, Own, RequestCards, Has
<1>3. f # "timer" /\ f # "loading"
  BY DEF CardFlags
<1>4. \A g \in w.busy : g \in view.busy /\ ~Holder(page, view, q, g)
  BY <1>2 DEF Holder
<1>4a. "timer" \in view.busy => "timer" \in w.busy
  BY <1>3
<1>5. StillHeld(w, {q}, {})
  BY <1>4, <1>4a, RequestFacts DEF StillHeld
<1> QED
  BY <1>5, RequestFacts, TakesKeeps, FailsKeeps

\* What is left when the cards go.
LEMMA UnmountedFacts ==
    ASSUME NEW v \in TextedView
    PROVE  LET w == Unmounted(v) IN
           /\ w \in TextedView /\ w.busy = v.busy \ CardFlags /\ w.form = NONE /\ w.at = v.at /\ w.mounted = v.mounted
           /\ w.number = v.number /\ w.secrets = v.secrets /\ w.rows = v.rows
<1> DEFINE u == [v EXCEPT !.form = NONE, !.section = NONE]
<1>1. /\ u \in TextedView /\ u.busy = v.busy /\ u.form = NONE /\ u.at = v.at /\ u.mounted = v.mounted
      /\ u.number = v.number /\ u.secrets = v.secrets /\ u.rows = v.rows
  BY DEF TextedView
<1>2. Unmounted(v) = Free(u, CardFlags) /\ CardFlags \in SUBSET Flag
  BY DEF Unmounted, CardFlags, Flag
<1> HIDE DEF u
<1>3. /\ Free(u, CardFlags) \in TextedView /\ Free(u, CardFlags).busy = u.busy \ CardFlags
      /\ Free(u, CardFlags).form = u.form /\ Free(u, CardFlags).at = u.at /\ Free(u, CardFlags).mounted = u.mounted
      /\ Free(u, CardFlags).number = u.number /\ Free(u, CardFlags).secrets = u.secrets /\ Free(u, CardFlags).rows = u.rows
  BY <1>1, <1>2, FlagFacts
<1> QED
  BY <1>1, <1>2, <1>3

LEMMA RequestReloadsKeeps ==
    ASSUME IInv, page = "request", NEW f \in CardFlags, NEW q \in flight, \A g : q.op \in Holders(page, g) => g = f,
           q.op # "reveal", q.state = "ok", NEW v \in TextedView, v.busy = view.busy, v.at = view.at, v.mounted = view.mounted,
           v.number = view.number, v.secrets = view.secrets, RequestReloads(q, v)
    PROVE  IInv' /\ Kept
<1> DEFINE u == Unmounted(v)
           w == Busy(u, {"loading"})
           n == GetRow("load", FirstRow)
<1>0. {"loading"} \in SUBSET Flag /\ "timer" \notin CardFlags /\ "loading" \notin CardFlags
  BY DEF CardFlags, Flag
<1>1. /\ u \in TextedView /\ u.busy = view.busy \ CardFlags /\ u.form = NONE /\ u.at = view.at /\ u.mounted = view.mounted
      /\ u.number = view.number /\ u.secrets = view.secrets
  BY UnmountedFacts
<1>2. TakesThenAsks(q, w, n)
  BY DEF RequestReloads
<1> HIDE DEF u
<1>3. /\ w \in TextedView /\ w.busy = u.busy \cup {"loading"} /\ w.at = u.at /\ w.mounted = u.mounted /\ w.number = u.number
      /\ w.form = u.form /\ w.secrets = u.secrets
  BY <1>0, <1>1, FlagFacts
<1> HIDE DEF w
<1>4. w \in ViewOn(page)
  <2>1. RequestRule(w)
    BY <1>0, <1>1, <1>3 DEF RequestRule
  <2>2. view.number \in {1, 2}
    BY RequestFacts DEF IInv
  <2> QED
    BY <1>1, <1>3, <2>1, <2>2, RequestFacts
<1>5. n \in AskOn(page) /\ n.op = "load"
  <2>1. "load" \in OpName /\ (NoRowLoad("load") \/ FirstRow = FirstRow)
    BY DEF OpName
  <2> QED
    BY <2>1, ReadyFacts, NoneIsNoRow, GetRowFits
<1> HIDE DEF n
<1>6. StillHeld(w, {q}, {n})
  <2>1. Holder(page, w, n, "loading")
    BY <1>0, <1>5, RequestFacts DEF Holder
  <2>2. ASSUME NEW g \in w.busy, g # "loading" PROVE g \in view.busy /\ ~Holder(page, view, q, g)
    BY <1>1, <1>3, <2>2 DEF Holder
  <2> QED
    BY <1>1, <1>3, <2>1, <2>2, RequestFacts DEF StillHeld
<1>7. q.state # "failed" \/ q.verb \notin Writes
  OBVIOUS
<1> QED
  BY <1>2, <1>4, <1>5, <1>6, <1>7, RequestFacts, TakesAsksKeeps

LEMMA RequestLoadFacts ==
    ASSUME IInv, page = "request", NEW q \in Answers("load")
    PROVE  /\ q \in flight /\ q.op = "load" /\ q.got \in TextedRows /\ q.verb \notin Writes
           /\ q.state = "ok" => DOMAIN q.got = {FirstRow}
<1>1. q \in flight /\ q.op = "load" /\ q.got \in TextedRows /\ q \in TextedAsk /\ q \in AskOn(page)
  BY AnswerFacts, ReadyFacts
<1>2. q.verb = "get" /\ q.row = FirstRow
  BY <1>1 DEF AskOn, RowLoads
<1>3. q.state = "ok" => DOMAIN q.got = {FirstRow}
  BY <1>1, <1>2 DEF TextedAsk, AskRules
<1> QED
  BY <1>1, <1>2, <1>3 DEF Writes, Creates

\* The cards appear, in a new life.
LEMMA CardsAppear ==
    ASSUME IInv, page = "request", NEW q \in Good("load"), ~RequestCards, NEW n, n = view.mounted + 1,
           NEW u, u = [Free(ShowsRow(q, view), {"loading"}) EXCEPT !.mounted = n],
           NEW a, a = [GetList("accountants") EXCEPT !.life = n], TakesThenAsks(q, Busy(u, {"accountants"}), a)
    PROVE  IInv' /\ Kept
<1>0. /\ q \in flight /\ q.op = "load" /\ q.got \in TextedRows /\ q.verb \notin Writes /\ DOMAIN q.got = {FirstRow}
      /\ view \in TextedView /\ view.number \in {1, 2} /\ RequestRule(view) /\ view.form = NONE
      /\ view.busy \cap CardFlags = {} /\ view.mounted \in Nat
  <2>1. q \in Answers("load") /\ q.state = "ok"
    BY GoodBad DEF Good
  <2>2. view \in TextedView /\ view.number \in {1, 2} /\ RequestRule(view)
    BY RequestFacts DEF IInv
  <2>3. view.form = NONE /\ view.busy \cap CardFlags = {}
    BY <2>2 DEF RequestRule, RequestCards, Has
  <2>4. view.mounted \in Nat
    BY <2>2 DEF TextedView
  <2> QED
    BY <2>1, <2>2, <2>3, <2>4, RequestLoadFacts
<1>1. n \in Nat
  BY <1>0
<1>2. {"loading"} \in SUBSET Flag /\ {"accountants"} \in SUBSET Flag /\ "accountants" \in CardFlags /\ "loading" \notin CardFlags
  BY DEF Flag, CardFlags
<1> DEFINE x == ShowsRow(q, view)
           y == Free(x, {"loading"})
           w == Busy(u, {"accountants"})
<1>3. /\ x \in TextedView /\ x.busy = view.busy /\ x.at = view.at /\ x.form = NONE /\ x.rows = q.got
      /\ x.number = view.number /\ x.secrets = view.secrets
  BY <1>0 DEF TextedView, ShowsRow
<1> HIDE DEF x
<1>4. /\ y \in TextedView /\ y.busy = x.busy \ {"loading"} /\ y.at = x.at /\ y.form = x.form /\ y.rows = x.rows
      /\ y.number = x.number /\ y.secrets = x.secrets
  BY <1>2, <1>3, FlagFacts
<1>5. u = [y EXCEPT !.mounted = n]
  BY DEF x
<1> HIDE DEF y
<1>6. /\ u \in TextedView /\ u.busy = y.busy /\ u.at = y.at /\ u.form = y.form /\ u.rows = y.rows
      /\ u.number = y.number /\ u.secrets = y.secrets /\ u.mounted = n
  BY <1>1, <1>4, <1>5 DEF TextedView
<1>7. /\ w \in TextedView /\ w.busy = u.busy \cup {"accountants"} /\ w.at = u.at /\ w.form = u.form /\ w.rows = u.rows
      /\ w.number = u.number /\ w.secrets = u.secrets /\ w.mounted = u.mounted
  <2>1. u \in TextedView /\ {"accountants"} \in SUBSET Flag
    BY <1>2, <1>6
  <2>2. w.busy = u.busy \cup {"accountants"} /\ w \in TextedView
    BY <2>1 DEF Busy, TextedView
  <2> QED
    BY <2>1, <2>2 DEF Busy, TextedView
<1>8. TakesThenAsksAll(q, w, {a})
  BY DEF TakesThenAsks
<1> HIDE DEF w
<1>9. /\ w.busy = (view.busy \ {"loading"}) \cup {"accountants"} /\ w.at = view.at /\ w.form = NONE
      /\ w.secrets = view.secrets /\ w.mounted = n /\ DOMAIN w.rows = {FirstRow} /\ w.number \in {1, 2}
  BY <1>0, <1>3, <1>4, <1>6, <1>7
<1>10. w \in ViewOn(page)
  <2>1. RequestRule(w)
    BY <1>9 DEF RequestRule
  <2> QED
    BY <1>7, <1>9, <2>1, RequestFacts
<1>11. a \in AskOn(page) /\ a.op = "accountants" /\ a.life = n
  <2> DEFINE b == GetList("accountants")
  <2>1. b \in AskOn(page) /\ b.op = "accountants" /\ b.verb = "list"
    <3>1. "accountants" \in OpName /\ "accountants" # "reveal" /\ NoRowLoad("accountants") /\ "all" \in Query
      BY DEF OpName, NoRowLoad, RowLoads, Query
    <3> QED
      BY <3>1, ReadyFacts, GetListFits
  <2> HIDE DEF b
  <2>2. a = [b EXCEPT !.life = n]
    BY DEF b
  <2>3. b \in AskFields /\ AskRules(b)
    BY <2>1 DEF AskOn, TextedAsk
  <2>4. /\ a \in AskFields /\ a.op = b.op /\ a.verb = b.verb /\ a.row = b.row /\ a.text = b.text /\ a.query = b.query
        /\ a.state = b.state /\ a.got = b.got /\ a.life = n
    BY <1>1, <2>2, <2>3 DEF AskFields
  <2>5. AskRules(a)
    BY <2>3, <2>4 DEF AskRules
  <2> QED
    BY <2>1, <2>4, <2>5 DEF AskOn, TextedAsk
<1>12. HeldAll(page, w, (flight \ {q}) \cup {a})
  <2>1. HeldAll(page, view, flight)
    BY DEF IInv
  <2>2. ASSUME NEW f \in w.busy \ {"timer", "leaving"}
        PROVE  (f = "loading" /\ "timer" \in w.busy) \/ \E b \in (flight \ {q}) \cup {a} : Holder(page, w, b, f)
    <3>1. CASE f = "accountants"
      <4>1. Holder(page, w, a, "accountants")
        BY <1>9, <1>11, RequestFacts DEF Holder
      <4> QED
        BY <3>1, <4>1
    <3>2. CASE f # "accountants"
      <4>1. f \in view.busy /\ f # "loading" /\ f \notin CardFlags
        BY <1>0, <1>9, <3>2
      <4>2. PICK b \in flight : Holder(page, view, b, f)
        BY <2>1, <2>2, <4>1 DEF HeldAll
      <4>3. b # q
        BY <1>0, <4>1, <4>2, RequestFacts DEF Holder
      <4>4. Holder(page, w, b, f)
        BY <4>1, <4>2, RequestFacts DEF Holder
      <4> QED
        BY <4>3, <4>4
    <3> QED
      BY <3>1, <3>2
  <2>3. view.at = NONE
    BY <2>1, RequestFacts DEF HeldAll
  <2>4. ASSUME NEW r \in DOMAIN w.secrets, w.secrets[r] = "waiting"
        PROVE  "reveal" \notin AtHolders(page) /\ \E b \in (flight \ {q}) \cup {a} : b.op = "reveal" /\ b.row = r
    BY <1>0, <1>9, <2>1, <2>4 DEF HeldAll
  <2> QED
    BY <1>9, <2>2, <2>3, <2>4 DEF HeldAll
<1>13. RunsFit(page, w, (flight \ {q}) \cup {a})
  BY RequestFacts, RunsFree
<1>14. {a} \in SUBSET AskOn(page) /\ IsFiniteSet({a})
  BY <1>11, FS_Singleton
<1> QED
  BY <1>0, <1>8, <1>10, <1>12, <1>13, <1>14, TakesAsksStep

LEMMA RequestLoadKeeps == ASSUME IInv, page = "request", RequestLoad PROVE IInv' /\ Kept
<1>0. view \in TextedView /\ view.number \in {1, 2} /\ RequestRule(view) /\ (view.form = NONE \/ view.form.row = NONE)
  BY RequestFacts DEF IInv
<1>1. ASSUME NEW q \in Good("load"), RequestCards, Takes(q, ShowsRow(q, view)) PROVE IInv' /\ Kept
  <2> DEFINE w == ShowsRow(q, view)
  <2>1. q \in flight /\ q.op = "load" /\ q.got \in TextedRows /\ q.verb \notin Writes /\ DOMAIN q.got = {FirstRow}
    BY <1>1, RequestLoadFacts, GoodBad DEF Good
  <2>2. /\ w \in TextedView /\ w.busy = view.busy /\ w.at = view.at /\ w.form = view.form /\ w.rows = q.got
        /\ w.number = view.number /\ w.secrets = view.secrets /\ w.mounted = view.mounted
    BY <1>0, <2>1 DEF TextedView, ShowsRow
  <2>3. "loading" \notin view.busy
    BY <1>1 DEF RequestCards, Has
  <2>4. Takes(q, w)
    BY <1>1
  <2> HIDE DEF w
  <2>5. w \in ViewOn(page)
    <3>1. RequestRule(w)
      BY <2>1, <2>2, <2>3 DEF RequestRule
    <3> QED
      BY <1>0, <2>2, <3>1, RequestFacts
  <2>6. StillHeld(w, {q}, {})
    BY <2>1, <2>2, <2>3, RequestFacts DEF StillHeld, Holder
  <2> QED
    BY <2>1, <2>4, <2>5, <2>6, RequestFacts, TakesKeeps
<1>2. ASSUME NEW q \in Good("load"), ~RequestCards,
             LET n == view.mounted + 1
                 v == [Free(ShowsRow(q, view), {"loading"}) EXCEPT !.mounted = n] IN
             TakesThenAsks(q, Busy(v, {"accountants"}), [GetList("accountants") EXCEPT !.life = n])
      PROVE  IInv' /\ Kept
  BY <1>2, CardsAppear
<1>3. ASSUME NEW q \in Bad("load"), Takes(q, Free([Unmounted(view) EXCEPT !.rows = Nothing], {"loading"})) PROVE IInv' /\ Kept
  <2> DEFINE u == Unmounted(view)
             x == [u EXCEPT !.rows = Nothing]
             w == Free(x, {"loading"})
  <2>1. q \in flight /\ q.op = "load" /\ q.verb \notin Writes
    BY <1>3, RequestLoadFacts, GoodBad
  <2>2. /\ u \in TextedView /\ u.busy = view.busy \ CardFlags /\ u.form = NONE /\ u.at = view.at /\ u.mounted = view.mounted
        /\ u.number = view.number /\ u.secrets = view.secrets
    BY <1>0, UnmountedFacts
  <2>3. Takes(q, w) /\ {"loading"} \in SUBSET Flag
    BY <1>3 DEF Flag
  <2> HIDE DEF u
  <2>4. /\ x \in TextedView /\ x.busy = u.busy /\ x.form = u.form /\ x.at = u.at /\ x.mounted = u.mounted
        /\ x.number = u.number /\ x.secrets = u.secrets
    BY <2>2, NothingTexted DEF TextedView
  <2> HIDE DEF x
  <2>5. /\ w \in TextedView /\ w.busy = x.busy \ {"loading"} /\ w.form = x.form /\ w.at = x.at /\ w.mounted = x.mounted
        /\ w.number = x.number /\ w.secrets = x.secrets
    BY <2>3, <2>4, FlagFacts
  <2> HIDE DEF w
  <2>6. w \in ViewOn(page)
    <3>1. RequestRule(w)
      BY <2>2, <2>4, <2>5 DEF RequestRule
    <3> QED
      BY <1>0, <2>2, <2>4, <2>5, <3>1, RequestFacts
  <2>7. StillHeld(w, {q}, {})
    BY <2>1, <2>2, <2>4, <2>5, RequestFacts DEF StillHeld, Holder
  <2> QED
    BY <2>1, <2>3, <2>6, <2>7, RequestFacts, TakesKeeps
<1> QED
  BY <1>1, <1>2, <1>3 DEF RequestLoad

\* A failed answer to a request of a card.
LEMMA CardFails ==
    ASSUME IInv, page = "request", NEW f \in CardFlags, NEW op, NEW q \in Bad(op), \A g : op \in Holders(page, g) => g = f,
           op # "reveal", Fails(q, IF Own(q) THEN Free(view, {f}) ELSE view)
    PROVE  IInv' /\ Kept
<1> DEFINE w == IF Own(q) THEN Free(view, {f}) ELSE view
<1>0. /\ view \in TextedView /\ view.number \in {1, 2} /\ RequestRule(view) /\ (view.form = NONE \/ view.form.row = NONE)
      /\ {f} \in SUBSET Flag
  BY RequestFacts DEF IInv, CardFlags, Flag
<1>1. q \in flight /\ q.op = op
  BY AnswerFacts, GoodBad
<1>2. /\ w \in TextedView /\ (IF Own(q) THEN w.busy = view.busy \ {f} ELSE w.busy = view.busy)
      /\ w.form = view.form /\ w.edits = view.edits /\ w.at = view.at /\ w.mounted = view.mounted
      /\ w.secrets = view.secrets /\ w.number = view.number /\ w.rows = view.rows
  BY <1>0, FlagFacts
<1>3. Fails(q, w)
  OBVIOUS
<1> HIDE DEF w
<1>4. w \in ViewOn(page)
  <2>1. RequestRule(w)
    BY <1>0, <1>2 DEF RequestRule
  <2> QED
    BY <1>0, <1>2, <2>1, RequestFacts
<1> QED
  BY <1>1, <1>2, <1>3, <1>4, CardAnswer

LEMMA CardPatch ==
    ASSUME IInv, page = "request", NEW f \in CardFlags, NEW op \in OpName \ Reads, op \in Holders(page, f), RequestCards,
           UserAsks(Busy(view, {f}), Patch(op, FirstRow))
    PROVE  IInv' /\ Kept
<1>1. Patch(op, FirstRow) \in AskOn(page) /\ Patch(op, FirstRow).op = op /\ Patch(op, FirstRow).life = view.mounted
  BY ReadyFacts, NoneIsNoRow, PatchFits
<1>2. FirstRow \in DOMAIN view.rows /\ "loading" \notin view.busy
  BY DEF RequestCards, Has
<1> QED
  BY <1>1, <1>2, CardClick

LEMMA CardReloads ==
    ASSUME IInv, page = "request", NEW f \in CardFlags, NEW op, NEW q \in Good(op), \A g : op \in Holders(page, g) => g = f,
           op # "reveal", RequestReloads(q, view) \/ RequestReloads(q, ShowsRow(q, view))
    PROVE  IInv' /\ Kept
<1>1. q \in flight /\ q.op = op /\ q.state = "ok" /\ q.got \in TextedRows
  BY AnswerFacts, GoodBad
<1>2. view \in TextedView
  BY ReadyFacts
<1>3. CASE RequestReloads(q, view)
  BY <1>1, <1>2, <1>3, RequestReloadsKeeps
<1>4. CASE RequestReloads(q, ShowsRow(q, view))
  <2> DEFINE v == ShowsRow(q, view)
  <2>1. /\ v \in TextedView /\ v.busy = view.busy /\ v.at = view.at /\ v.mounted = view.mounted
        /\ v.number = view.number /\ v.secrets = view.secrets
    BY <1>1, <1>2 DEF ShowsRow, TextedView
  <2>2. RequestReloads(q, v)
    BY <1>4
  <2> HIDE DEF v
  <2> QED
    BY <1>1, <2>1, <2>2, RequestReloadsKeeps
<1> QED
  BY <1>3, <1>4

LEMMA AssignAccountantsKeeps == ASSUME IInv, page = "request", AssignAccountants PROVE IInv' /\ Kept
<1>0. /\ view \in TextedView /\ view.number \in {1, 2} /\ RequestRule(view) /\ (view.form = NONE \/ view.form.row = NONE)
      /\ {"accountants"} \in SUBSET Flag /\ "accountants" \in CardFlags /\ FirstRow \in Row
  BY RequestFacts, NoneIsNoRow DEF IInv, CardFlags, Flag
<1>1. PICK q \in Answers("accountants") :
         Takes(q, IF Own(q) THEN Free([view EXCEPT !.section = IF q.state = "ok" THEN FirstRow ELSE NONE], {"accountants"})
                  ELSE view)
  BY DEF AssignAccountants
<1> DEFINE r == IF q.state = "ok" THEN FirstRow ELSE NONE
           u == [view EXCEPT !.section = r]
           y == Free(u, {"accountants"})
           w == IF Own(q) THEN y ELSE view
<1>2. q \in flight /\ q.op = "accountants"
  BY <1>1, AnswerFacts
<1>3. Takes(q, w)
  BY <1>1
<1>4. r \in Row \cup {NONE}
  BY <1>0
<1> HIDE DEF r
<1>5. /\ u \in TextedView /\ u.busy = view.busy /\ u.form = view.form /\ u.edits = view.edits /\ u.at = view.at
      /\ u.mounted = view.mounted /\ u.secrets = view.secrets /\ u.number = view.number /\ u.rows = view.rows
  BY <1>0, <1>4 DEF TextedView
<1> HIDE DEF u
<1>6. /\ y \in TextedView /\ y.busy = u.busy \ {"accountants"} /\ y.form = u.form /\ y.edits = u.edits /\ y.at = u.at
      /\ y.mounted = u.mounted /\ y.secrets = u.secrets /\ y.number = u.number /\ y.rows = u.rows
  BY <1>0, <1>5, FlagFacts
<1> HIDE DEF y
<1>7. /\ w \in TextedView /\ (IF Own(q) THEN w.busy = view.busy \ {"accountants"} ELSE w.busy = view.busy)
      /\ w.form = view.form /\ w.edits = view.edits /\ w.at = view.at /\ w.mounted = view.mounted
      /\ w.secrets = view.secrets /\ w.number = view.number /\ w.rows = view.rows
  BY <1>0, <1>5, <1>6
<1> HIDE DEF w
<1>8. w \in ViewOn(page)
  <2>1. RequestRule(w)
    BY <1>0, <1>7 DEF RequestRule
  <2> QED
    BY <1>0, <1>7, <2>1, RequestFacts
<1>9. (\A g : q.op \in Holders(page, g) => g = "accountants") /\ q.op # "reveal"
  BY <1>2, RequestFacts
<1> QED
  BY <1>0, <1>2, <1>3, <1>7, <1>8, <1>9, CardAnswer

LEMMA RequestUploadKeeps ==
    ASSUME IInv, page = "request", RequestUploadForm \/ RequestUploadFields \/ RequestUploadSend PROVE IInv' /\ Kept
<1>0. /\ view \in TextedView /\ view.number \in {1, 2} /\ RequestRule(view) /\ (view.form = NONE \/ view.form.row = NONE)
      /\ page \notin RunPages /\ clicks \in Nat /\ Ready /\ "sending" \in CardFlags /\ {"sending"} \in SUBSET Flag
      /\ AtHolders(page) = {} /\ page \in CreatePages
  BY RequestFacts, ReadyFacts DEF IInv, CardFlags, Flag
<1>1. CASE RequestCards /\ view.form = NONE /\ FormOpens(Blank)
  <2> DEFINE w == [view EXCEPT !.form = Blank]
  <2>1. Blank \in TextedForm /\ Blank.row = NONE
    BY <1>0, FormsTexted
  <2>2. /\ w \in TextedView /\ w.busy = view.busy /\ w.form = Blank /\ w.at = view.at /\ w.mounted = view.mounted
        /\ w.number = view.number /\ w.secrets = view.secrets /\ w.rows = view.rows
    BY <1>0, <2>1 DEF TextedView
  <2>3. UserDoes(w)
    BY <1>1 DEF FormOpens
  <2> HIDE DEF w
  <2>4. w \in ViewOn(page)
    <3>1. RequestRule(w)
      BY <1>1, <2>2 DEF RequestRule, RequestCards, Has
    <3> QED
      BY <1>0, <2>1, <2>2, <3>1, RequestFacts
  <2>5. Calmer(w)
    BY <2>2, RequestFacts DEF Calmer
  <2> QED
    BY <1>0, <2>3, <2>4, <2>5, CalmDoes
<1>2. CASE view.form # NONE /\ FormCloses
  <2> DEFINE w == FormShut(view)
  <2>1. /\ w \in TextedView /\ w.busy = view.busy \ {"uploading"} /\ w.form = NONE /\ w.at = view.at /\ w.mounted = view.mounted
        /\ w.number = view.number /\ w.secrets = view.secrets /\ w.rows = view.rows
    BY <1>0, FormShutFacts
  <2>2. UserDoes(w)
    BY <1>2 DEF FormCloses
  <2> HIDE DEF w
  <2>3. w \in ViewOn(page)
    <3>1. RequestRule(w)
      BY <1>0, <2>1 DEF RequestRule
    <3> QED
      BY <1>0, <2>1, <3>1, RequestFacts
  <2>4. Calmer(w)
    BY <2>1, RequestFacts DEF Calmer
  <2> QED
    BY <1>0, <2>2, <2>3, <2>4, CalmDoes
<1>3. CASE view.form # NONE /\ Typing
  BY <1>3, RequestFacts, TypingKeeps
<1>4. CASE view.form # NONE /\ UserAsks(Busy(view, {"sending"}), Create("send", view.form))
  <2>1. view.form \in TextedForm /\ view.form.row = NONE /\ "send" \in OpName \ Reads
    BY <1>0, <1>4 DEF TextedView, OpName, Reads
  <2>2. /\ Create("send", view.form) \in AskOn(page) /\ Create("send", view.form).op = "send"
        /\ Create("send", view.form).life = view.mounted
    BY <1>0, <2>1, CreateFits
  <2>3. FirstRow \in DOMAIN view.rows /\ "loading" \notin view.busy
    BY <1>0, <1>4 DEF RequestRule
  <2> QED
    BY <1>0, <1>4, <2>2, <2>3, RequestFacts, CardClick
<1>5. ASSUME NEW q \in Good("send"), Takes(q, IF Own(q) THEN Free([view EXCEPT !.form = NONE], {"sending"}) ELSE view)
      PROVE  IInv' /\ Kept
  <2> DEFINE u == [view EXCEPT !.form = NONE]
             w == Free(u, {"sending"})
  <2>1. q \in flight /\ q.op = "send" /\ q.state = "ok"
    BY <1>5, AnswerFacts, GoodBad
  <2>2. (\A g : q.op \in Holders(page, g) => g = "sending") /\ q.op # "reveal"
    BY <2>1, RequestFacts
  <2>3. CASE ~Own(q)
    <3>1. Takes(q, view) /\ view \in ViewOn(page)
      BY <1>5, <2>3 DEF IInv
    <3> QED
      BY <1>0, <2>1, <2>2, <2>3, <3>1, CardAnswer
  <2>4. CASE Own(q)
    <3>1. Takes(q, w)
      BY <1>5, <2>4
    <3>2. /\ u \in TextedView /\ u.busy = view.busy /\ u.form = NONE /\ u.at = view.at /\ u.mounted = view.mounted
          /\ u.number = view.number /\ u.secrets = view.secrets /\ u.rows = view.rows
      BY <1>0 DEF TextedView
    <3> HIDE DEF u
    <3>3. /\ w \in TextedView /\ w.busy = u.busy \ {"sending"} /\ w.form = u.form /\ w.at = u.at /\ w.mounted = u.mounted
          /\ w.number = u.number /\ w.secrets = u.secrets /\ w.rows = u.rows
      BY <1>0, <3>2, FlagFacts
    <3> HIDE DEF w
    <3>4. w \in ViewOn(page)
      <4>1. RequestRule(w)
        BY <1>0, <3>2, <3>3 DEF RequestRule
      <4> QED
        BY <1>0, <3>2, <3>3, <4>1, RequestFacts
    <3>5. Calmer(w)
      BY <3>2, <3>3, RequestFacts DEF Calmer
    <3>6. FreeOf(w, q)
      BY <1>0, <2>2, <3>2, <3>3 DEF FreeOf
    <3> QED
      BY <1>0, <2>1, <3>1, <3>4, <3>5, <3>6, CalmTakes
  <2> QED
    BY <2>3, <2>4
<1>6. ASSUME NEW q \in Bad("send"), Fails(q, IF Own(q) THEN Free(view, {"sending"}) ELSE view) PROVE IInv' /\ Kept
  <2>1. \A g : "send" \in Holders(page, g) => g = "sending"
    BY RequestFacts
  <2> QED
    BY <1>0, <1>6, <2>1, CardFails
<1> QED
  BY <1>1, <1>2, <1>3, <1>4, <1>5, <1>6 DEF RequestUploadForm, RequestUploadFields, RequestUploadSend

LEMMA RequestKeeps == ASSUME IInv, page = "request", RequestNext PROVE IInv' /\ Kept
<1>0. /\ {"status", "uploading", "assigning"} \subseteq CardFlags /\ {"status", "upload", "assign"} \subseteq OpName \ Reads
      /\ "status" \in Holders(page, "status") /\ "upload" \in Holders(page, "uploading") /\ "assign" \in Holders(page, "assigning")
      /\ \A f : "status" \in Holders(page, f) => f = "status"
      /\ \A f : "upload" \in Holders(page, f) => f = "uploading"
      /\ \A f : "assign" \in Holders(page, f) => f = "assigning"
  BY RequestFacts DEF CardFlags, OpName, Reads
<1>1. CASE RequestLoad
  BY <1>1, RequestLoadKeeps
<1>2. CASE UpdateStatus
  <2>1. CASE RequestCards /\ UserAsks(Busy(view, {"status"}), Patch("status", FirstRow))
    BY <1>0, <2>1, CardPatch
  <2>2. ASSUME NEW q \in Good("status"), RequestReloads(q, ShowsRow(q, view)) PROVE IInv' /\ Kept
    BY <1>0, <2>2, CardReloads
  <2>3. ASSUME NEW q \in Bad("status"), Fails(q, IF Own(q) THEN Free(view, {"status"}) ELSE view) PROVE IInv' /\ Kept
    BY <1>0, <2>3, CardFails
  <2> QED
    BY <1>2, <2>1, <2>2, <2>3 DEF UpdateStatus
<1>3. CASE UploadDocument
  <2>1. CASE RequestCards /\ UserAsks(Busy(view, {"uploading"}), Patch("upload", FirstRow))
    BY <1>0, <2>1, CardPatch
  <2>2. ASSUME NEW q \in Good("upload"), RequestReloads(q, view) PROVE IInv' /\ Kept
    BY <1>0, <2>2, CardReloads
  <2>3. ASSUME NEW q \in Bad("upload"), Fails(q, IF Own(q) THEN Free(view, {"uploading"}) ELSE view) PROVE IInv' /\ Kept
    BY <1>0, <2>3, CardFails
  <2> QED
    BY <1>3, <2>1, <2>2, <2>3 DEF UploadDocument
<1>4. CASE AssignAccountants
  BY <1>4, AssignAccountantsKeeps
<1>5. CASE AssignAccountant
  <2>1. CASE RequestCards /\ UserAsks(Busy(view, {"assigning"}), Patch("assign", FirstRow))
    BY <1>0, <2>1, CardPatch
  <2>2. ASSUME NEW q \in Good("assign"), RequestReloads(q, view) PROVE IInv' /\ Kept
    BY <1>0, <2>2, CardReloads
  <2>3. ASSUME NEW q \in Bad("assign"), Fails(q, IF Own(q) THEN Free(view, {"assigning"}) ELSE view) PROVE IInv' /\ Kept
    BY <1>0, <2>3, CardFails
  <2> QED
    BY <1>5, <2>1, <2>2, <2>3 DEF AssignAccountant
<1>6. CASE RequestUploadForm \/ RequestUploadFields \/ RequestUploadSend
  BY <1>6, RequestUploadKeeps
<1> QED
  BY <1>1, <1>2, <1>3, <1>4, <1>5, <1>6 DEF RequestNext

-----------------------------------------------------------------------------
(* Pages whose effect cancels the run before. *)

LEMMA RunRules ==
    ASSUME page \in RunPages
    PROVE  /\ AtHolders(page) = {} /\ page \notin {"request", "staff", "blog"} /\ page \notin CreatePages
           /\ page \notin RowPages \cup {"request"} /\ page \notin FormPages \cup BlankPages \cup {"profile", "consultation", "bell"}
           /\ \A f : "load" \in Holders(page, f) => f = "loading"
           /\ "load" \in Holders(page, "loading")
  BY DEF RunPages, DetailPages, SearchPages, AtHolders, CreatePages, RowPages, FormPages, BlankPages, Holders, Loads

\* What holds the flags up, when the answers that are gone were answers to a load.
LEMMA RunHeld ==
    ASSUME IInv, page \in RunPages, NEW w, w.at = view.at, w.secrets = view.secrets \/ DOMAIN w.secrets = {},
           w.busy \subseteq {"loading", "timer"}, NEW fl, \A q \in flight : q.op # "load" => q \in fl,
           "loading" \in w.busy => "timer" \in w.busy \/ \E q \in fl : q.op \in Loads /\ q.life = w.mounted
    PROVE  HeldAll(page, w, fl)
<1>1. HeldAll(page, view, flight)
  BY DEF IInv
<1>2. view.at = NONE
  BY <1>1, RunRules DEF HeldAll
<1>3. ASSUME NEW f \in w.busy \ {"timer", "leaving"}
      PROVE  (f = "loading" /\ "timer" \in w.busy) \/ \E q \in fl : Holder(page, w, q, f)
  <2>1. f = "loading"
    BY <1>3
  <2>2. ASSUME NEW q \in fl, q.op \in Loads, q.life = w.mounted PROVE Holder(page, w, q, "loading")
    BY <2>2, RunRules DEF Holder, Holders
  <2> QED
    BY <1>3, <2>1, <2>2
<1>4. ASSUME NEW r \in DOMAIN w.secrets, w.secrets[r] = "waiting"
      PROVE  "reveal" \notin AtHolders(page) /\ \E q \in fl : q.op = "reveal" /\ q.row = r
  <2>1. PICK q \in flight : q.op = "reveal" /\ q.row = r
    BY <1>1, <1>4 DEF HeldAll
  <2> QED
    BY <2>1, RunRules
<1> QED
  BY <1>2, <1>3, <1>4 DEF HeldAll

LEMMA SearchView ==
    ASSUME page \in SearchPages
    PROVE  \A v : v \in ViewOn(page) <=> /\ v \in TextedView /\ v.number \in {1, 2} /\ v.busy \subseteq {"loading", "timer"}
                                         /\ v.busy \cap {"loading", "timer"} = {} => DOMAIN v.rows \subseteq Found(v.asked)
  BY DEF QuietPages, ViewOn, FormPages, BlankPages, DetailPages, SearchPages, RunPages

LEMMA SearchFacts ==
    ASSUME IInv, page \in SearchPages
    PROVE  /\ page \in RunPages /\ view \in TextedView /\ view.number \in {1, 2} /\ view.busy \subseteq {"loading", "timer"}
           /\ view.mounted \in Nat /\ view.asked \in Query /\ Ready
           /\ view.busy \cap {"loading", "timer"} = {} => DOMAIN view.rows \subseteq Found(view.asked)
           /\ HeldAll(page, view, flight)
           /\ \A q \in flight : /\ q.life \in Nat /\ q.life <= view.mounted /\ q.verb = "list"
                                /\ q.life = view.mounted => q.query = view.asked
<1>1. page \in RunPages
  BY DEF RunPages
<1>2. /\ view \in TextedView /\ view.number \in {1, 2} /\ view.busy \subseteq {"loading", "timer"}
      /\ view.busy \cap {"loading", "timer"} = {} => DOMAIN view.rows \subseteq Found(view.asked)
  BY SearchView DEF IInv
<1>3. view.mounted \in Nat /\ view.asked \in Query
  BY <1>2 DEF TextedView
<1>4. HeldAll(page, view, flight)
  BY DEF IInv
<1>5. ASSUME NEW q \in flight
      PROVE  /\ q.life \in Nat /\ q.life <= view.mounted /\ q.verb = "list"
             /\ q.life = view.mounted => q.query = view.asked
  <2>1. q.life \in Nat
    BY ReadyFacts DEF TextedAsk, AskFields
  <2> QED
    BY <1>1, <2>1 DEF IInv, RunsFit
<1> QED
  BY <1>1, <1>2, <1>3, <1>4, <1>5, ReadyFacts

LEMMA SearchFits ==
    ASSUME page \in SearchPages, NEW w, NEW fl,
           \A q \in fl : q.life <= w.mounted /\ q.verb = "list" /\ (q.life = w.mounted => q.query = w.asked)
    PROVE  RunsFit(page, w, fl)
  BY DEF RunsFit, SearchPages, DetailPages

\* Every request that is on its way belongs to a run before this one.
LEMMA Outdated ==
    ASSUME IInv, page \in SearchPages, NEW n, n = view.mounted + 1, NEW q \in flight
    PROVE  q.life <= n /\ q.life # n /\ q.verb = "list"
<1>1. q.life \in Nat /\ view.mounted \in Nat /\ q.life <= view.mounted /\ q.verb = "list"
  BY SearchFacts
<1> QED
  BY <1>1

\* The request of a run.
LEMMA RunAsk ==
    ASSUME IInv, page \in SearchPages, NEW query \in Query, NEW w, w.mounted \in Nat, NEW a, a = ForRun(GetFiltered("load", query), w)
    PROVE  a \in AskOn(page) /\ a.op = "load" /\ a.life = w.mounted /\ a.verb = "list" /\ a.query = query
<1> DEFINE b == GetFiltered("load", query)
<1>1. b \in AskOn(page) /\ b.op = "load" /\ b.verb = "list" /\ b.query = query
  <2>1. "load" \in OpName /\ "load" # "reveal" /\ NoRowLoad("load")
    BY SearchFacts, RunRules DEF OpName, NoRowLoad
  <2> QED
    BY <2>1, ReadyFacts, GetListFits
<1>2. a = [b EXCEPT !.life = w.mounted]
  BY DEF ForRun
<1> HIDE DEF b
<1>3. b \in AskFields /\ AskRules(b)
  BY <1>1 DEF AskOn, TextedAsk
<1>4. /\ a \in AskFields /\ a.op = b.op /\ a.verb = b.verb /\ a.row = b.row /\ a.text = b.text /\ a.query = b.query
      /\ a.state = b.state /\ a.got = b.got /\ a.life = w.mounted
  BY <1>2, <1>3 DEF AskFields
<1>5. AskRules(a)
  BY <1>3, <1>4 DEF AskRules
<1> QED
  BY <1>1, <1>4, <1>5 DEF AskOn, TextedAsk

\* The search or the page number changes.
NewSearch(u) == \/ \E query \in Query : u = [view EXCEPT !.asked = query, !.number = 1]
                \/ u = [view EXCEPT !.number = 3 - view.number]

LEMMA NewSearchFacts ==
    ASSUME IInv, page \in SearchPages, NEW u, NewSearch(u)
    PROVE  /\ Run(u) \in TextedView /\ Run(u).busy = view.busy /\ Run(u).at = view.at /\ Run(u).secrets = view.secrets
           /\ Run(u).number \in {1, 2} /\ Run(u).mounted = view.mounted + 1 /\ Run(u).mounted \in Nat
           /\ Run(u).asked = u.asked /\ u.asked \in Query /\ Run(u).rows = view.rows
<1>0. /\ view \in TextedView /\ view.number \in {1, 2} /\ view.mounted \in Nat
      /\ 3 - view.number \in {1, 2} /\ 3 - view.number \in Nat /\ view.mounted + 1 \in Nat
  BY SearchFacts, OtherPage
<1> DEFINE other == 3 - view.number
           n == view.mounted + 1
<1>1. other \in {1, 2} /\ other \in Nat /\ n \in Nat
  BY <1>0
<1>2. u = [view EXCEPT !.number = other] \/ \E query \in Query : u = [view EXCEPT !.asked = query, !.number = 1]
  BY DEF NewSearch
<1> HIDE DEF other
<1>3. /\ u \in TextedView /\ u.busy = view.busy /\ u.at = view.at /\ u.secrets = view.secrets
      /\ u.number \in {1, 2} /\ u.mounted = view.mounted /\ u.asked \in Query /\ u.rows = view.rows
  <2>1. CASE u = [view EXCEPT !.number = other]
    BY <1>0, <1>1, <2>1 DEF TextedView
  <2>2. ASSUME NEW query \in Query, u = [view EXCEPT !.asked = query, !.number = 1]
        PROVE  /\ u \in TextedView /\ u.busy = view.busy /\ u.at = view.at /\ u.secrets = view.secrets
               /\ u.number = 1 /\ u.mounted = view.mounted /\ u.asked \in Query /\ u.rows = view.rows
    <3> DEFINE one == 1
    <3>1. one \in Nat /\ u = [view EXCEPT !.asked = query, !.number = one]
      BY <2>2
    <3> HIDE DEF one
    <3>2. /\ u \in TextedView /\ u.busy = view.busy /\ u.at = view.at /\ u.secrets = view.secrets
          /\ u.number = one /\ u.mounted = view.mounted /\ u.asked \in Query /\ u.rows = view.rows
      BY <1>0, <3>1 DEF TextedView
    <3> QED
      BY <3>2 DEF one
  <2> QED
    BY <1>2, <2>1, <2>2
<1>4. Run(u) = [u EXCEPT !.mounted = n]
  BY <1>3 DEF Run, TextedView
<1>5. n = view.mounted + 1
  OBVIOUS
<1> HIDE DEF n
<1>6. /\ Run(u) \in TextedView /\ Run(u).busy = u.busy /\ Run(u).at = u.at /\ Run(u).secrets = u.secrets
      /\ Run(u).number = u.number /\ Run(u).mounted = n /\ Run(u).asked = u.asked /\ Run(u).rows = u.rows
  BY <1>1, <1>3, <1>4 DEF TextedView
<1> QED
  BY <1>1, <1>3, <1>5, <1>6

LEMMA RunAsksFacts ==
    ASSUME NEW v \in TextedView
    PROVE  LET w == RunAsks(v) IN
           /\ w \in TextedView /\ w.busy = v.busy \cup {"loading"} /\ w.at = v.at /\ w.secrets = v.secrets
           /\ w.number = v.number /\ w.mounted = v.mounted /\ w.asked = v.asked /\ w.rows = v.rows
<1> DEFINE u == [v EXCEPT !.error = FALSE]
           w == Busy(u, {"loading"})
<1>1. /\ u \in TextedView /\ u.busy = v.busy /\ u.at = v.at /\ u.secrets = v.secrets
      /\ u.number = v.number /\ u.mounted = v.mounted /\ u.asked = v.asked /\ u.rows = v.rows
  BY DEF TextedView
<1>2. RunAsks(v) = w /\ {"loading"} \in SUBSET Flag
  BY DEF RunAsks, Flag
<1> HIDE DEF u
<1>3. /\ w \in TextedView /\ w.busy = u.busy \cup {"loading"} /\ w.at = u.at /\ w.secrets = u.secrets
      /\ w.number = u.number /\ w.mounted = u.mounted /\ w.asked = u.asked /\ w.rows = u.rows
  BY <1>1, <1>2, FlagFacts
<1> HIDE DEF w
<1> QED
  BY <1>1, <1>2, <1>3

LEMMA ListOfRunKeeps ==
    ASSUME IInv, page \in SearchPages, NEW q \in Answers("load"), Takes(q, ListOfRun(q))
    PROVE  IInv' /\ Kept
<1>0. /\ q \in flight /\ q.op = "load" /\ q.got \in TextedRows /\ q.verb \notin Writes /\ q.verb = "list"
      /\ DOMAIN q.got \subseteq Found(q.query)
      /\ q.life = view.mounted => q.query = view.asked
  <2>1. q \in flight /\ q.op = "load" /\ q.got \in TextedRows /\ q \in TextedAsk
    BY AnswerFacts
  <2>2. q.verb = "list" /\ (q.life = view.mounted => q.query = view.asked)
    BY <2>1, SearchFacts
  <2>3. DOMAIN q.got \subseteq Found(q.query)
    BY <2>1, <2>2 DEF TextedAsk, AskRules
  <2> QED
    BY <2>1, <2>2, <2>3 DEF Writes, Creates
<1>1. /\ page \in RunPages /\ view \in TextedView /\ view.number \in {1, 2} /\ view.busy \subseteq {"loading", "timer"}
      /\ HeldAll(page, view, flight) /\ {"loading"} \in SUBSET Flag
  BY SearchFacts DEF Flag
<1> DEFINE fl == flight \ {q}
<1>2. ASSUME NEW w, w.mounted = view.mounted, w.asked = view.asked PROVE RunsFit(page, w, fl)
  BY <1>2, SearchFacts, SearchFits
<1>3. \A b \in flight : b.op # "load" => b \in fl
  BY <1>0
<1>4. CASE q.life = view.mounted
  <2> DEFINE bad == q.state = "failed"
             u == [view EXCEPT !.rows = q.got, !.error = bad]
             w == Free(u, {"loading"})
  <2>1. Takes(q, w)
    BY <1>4 DEF ListOfRun, OfThisRun
  <2>2. bad \in BOOLEAN
    OBVIOUS
  <2> HIDE DEF bad
  <2>3. /\ u \in TextedView /\ u.busy = view.busy /\ u.at = view.at /\ u.secrets = view.secrets /\ u.rows = q.got
        /\ u.number = view.number /\ u.mounted = view.mounted /\ u.asked = view.asked
    BY <1>0, <1>1, <2>2 DEF TextedView
  <2> HIDE DEF u
  <2>4. /\ w \in TextedView /\ w.busy = u.busy \ {"loading"} /\ w.at = u.at /\ w.secrets = u.secrets /\ w.rows = u.rows
        /\ w.number = u.number /\ w.mounted = u.mounted /\ w.asked = u.asked
    BY <1>1, <2>3, FlagFacts
  <2> HIDE DEF w
  <2>5. w \in ViewOn(page)
    <3>1. DOMAIN w.rows \subseteq Found(w.asked)
      <4>1. w.rows = q.got /\ w.asked = view.asked
        BY <2>3, <2>4
      <4>2. q.query = view.asked
        BY <1>0, <1>4
      <4> QED
        BY <1>0, <4>1, <4>2
    <3>2. w.number \in {1, 2} /\ w.busy \subseteq {"loading", "timer"}
      BY <1>1, <2>3, <2>4
    <3> QED
      BY <2>4, <3>1, <3>2, SearchView
  <2>6. HeldAll(page, w, fl)
    <3>1. w.at = view.at /\ w.secrets = view.secrets /\ w.busy \subseteq {"loading", "timer"} /\ "loading" \notin w.busy
      BY <1>1, <2>3, <2>4
    <3> QED
      BY <1>1, <1>3, <3>1, RunHeld
  <2>7. RunsFit(page, w, fl)
    BY <1>2, <2>3, <2>4
  <2> QED
    BY <1>0, <2>1, <2>5, <2>6, <2>7, TakesStep
<1>5. CASE q.life # view.mounted
  <2>1. Takes(q, view) /\ view \in ViewOn(page)
    BY <1>5 DEF ListOfRun, OfThisRun, IInv
  <2>2. "loading" \in view.busy => "timer" \in view.busy \/ \E b \in fl : b.op \in Loads /\ b.life = view.mounted
    <3>1. ASSUME "loading" \in view.busy, "timer" \notin view.busy PROVE \E b \in fl : b.op \in Loads /\ b.life = view.mounted
      <4>1. PICK b \in flight : Holder(page, view, b, "loading")
        BY <1>1, <3>1 DEF HeldAll
      <4>2. b.life = view.mounted /\ b # q
        BY <1>1, <1>5, <4>1 DEF Holder
      <4>3. b.op \in Loads
        BY <4>1 DEF Holder, Holders
      <4> QED
        BY <4>2, <4>3
    <3> QED
      BY <3>1
  <2>3. HeldAll(page, view, fl)
    BY <1>1, <1>3, <2>2, RunHeld
  <2>4. RunsFit(page, view, fl)
    BY <1>2
  <2> QED
    BY <1>0, <2>1, <2>3, <2>4, TakesStep
<1> QED
  BY <1>4, <1>5

LEMMA ClientsKeeps == ASSUME IInv, page = "clients", ClientsNext PROVE IInv' /\ Kept
<1>0. /\ page \in SearchPages /\ page \in RunPages /\ view \in TextedView /\ view.number \in {1, 2}
      /\ view.busy \subseteq {"loading", "timer"} /\ HeldAll(page, view, flight) /\ {"timer"} \in SUBSET Flag
      /\ view.mounted \in Nat /\ view.asked \in Query
  <2>1. page \in SearchPages /\ {"timer"} \in SUBSET Flag
    BY DEF SearchPages, Flag
  <2> QED
    BY <2>1, SearchFacts
<1>1. ASSUME NEW u, NewSearch(u), ClientsRuns(u) PROVE IInv' /\ Kept
  <2> DEFINE x == Run(u)
             w == Busy(x, {"timer"})
  <2>1. /\ x \in TextedView /\ x.busy = view.busy /\ x.at = view.at /\ x.secrets = view.secrets
        /\ x.number \in {1, 2} /\ x.mounted = view.mounted + 1
    BY <1>0, <1>1, NewSearchFacts
  <2>2. UserAsksAll(w, {})
    BY <1>1 DEF ClientsRuns
  <2> HIDE DEF x
  <2>3. /\ w \in TextedView /\ w.busy = x.busy \cup {"timer"} /\ w.at = x.at /\ w.secrets = x.secrets
        /\ w.number = x.number /\ w.mounted = x.mounted
    BY <1>0, <2>1, FlagFacts
  <2> HIDE DEF w
  <2>4. w.busy \subseteq {"loading", "timer"} /\ "timer" \in w.busy /\ w.number \in {1, 2} /\ w.at = view.at /\ w.secrets = view.secrets
    BY <1>0, <2>1, <2>3
  <2>5. w \in ViewOn(page)
    BY <1>0, <2>3, <2>4, SearchView
  <2>6. HeldAll(page, w, flight \cup {})
    BY <1>0, <2>4, RunHeld
  <2>7. RunsFit(page, w, flight \cup {})
    <3>1. \A q \in flight \cup {} : q.life <= w.mounted /\ q.life # w.mounted /\ q.verb = "list"
      BY <1>0, <2>1, <2>3, Outdated
    <3> QED
      BY <1>0, <3>1, SearchFits
  <2>8. {} \in SUBSET AskOn(page) /\ IsFiniteSet({})
    BY FS_EmptySet
  <2> QED
    BY <2>2, <2>5, <2>6, <2>7, <2>8, AsksStep
<1>2. CASE ClientsTimer
  <2> DEFINE x == RunAsks(view)
             w == Free(x, {"timer"})
             a == ForRun(GetFiltered("load", view.asked), view)
  <2>1. /\ x \in TextedView /\ x.busy = view.busy \cup {"loading"} /\ x.at = view.at /\ x.secrets = view.secrets
        /\ x.number = view.number /\ x.mounted = view.mounted /\ x.asked = view.asked
    BY <1>0, RunAsksFacts
  <2>2. TimerAsks(w, {a})
    BY <1>2 DEF ClientsTimer
  <2>3. a \in AskOn(page) /\ a.op = "load" /\ a.life = view.mounted /\ a.verb = "list" /\ a.query = view.asked
    BY <1>0, RunAsk
  <2> HIDE DEF x, a
  <2>4. /\ w \in TextedView /\ w.busy = x.busy \ {"timer"} /\ w.at = x.at /\ w.secrets = x.secrets
        /\ w.number = x.number /\ w.mounted = x.mounted /\ w.asked = x.asked
    BY <1>0, <2>1, FlagFacts
  <2> HIDE DEF w
  <2>5. /\ w.busy \subseteq {"loading", "timer"} /\ "loading" \in w.busy /\ w.number \in {1, 2} /\ w.at = view.at
        /\ w.secrets = view.secrets /\ w.mounted = view.mounted /\ w.asked = view.asked
    BY <1>0, <2>1, <2>4
  <2>6. w \in ViewOn(page)
    BY <1>0, <2>4, <2>5, SearchView
  <2>7. HeldAll(page, w, flight \cup {a})
    <3>1. a \in flight \cup {a} /\ a.op \in Loads /\ a.life = w.mounted
      BY <2>3, <2>5 DEF Loads
    <3>2. \A q \in flight : q.op # "load" => q \in flight \cup {a}
      OBVIOUS
    <3> QED
      BY <1>0, <2>5, <3>1, <3>2, RunHeld
  <2>8. RunsFit(page, w, flight \cup {a})
    <3>1. a.life <= w.mounted /\ a.verb = "list" /\ (a.life = w.mounted => a.query = w.asked)
      BY <1>0, <2>3, <2>5
    <3>2. \A q \in flight : q.life <= w.mounted /\ q.verb = "list" /\ (q.life = w.mounted => q.query = w.asked)
      BY <1>0, <2>5, SearchFacts
    <3>3. \A q \in flight \cup {a} : q.life <= w.mounted /\ q.verb = "list" /\ (q.life = w.mounted => q.query = w.asked)
      BY <3>1, <3>2
    <3> QED
      BY <1>0, <3>3, SearchFits
  <2>9. {a} \in SUBSET AskOn(page) /\ IsFiniteSet({a})
    BY <2>3, FS_Singleton
  <2> QED
    BY <2>2, <2>6, <2>7, <2>8, <2>9, TimerStep
<1>3. CASE ClientsTaken
  BY <1>0, <1>3, ListOfRunKeeps DEF ClientsTaken
<1>4. CASE ClientsSearch
  <2>1. PICK query \in Query : ClientsRuns([view EXCEPT !.asked = query, !.number = 1])
    BY <1>4 DEF ClientsSearch
  <2>2. NewSearch([view EXCEPT !.asked = query, !.number = 1])
    BY DEF NewSearch
  <2> QED
    BY <1>1, <2>1, <2>2
<1>5. CASE ClientsPage
  <2>1. ClientsRuns([view EXCEPT !.number = 3 - view.number]) /\ NewSearch([view EXCEPT !.number = 3 - view.number])
    BY <1>5 DEF ClientsPage, NewSearch
  <2> QED
    BY <1>1, <2>1
<1> QED
  BY <1>2, <1>3, <1>4, <1>5 DEF ClientsNext

LEMMA NotLess == ASSUME NEW n \in Nat PROVE n <= n
  OBVIOUS

NewRunAsk(u) == ForRun(GetFiltered("load", u.asked), Run(u))

LEMMA SearchAsk ==
    ASSUME IInv, page \in SearchPages, NEW u, NewSearch(u)
    PROVE  /\ NewRunAsk(u) \in AskOn(page) /\ NewRunAsk(u).op = "load" /\ NewRunAsk(u).life = Run(u).mounted
           /\ NewRunAsk(u).verb = "list" /\ NewRunAsk(u).query = u.asked
<1>1. u.asked \in Query /\ Run(u).mounted \in Nat
  BY NewSearchFacts
<1>2. \A a : a = NewRunAsk(u) =>
         a \in AskOn(page) /\ a.op = "load" /\ a.life = Run(u).mounted /\ a.verb = "list" /\ a.query = u.asked
  BY <1>1, RunAsk DEF NewRunAsk
<1> QED
  BY <1>2

LEMMA AuditLogKeeps == ASSUME IInv, page = "audit log", AuditLogNext PROVE IInv' /\ Kept
<1>0. /\ page \in SearchPages /\ page \in RunPages /\ view \in TextedView /\ view.number \in {1, 2}
      /\ view.busy \subseteq {"loading", "timer"} /\ HeldAll(page, view, flight)
      /\ view.mounted \in Nat /\ view.asked \in Query
  <2>1. page \in SearchPages
    BY DEF SearchPages
  <2> QED
    BY <2>1, SearchFacts
<1>1. ASSUME NEW u, NewSearch(u), AuditLogRuns(u) PROVE IInv' /\ Kept
  <2> DEFINE x == Run(u)
             w == RunAsks(x)
             a == NewRunAsk(u)
  <2>1. /\ x \in TextedView /\ x.busy = view.busy /\ x.at = view.at /\ x.secrets = view.secrets
        /\ x.number \in {1, 2} /\ x.mounted = view.mounted + 1 /\ x.mounted \in Nat /\ x.asked = u.asked /\ u.asked \in Query
    BY <1>0, <1>1, NewSearchFacts
  <2>2. UserAsks(w, a)
    BY <1>1 DEF AuditLogRuns, NewRunAsk
  <2>4. a \in AskOn(page) /\ a.op = "load" /\ a.life = x.mounted /\ a.verb = "list" /\ a.query = u.asked
    BY <1>0, <1>1, SearchAsk
  <2> HIDE DEF x, a
  <2>3. /\ w \in TextedView /\ w.busy = x.busy \cup {"loading"} /\ w.at = x.at /\ w.secrets = x.secrets
        /\ w.number = x.number /\ w.mounted = x.mounted /\ w.asked = x.asked
    BY <2>1, RunAsksFacts
  <2> HIDE DEF w
  <2>5. /\ w.busy \subseteq {"loading", "timer"} /\ "loading" \in w.busy /\ w.number \in {1, 2} /\ w.at = view.at
        /\ w.secrets = view.secrets /\ w.mounted = a.life /\ w.asked = a.query /\ w.mounted \in Nat
    BY <1>0, <2>1, <2>3, <2>4
  <2>6. w \in ViewOn(page)
    BY <1>0, <2>3, <2>5, SearchView
  <2>7. HeldAll(page, w, flight \cup {a})
    <3>1. a \in flight \cup {a} /\ a.op \in Loads /\ a.life = w.mounted
      BY <2>4, <2>5 DEF Loads
    <3>2. \A q \in flight : q.op # "load" => q \in flight \cup {a}
      OBVIOUS
    <3> QED
      BY <1>0, <2>5, <3>1, <3>2, RunHeld
  <2>8. RunsFit(page, w, flight \cup {a})
    <3>1. a.life <= w.mounted /\ a.verb = "list" /\ (a.life = w.mounted => a.query = w.asked)
      <4>1. w.mounted <= w.mounted
        BY <2>5, NotLess
      <4>2. a.life = w.mounted /\ a.query = w.asked /\ a.verb = "list"
        BY <2>4, <2>5
      <4> QED
        BY <2>5, <4>1, <4>2
    <3>2. \A q \in flight : q.life <= w.mounted /\ q.life # w.mounted /\ q.verb = "list"
      BY <1>0, <2>1, <2>3, Outdated
    <3>3. \A q \in flight \cup {a} : q.life <= w.mounted /\ q.verb = "list" /\ (q.life = w.mounted => q.query = w.asked)
      BY <3>1, <3>2
    <3> QED
      BY <1>0, <3>3, SearchFits
  <2>9. {a} \in SUBSET AskOn(page) /\ IsFiniteSet({a}) /\ UserAsksAll(w, {a})
    BY <2>2, <2>4, FS_Singleton DEF UserAsks
  <2> QED
    BY <2>6, <2>7, <2>8, <2>9, AsksStep
<1>2. CASE AuditLogTaken
  BY <1>0, <1>2, ListOfRunKeeps DEF AuditLogTaken
<1>3. CASE AuditLogFilter
  <2>1. PICK query \in Query : AuditLogRuns([view EXCEPT !.asked = query, !.number = 1])
    BY <1>3 DEF AuditLogFilter
  <2>2. NewSearch([view EXCEPT !.asked = query, !.number = 1])
    BY DEF NewSearch
  <2> QED
    BY <1>1, <2>1, <2>2
<1>4. CASE AuditLogPage
  <2>1. AuditLogRuns([view EXCEPT !.number = 3 - view.number]) /\ NewSearch([view EXCEPT !.number = 3 - view.number])
    BY <1>4 DEF AuditLogPage, NewSearch
  <2> QED
    BY <1>1, <2>1
<1> QED
  BY <1>2, <1>3, <1>4 DEF AuditLogNext

-----------------------------------------------------------------------------
(* The bell. *)

LEMMA BellFacts ==
    page = "bell" =>
        /\ page \notin BusyPages \cup RowPages /\ page \notin BusyPages /\ page \notin RunPages /\ AtHolders(page) = {}
        /\ page \notin {"staff", "blog"} /\ \A v \in TextedView : v \in ViewOn(page)
        /\ \A f : "load" \in Holders(page, f) => f = "loading"
        /\ \A f : "read" \notin Holders(page, f)
        /\ \A f : "all" \in Holders(page, f) => f = "markingAll"
        /\ "all" \in Holders(page, "markingAll")
  BY DEF QuietPages, BusyPages, RowPages, RunPages, DetailPages, SearchPages, AtHolders, ViewOn, FormPages, BlankPages, Holders, Loads

LEMMA BellCalm ==
    ASSUME IInv, page = "bell", NEW w \in TextedView, w.at = view.at, w.mounted = view.mounted, w.secrets = view.secrets,
           w.form = view.form, w.edits = view.edits, NEW S, "timer" \notin S, w.busy = view.busy \ S,
           \/ UserDoes(w)
           \/ \E q \in flight : Takes(q, w) /\ q.op # "reveal" /\ \A f : q.op \in Holders(page, f) => f \in S
    PROVE  IInv' /\ Kept
<1>1. Calmer(w)
  BY DEF Calmer
<1>2. w \in ViewOn(page) /\ page \notin RunPages
  BY BellFacts
<1>3. CASE UserDoes(w)
  BY <1>1, <1>2, <1>3, CalmDoes
<1>4. ASSUME NEW q \in flight, Takes(q, w), q.op # "reveal", \A f : q.op \in Holders(page, f) => f \in S PROVE IInv' /\ Kept
  <2>1. FreeOf(w, q)
    BY <1>4, BellFacts DEF FreeOf
  <2> QED
    BY <1>1, <1>2, <1>4, <2>1, CalmTakes
<1> QED
  BY <1>3, <1>4

LEMMA OpenFacts ==
    ASSUME NEW v \in TextedView, NEW b \in BOOLEAN
    PROVE  LET w == [v EXCEPT !.open = b] IN
           /\ w \in TextedView /\ w.busy = v.busy /\ w.form = v.form /\ w.edits = v.edits /\ w.at = v.at
           /\ w.mounted = v.mounted /\ w.secrets = v.secrets
  BY DEF TextedView

LEMMA CountFacts ==
    ASSUME NEW v \in TextedView, NEW rows \in TextedRows, NEW n \in Nat
    PROVE  LET w == [v EXCEPT !.rows = rows, !.number = n] IN
           /\ w \in TextedView /\ w.busy = v.busy /\ w.form = v.form /\ w.edits = v.edits /\ w.at = v.at
           /\ w.mounted = v.mounted /\ w.secrets = v.secrets
  BY DEF TextedView

LEMMA UnreadCounts == ASSUME NEW rows \in TextedRows PROVE Cardinality(Unread(rows)) \in Nat
<1>1. Unread(rows) \subseteq Row
  BY RowsElim DEF Unread
<1> QED
  BY <1>1, NoneIsNoRow, FS_Subset, FS_CardinalityType

LEMMA OneLessCounts == ASSUME NEW n \in Nat PROVE OneLess(n) \in Nat
  BY DEF OneLess

LEMMA BellKeeps == ASSUME IInv, page = "bell", BellNext PROVE IInv' /\ Kept
<1>0. /\ view \in TextedView /\ view.rows \in TextedRows /\ view.number \in Nat /\ view.open \in BOOLEAN /\ 0 \in Nat
      /\ FALSE \in BOOLEAN /\ "timer" \notin {"loading"} /\ "timer" \notin {"markingAll"} /\ "timer" \notin {}
  BY ReadyFacts DEF TextedView
<1>1. CASE BellButton
  <2> DEFINE b == ~view.open
             w == [view EXCEPT !.open = b]
  <2>1. UserDoes(w)
    BY <1>1 DEF BellButton
  <2>2. b \in BOOLEAN
    OBVIOUS
  <2> HIDE DEF b
  <2>3. /\ w \in TextedView /\ w.busy = view.busy \ {} /\ w.form = view.form /\ w.edits = view.edits /\ w.at = view.at
        /\ w.mounted = view.mounted /\ w.secrets = view.secrets
    BY <1>0, <2>2, OpenFacts
  <2> HIDE DEF w
  <2> QED
    BY <1>0, <2>1, <2>3, BellCalm
<1>2. CASE UserAsks(Busy(view, {"loading"}), GetList("load"))
  BY <1>2, BellFacts, ListClick
<1>3. ASSUME NEW q \in Answers("load"),
             Takes(q, Free([view EXCEPT !.rows = q.got, !.number = Cardinality(Unread(q.got))], {"loading"}))
      PROVE  IInv' /\ Kept
  <2> DEFINE n == Cardinality(Unread(q.got))
             u == [view EXCEPT !.rows = q.got, !.number = n]
             w == Free(u, {"loading"})
  <2>1. q \in flight /\ q.op = "load" /\ q.got \in TextedRows
    BY <1>3, AnswerFacts
  <2>2. n \in Nat
    BY <2>1, UnreadCounts
  <2> HIDE DEF n
  <2>3. /\ u \in TextedView /\ u.busy = view.busy /\ u.form = view.form /\ u.edits = view.edits /\ u.at = view.at
        /\ u.mounted = view.mounted /\ u.secrets = view.secrets
    BY <1>0, <2>1, <2>2, CountFacts, ZenonT(30)
  <2>4. Takes(q, w)
    BY <1>3 DEF n
  <2> HIDE DEF u
  <2>5. {"loading"} \in SUBSET Flag
    BY DEF Flag
  <2>6. /\ w \in TextedView /\ w.busy = view.busy \ {"loading"} /\ w.form = view.form /\ w.edits = view.edits /\ w.at = view.at
        /\ w.mounted = view.mounted /\ w.secrets = view.secrets
    BY <2>3, <2>5, FlagFacts
  <2> HIDE DEF w
  <2>7. q.op # "reveal" /\ \A f : q.op \in Holders(page, f) => f \in {"loading"}
    BY <2>1, BellFacts
  <2> QED
    BY <1>0, <2>1, <2>4, <2>6, <2>7, BellCalm
<1>4. ASSUME NEW r \in DOMAIN view.rows, UserAsks(view, Update("read", Read(r))) PROVE IInv' /\ Kept
  BY <1>4, RowsOfView, ReadFits, BellFacts, QuietClick
<1>5. CASE UserDoes([view EXCEPT !.open = FALSE])
  <2> DEFINE w == [view EXCEPT !.open = FALSE]
  <2>3. /\ w \in TextedView /\ w.busy = view.busy \ {} /\ w.form = view.form /\ w.edits = view.edits /\ w.at = view.at
        /\ w.mounted = view.mounted /\ w.secrets = view.secrets
    BY <1>0, OpenFacts
  <2> HIDE DEF w
  <2> QED
    BY <1>0, <1>5, <2>3, BellCalm DEF w
<1>6. ASSUME NEW q \in Good("read"),
             Takes(q, [view EXCEPT !.rows = Put(q.row, "typed"), !.open = FALSE, !.number = OneLess(view.number)])
      PROVE  IInv' /\ Kept
  <2> DEFINE n == OneLess(view.number)
             rows == Put(q.row, "typed")
             b == FALSE
             w == [view EXCEPT !.rows = rows, !.open = b, !.number = n]
  <2>1. q \in flight /\ q.op = "read"
    BY <1>6, AnswerFacts, GoodBad
  <2>2. n \in Nat /\ rows \in TextedRows /\ b \in BOOLEAN
    BY <1>0, OneLessCounts, PutTexted DEF Text, TextsFor
  <2>3. Takes(q, w)
    BY <1>6
  <2> HIDE DEF n, rows, b
  <2>4. /\ w \in TextedView /\ w.busy = view.busy \ {} /\ w.form = view.form /\ w.edits = view.edits /\ w.at = view.at
        /\ w.mounted = view.mounted /\ w.secrets = view.secrets
    BY <1>0, <2>2 DEF TextedView
  <2> HIDE DEF w
  <2>5. q.op # "reveal" /\ \A f : q.op \in Holders(page, f) => f \in {}
    BY <2>1, BellFacts
  <2> QED
    BY <1>0, <2>1, <2>3, <2>4, <2>5, BellCalm
<1>7. ASSUME NEW q \in Bad("read"), Fails(q, view) PROVE IInv' /\ Kept
  <2>1. q \in flight /\ q.op = "read"
    BY <1>7, AnswerFacts, GoodBad
  <2>2. q.op \notin AtHolders(page) /\ q.op # "reveal" /\ \A f : q.op \notin Holders(page, f)
    BY <2>1, BellFacts
  <2> QED
    BY <1>7, <2>1, <2>2, BellFacts, QuietAnswer
<1>8. CASE UserAsks(Busy(view, {"markingAll"}), UpdateAll("all", "typed"))
  <2>1. UpdateAll("all", "typed") \in AskOn(page) /\ UpdateAll("all", "typed").op = "all"
    BY ReadyFacts, UpdateAllFits DEF OpName, Reads
  <2>2. UpdateAll("all", "typed").op \in Holders(page, "markingAll") /\ "markingAll" \in Flag
    BY <2>1, BellFacts DEF Flag
  <2> QED
    BY <1>8, <2>1, <2>2, BellFacts, FlagClick
<1>9. ASSUME NEW q \in Good("all"), Takes(q, Free([view EXCEPT !.rows = AllRead(view.rows), !.number = 0], {"markingAll"}))
      PROVE  IInv' /\ Kept
  <2> DEFINE rows == AllRead(view.rows)
             n == 0
             u == [view EXCEPT !.rows = rows, !.number = n]
             w == Free(u, {"markingAll"})
  <2>1. q \in flight /\ q.op = "all"
    BY <1>9, AnswerFacts, GoodBad
  <2>2. rows \in TextedRows /\ n \in Nat
    BY <1>0, AllReadTexted
  <2>3. Takes(q, w)
    BY <1>9
  <2> HIDE DEF rows, n
  <2>4. /\ u \in TextedView /\ u.busy = view.busy /\ u.form = view.form /\ u.edits = view.edits /\ u.at = view.at
        /\ u.mounted = view.mounted /\ u.secrets = view.secrets
    BY <1>0, <2>2, CountFacts, ZenonT(30)
  <2> HIDE DEF u
  <2>5. {"markingAll"} \in SUBSET Flag
    BY DEF Flag
  <2>6. /\ w \in TextedView /\ w.busy = view.busy \ {"markingAll"} /\ w.form = view.form /\ w.edits = view.edits
        /\ w.at = view.at /\ w.mounted = view.mounted /\ w.secrets = view.secrets
    BY <2>4, <2>5, FlagFacts
  <2> HIDE DEF w
  <2>7. q.op # "reveal" /\ \A f : q.op \in Holders(page, f) => f \in {"markingAll"}
    BY <2>1, BellFacts
  <2> QED
    BY <1>0, <2>1, <2>3, <2>6, <2>7, BellCalm
<1>10. ASSUME NEW q \in Bad("all"), Fails(q, Free(view, {"markingAll"})) PROVE IInv' /\ Kept
  <2>1. q \in flight /\ q.op = "all"
    BY <1>10, AnswerFacts, GoodBad
  <2>3. {"markingAll"} \in SUBSET (Flag \ {"timer"})
    BY DEF Flag
  <2>4. (\A f : q.op \in Holders(page, f) => f \in {"markingAll"}) /\ q.op \notin AtHolders(page) \cup {"reveal"}
    BY <2>1, BellFacts
  <2> QED
    BY <1>10, <2>1, <2>3, <2>4, BellFacts, FlagAnswer
<1> QED
  BY <1>1, <1>2, <1>3, <1>4, <1>5, <1>6, <1>7, <1>8, <1>9, <1>10
     DEF BellNext, BellLoad, BellClick, BellMarkAll, BellDropdown

-----------------------------------------------------------------------------
(* One accountant. *)

LEMMA AccountantFacts ==
    page = "accountant" =>
        /\ page \notin SpecialPages /\ page \notin BusyPages /\ page \notin RunPages \cup {"request", "staff", "blog"}
        /\ page \notin RowPages \cup {"request"} /\ AtHolders(page) = {} /\ page \notin {"staff", "blog"}
        /\ \A f : "load" \in Holders(page, f) => f = "loading"
        /\ \A f : "updated" \in Holders(page, f) => f \in {"loading", "status"}
        /\ \A f : "status" \in Holders(page, f) => f = "status"
        /\ "status" \in Holders(page, "status") /\ "updated" \in Holders(page, "status")
        /\ {"load", "updated"} \subseteq Loads
<1>1. SUFFICES ASSUME page = "accountant"
      PROVE  /\ page \notin BusyPages \cup RowPages /\ page \notin BusyPages
             /\ page \notin RunPages \cup {"request", "staff", "blog"}
             /\ page \notin RowPages \cup {"request"} /\ AtHolders(page) = {} /\ page \notin {"staff", "blog"}
             /\ \A f : "load" \in Holders(page, f) => f = "loading"
             /\ \A f : "updated" \in Holders(page, f) => f \in {"loading", "status"}
             /\ \A f : "status" \in Holders(page, f) => f = "status"
             /\ "status" \in Holders(page, "status") /\ "updated" \in Holders(page, "status")
             /\ {"load", "updated"} \subseteq Loads
  BY WorkPagesArePlain
<1> QED
  BY <1>1, WorkPagesArePlain DEF RowPages, AtHolders, Holders, Loads

LEMMA AccountantTakenFacts ==
    ASSUME IInv, NEW q, q.got \in TextedRows
    PROVE  /\ AccountantTaken(q, view) \in TextedView /\ Alike(AccountantTaken(q, view), view)
           /\ AccountantTaken(q, view).busy = view.busy \ {"loading"}
<1> DEFINE u == IF q.state = "ok" THEN [view EXCEPT !.rows = q.got] ELSE view
<1>1. u \in TextedView /\ Alike(u, view) /\ u.busy = view.busy
  <2>1. view \in TextedView /\ Alike(view, view)
    BY ReadyFacts, AlikeShows
  <2>2. CASE q.state = "ok"
    BY <2>1, <2>2, AlikeShows DEF Else
  <2>3. CASE q.state # "ok"
    BY <2>1, <2>3
  <2> QED
    BY <2>2, <2>3
<1>2. AccountantTaken(q, view) = Free(u, {"loading"}) /\ {"loading"} \in SUBSET Flag
  BY DEF AccountantTaken, Flag
<1> HIDE DEF u
<1> QED
  BY <1>1, <1>2, AlikeFree

LEMMA AccountantKeeps == ASSUME IInv, page = "accountant", AccountantNext PROVE IInv' /\ Kept
<1>0. /\ FirstRow \in Row /\ NoRowLoad("load") /\ NoRowLoad("updated") /\ "load" \in OpName /\ "updated" \in OpName
      /\ "status" \in OpName \ Reads /\ "status" \in Flag /\ Ready
  BY NoneIsNoRow, AccountantFacts, ReadyFacts DEF NoRowLoad, OpName, Reads, Flag
<1>1. CASE UserAsks(Busy(view, {"loading"}), GetRow("load", FirstRow))
  <2>1. GetRow("load", FirstRow) \in AskOn(page) /\ GetRow("load", FirstRow).op = "load"
    BY <1>0, GetRowFits
  <2> QED
    BY <1>1, <2>1, AccountantFacts, LoadClick
<1>2. ASSUME NEW q \in Answers("load"), Takes(q, AccountantTaken(q, view)) PROVE IInv' /\ Kept
  <2> DEFINE w == AccountantTaken(q, view)
  <2>1. q \in flight /\ q.op = "load" /\ q.got \in TextedRows
    BY <1>2, AnswerFacts
  <2>2. w \in TextedView /\ Alike(w, view) /\ w.busy = view.busy \ {"loading"}
    BY <2>1, AccountantTakenFacts
  <2> HIDE DEF w
  <2>3. w \in ViewOn(page)
    BY <2>2, AccountantFacts, PlainView DEF Alike
  <2>4. (\A f : q.op \in Holders(page, f) => f \in {"loading"}) /\ q.op \notin AtHolders(page) \cup {"reveal"}
    BY <2>1, AccountantFacts
  <2> QED
    BY <1>2, <2>1, <2>2, <2>3, <2>4, AccountantFacts, AlikeAnswer DEF w
<1>3. CASE UserAsks(Busy(view, {"status"}), Patch("status", FirstRow))
  <2>1. Patch("status", FirstRow) \in AskOn(page) /\ Patch("status", FirstRow).op = "status"
    BY <1>0, PatchFits
  <2>2. Patch("status", FirstRow).op \in Holders(page, "status")
    BY <2>1, AccountantFacts
  <2> QED
    BY <1>0, <1>3, <2>1, <2>2, AccountantFacts, FlagClick
<1>4. ASSUME NEW q \in Good("status"), TakesThenAsks(q, Busy(view, {"loading"}), GetRow("updated", FirstRow)) PROVE IInv' /\ Kept
  <2>1. q \in flight /\ q.op = "status" /\ q.state = "ok"
    BY <1>4, AnswerFacts, GoodBad
  <2>2. GetRow("updated", FirstRow) \in AskOn(page) /\ GetRow("updated", FirstRow).op = "updated"
    BY <1>0, GetRowFits
  <2>3. /\ \A g : q.op \in Holders(page, g) => GetRow("updated", FirstRow).op \in Holders(page, g)
        /\ q.op \in AtHolders(page) => GetRow("updated", FirstRow).op \in AtHolders(page)
        /\ GetRow("updated", FirstRow).op \in Loads
    BY <2>1, <2>2, AccountantFacts
  <2> QED
    BY <1>4, <2>1, <2>2, <2>3, AccountantFacts, ReloadAnswer
<1>5. ASSUME NEW q \in Answers("updated"), Takes(q, Free(AccountantTaken(q, view), {"status"})) PROVE IInv' /\ Kept
  <2> DEFINE u == AccountantTaken(q, view)
             w == Free(u, {"status"})
             S == {"loading", "status"}
  <2>1. q \in flight /\ q.op = "updated" /\ q.got \in TextedRows
    BY <1>5, AnswerFacts
  <2>2. u \in TextedView /\ Alike(u, view) /\ u.busy = view.busy \ {"loading"} /\ {"status"} \in SUBSET Flag
    BY <2>1, AccountantTakenFacts DEF Flag
  <2>3. Takes(q, w)
    BY <1>5
  <2> HIDE DEF u
  <2>4. w \in TextedView /\ Alike(w, view) /\ w.busy = u.busy \ {"status"}
    BY <2>2, AlikeFree
  <2> HIDE DEF w
  <2>5. w \in ViewOn(page)
    BY <2>4, AccountantFacts, PlainView DEF Alike
  <2>6. w.busy = view.busy \ S /\ "timer" \notin S
    BY <2>2, <2>4
  <2>7. (\A f : q.op \in Holders(page, f) => f \in S) /\ q.op \notin AtHolders(page) \cup {"reveal"}
    BY <2>1, AccountantFacts
  <2> HIDE DEF S
  <2> QED
    BY <2>1, <2>3, <2>4, <2>5, <2>6, <2>7, AccountantFacts, AlikeAnswer
<1>6. ASSUME NEW q \in Bad("status"), Fails(q, Free(view, {"status"})) PROVE IInv' /\ Kept
  <2>1. q \in flight /\ q.op = "status"
    BY <1>6, AnswerFacts, GoodBad
  <2>3. {"status"} \in SUBSET (Flag \ {"timer"})
    BY DEF Flag
  <2>4. (\A f : q.op \in Holders(page, f) => f \in {"status"}) /\ q.op \notin AtHolders(page) \cup {"reveal"}
    BY <2>1, AccountantFacts
  <2> QED
    BY <1>6, <2>1, <2>3, <2>4, AccountantFacts, FlagAnswer
<1> QED
  BY <1>1, <1>2, <1>3, <1>4, <1>5, <1>6 DEF AccountantNext, AccountantLoad, AccountantStatus

-----------------------------------------------------------------------------
(* Forms that are a page of their own. *)

SendPages == {"accountant form", "blog create", "blog edit", "profile", "request service", "book consultation", "contact",
              "register", "link request"}
SendForm(f) == /\ page \in FormPages => f # NONE
               /\ page \in BlankPages => f = NONE \/ f.row = NONE
               /\ page = "profile" => f.row = FirstRow

LEMMA SendFacts ==
    ASSUME page \in SendPages
    PROVE  /\ page \notin RunPages \cup {"request", "staff", "blog"} /\ page \notin RunPages \cup {"consultation"}
           /\ page \notin RunPages /\ AtHolders(page) = {}
           /\ \A f : "save" \in Holders(page, f) => f = "saving"
           /\ "save" \in Holders(page, "saving")
           /\ \A v : v \in ViewOn(page) <=> /\ v \in TextedView /\ SendForm(v.form) /\ v.number \in {1, 2}
                                            /\ page \in QuietPages => "loading" \notin v.busy
<1>1. /\ page \notin RunPages \cup {"request", "staff", "blog"} /\ page \notin RunPages \cup {"consultation"}
      /\ page \notin RunPages /\ AtHolders(page) = {}
  BY DEF SendPages, RunPages, DetailPages, SearchPages, AtHolders
<1>2. /\ \A f : "save" \in Holders(page, f) => f = "saving"
      /\ "save" \in Holders(page, "saving")
  BY DEF SendPages, Holders, Loads
<1>3. /\ page \notin {"consultation", "bell", "admin dashboard", "request", "content"} /\ page \notin DetailPages
      /\ page \notin SearchPages
  BY DEF SendPages, DetailPages, SearchPages
<1>4. \A v : v \in ViewOn(page) <=> /\ v \in TextedView /\ SendForm(v.form) /\ v.number \in {1, 2}
                                    /\ page \in QuietPages => "loading" \notin v.busy
  BY <1>1, <1>3 DEF ViewOn, SendForm
<1> QED
  BY <1>1, <1>2, <1>4

LEMMA SendsNow ==
    ASSUME IInv, page \in SendPages
    PROVE  /\ view \in TextedView /\ SendForm(view.form) /\ view.number \in {1, 2} /\ Ready
           /\ page \in QuietPages => "loading" \notin view.busy
  BY ReadyFacts, SendFacts

LEMMA SendClick ==
    ASSUME IInv, page \in SendPages, NEW a \in AskOn(page), a.op = "save", UserAsks(Busy(view, {"saving"}), a)
    PROVE  IInv' /\ Kept
<1> DEFINE w == Busy(view, {"saving"})
<1>1. /\ w \in TextedView /\ w.busy = view.busy \cup {"saving"} /\ Alike(w, view) /\ w.form = view.form
      /\ w.number = view.number
  BY SendsNow, FlagFacts DEF Flag, Alike
<1>2. UserAsksAll(w, {a})
  BY DEF UserAsks
<1> HIDE DEF w
<1>3. w \in ViewOn(page)
  BY <1>1, SendsNow, SendFacts
<1>4. {a} \in SUBSET AskOn(page) /\ IsFiniteSet({a})
  BY FS_Singleton
<1>5. \A f \in {"saving"} : f \in {"timer", "leaving"} \/ \E n \in {a} : n.op \in Holders(page, f)
  BY SendFacts
<1> QED
  BY <1>1, <1>2, <1>3, <1>4, <1>5, SendFacts, AlikeAsksAll

LEMMA SendTaken ==
    ASSUME IInv, page \in SendPages, NEW q \in Good("save"), NEW sent \in TextedView, sent.at = view.at,
           sent.mounted = view.mounted, sent.secrets = view.secrets, sent.number = view.number, SendForm(sent.form),
           NEW T, T \subseteq {"leaving"}, sent.busy = view.busy \cup T, Takes(q, Free(sent, {"saving"}))
    PROVE  IInv' /\ Kept
<1> DEFINE w == Free(sent, {"saving"})
<1>1. q \in flight /\ q.op = "save" /\ q.state = "ok"
  BY AnswerFacts, GoodBad
<1>2. /\ w \in TextedView /\ w.busy = sent.busy \ {"saving"} /\ w.form = sent.form /\ w.at = sent.at
      /\ w.mounted = sent.mounted /\ w.number = sent.number /\ w.secrets = sent.secrets
  BY FlagFacts DEF Flag
<1> HIDE DEF w
<1>3. w.busy = (view.busy \ {"saving"}) \cup T
  BY <1>2
<1>4. w \in ViewOn(page)
  BY <1>2, <1>3, SendsNow, SendFacts
<1>5. Passes(w, {"saving"}, T, {q}, {})
  BY <1>1, <1>2, <1>3, SendFacts DEF Passes
<1>6. StillHeld(w, {q}, {})
  BY <1>5, SendFacts, AlikeHeld
<1> QED
  BY <1>1, <1>4, <1>6, SendFacts, TakesKeeps DEF w

LEMMA SendFails ==
    ASSUME IInv, page \in SendPages, NEW q \in Bad("save"), Fails(q, Free(view, {"saving"}))
    PROVE  IInv' /\ Kept
<1> DEFINE w == Free(view, {"saving"})
<1>1. q \in flight /\ q.op = "save"
  BY AnswerFacts, GoodBad
<1>2. w \in TextedView /\ w.busy = view.busy \ {"saving"} /\ Alike(w, view) /\ w.form = view.form /\ w.number = view.number
  BY SendsNow, FlagFacts DEF Flag, Alike
<1> HIDE DEF w
<1>3. w \in ViewOn(page)
  BY <1>2, SendsNow, SendFacts
<1>4. (\A f : q.op \in Holders(page, f) => f \in {"saving"}) /\ q.op \notin AtHolders(page) \cup {"reveal"}
  BY <1>1, SendFacts
<1> QED
  BY <1>1, <1>2, <1>3, <1>4, SendFacts, AlikeAnswer DEF w

LEMMA FormSendsKeeps ==
    ASSUME IInv, page \in SendPages, NEW a, FormReady => a \in AskOn(page) /\ a.op = "save",
           NEW sent \in TextedView, sent.at = view.at,
           sent.mounted = view.mounted, sent.secrets = view.secrets, sent.number = view.number, SendForm(sent.form),
           NEW T, T \subseteq {"leaving"}, sent.busy = view.busy \cup T, FormSends(a, sent)
    PROVE  IInv' /\ Kept
<1>1. CASE FormReady /\ UserAsks(Busy(view, {"saving"}), a)
  BY <1>1, SendClick
<1>2. ASSUME NEW q \in Good("save"), Takes(q, Free(sent, {"saving"})) PROVE IInv' /\ Kept
  BY <1>2, SendTaken
<1>3. ASSUME NEW q \in Bad("save"), Fails(q, Free(view, {"saving"})) PROVE IInv' /\ Kept
  BY <1>3, SendFails
<1> QED
  BY <1>1, <1>2, <1>3 DEF FormSends

LEMMA FormTypingKeeps == ASSUME IInv, page \in SendPages, FormTyping PROVE IInv' /\ Kept
  BY SendFacts, TypingKeeps DEF FormTyping

LEMMA NothingShownFacts ==
    /\ NothingShown \in TextedView /\ NothingShown.busy = {} /\ NothingShown.form = NONE /\ NothingShown.at = NONE
    /\ NothingShown.number = 1 /\ DOMAIN NothingShown.secrets = {} /\ NothingShown.mounted = 0 /\ NothingShown.rows = Nothing
    /\ NothingShown.section = NONE
<1>1. Nothing \in TextedRows /\ Nothing \in TextedSecrets /\ DOMAIN Nothing = {}
  BY NothingTexted, NoSecrets
<1>2. "all" \in Query /\ 0 \in Nat /\ 1 \in Nat
  BY DEF Query
<1> QED
  BY <1>1, <1>2 DEF NothingShown, TextedView

\* Where nothing is awaited nothing has to be held.
LEMMA CalmIsHeld ==
    ASSUME NEW p, NEW w, w.busy \subseteq {"timer", "leaving"}, w.at = NONE, DOMAIN w.secrets = {}, NEW fl
    PROVE  HeldAll(p, w, fl)
  BY DEF HeldAll

LEMMA LeavesKeeps == ASSUME IInv, page \in SendPages, page \notin FormPages, Leaves PROVE IInv' /\ Kept
<1>1. NothingShown \in ViewOn(page)
  <2>1. SendForm(NONE)
    BY DEF SendForm, FormPages
  <2>2. NothingShown \in TextedView /\ NothingShown.busy = {} /\ NothingShown.form = NONE /\ NothingShown.number = 1
    BY NothingShownFacts
  <2> HIDE DEF NothingShown
  <2> QED
    BY <2>1, <2>2, SendFacts
<1>2. HeldAll(page, NothingShown, flight) /\ RunsFit(page, NothingShown, flight)
  BY NothingShownFacts, CalmIsHeld, SendFacts, RunsFree
<1> QED
  BY <1>1, <1>2, DoesStep DEF Leaves

\* What is left on the page while it waits for the next one.
LEMMA LeavingFacts ==
    ASSUME IInv, page \in SendPages
    PROVE  /\ Leaving \in TextedView /\ Leaving.at = view.at /\ Leaving.mounted = view.mounted
           /\ Leaving.secrets = view.secrets /\ Leaving.number = view.number /\ Leaving.form = view.form
           /\ Leaving.busy = view.busy \cup {"leaving"}
  BY SendsNow, FlagFacts DEF Leaving, Flag

LEMMA LeavingKeeps ==
    ASSUME IInv, page \in SendPages, NEW a, FormReady => a \in AskOn(page) /\ a.op = "save", FormSends(a, Leaving)
    PROVE  IInv' /\ Kept
<1>1. SendForm(Leaving.form) /\ {"leaving"} \subseteq {"leaving"}
  BY LeavingFacts, SendsNow
<1> HIDE DEF Leaving
<1> QED
  BY <1>1, LeavingFacts, FormSendsKeeps

LEMMA AccountantFormKeeps == ASSUME IInv, page = "accountant form", AccountantFormNext PROVE IInv' /\ Kept
<1>1. page \in SendPages /\ page \notin FormPages /\ page \in BlankPages /\ page \in CreatePages /\ "save" \in OpName \ Reads
  BY DEF SendPages, FormPages, BlankPages, CreatePages, OpName, Reads
<1>2. CASE AccountantFormSubmit
  <2>1. ASSUME FormReady PROVE CreateOnce("save", view.form) \in AskOn(page) /\ CreateOnce("save", view.form).op = "save"
    <3>1. view.form \in TextedForm /\ view.form.row = NONE
      BY <1>1, <2>1, SendsNow DEF FormReady, SendForm, TextedView
    <3> QED
      BY <1>1, <3>1, SendsNow, CreateFits
  <2> QED
    BY <1>1, <1>2, <2>1, LeavingKeeps DEF AccountantFormSubmit
<1> QED
  BY <1>1, <1>2, FormTypingKeeps, LeavesKeeps DEF AccountantFormNext

LEMMA LinkRequestKeeps == ASSUME IInv, page = "link request", LinkRequestNext PROVE IInv' /\ Kept
<1>1. page \in SendPages /\ page \notin FormPages /\ "save" \in OpName \ Reads
  BY DEF SendPages, FormPages, OpName, Reads
<1>2. CASE LinkRequestSubmit
  <2>1. Patch("save", FirstRow) \in AskOn(page) /\ Patch("save", FirstRow).op = "save"
    BY <1>1, SendsNow, NoneIsNoRow, PatchFits
  <2> QED
    BY <1>1, <1>2, <2>1, LeavingKeeps DEF LinkRequestSubmit
<1> QED
  BY <1>1, <1>2, FormTypingKeeps, LeavesKeeps DEF LinkRequestNext

LEMMA RegisterKeeps == ASSUME IInv, page = "register", RegisterNext PROVE IInv' /\ Kept
<1>1. page \in SendPages /\ page \notin FormPages /\ page \in BlankPages /\ page \in CreatePages /\ "save" \in OpName \ Reads
      /\ page # "profile"
  BY DEF SendPages, FormPages, BlankPages, CreatePages, OpName, Reads
<1>2. CASE RegisterSubmit
  <2> DEFINE sent == [Leaving EXCEPT !.form = Blank]
  <2>1. ASSUME FormReady PROVE CreateOnce("save", view.form) \in AskOn(page) /\ CreateOnce("save", view.form).op = "save"
    <3>1. view.form \in TextedForm /\ view.form.row = NONE
      BY <1>1, <2>1, SendsNow DEF FormReady, SendForm, TextedView
    <3> QED
      BY <1>1, <3>1, SendsNow, CreateFits
  <2>2. Blank \in TextedForm /\ Blank.row = NONE /\ Blank # NONE
    BY ReadyFacts, FormsTexted, FormIsSome
  <2>3. FormSends(CreateOnce("save", view.form), sent)
    BY <1>2 DEF RegisterSubmit
  <2> HIDE DEF Blank, Leaving
  <2>4. /\ sent \in TextedView /\ sent.form = Blank /\ sent.at = view.at /\ sent.mounted = view.mounted
        /\ sent.secrets = view.secrets /\ sent.number = view.number /\ sent.busy = view.busy \cup {"leaving"}
    BY <1>1, <2>2, LeavingFacts, FormFacts
  <2>5. SendForm(sent.form) /\ {"leaving"} \subseteq {"leaving"}
    BY <1>1, <2>2, <2>4 DEF SendForm
  <2> HIDE DEF sent
  <2> QED
    BY <1>1, <2>1, <2>3, <2>4, <2>5, FormSendsKeeps
<1> QED
  BY <1>1, <1>2, FormTypingKeeps, LeavesKeeps DEF RegisterNext

\* What has been loaded for the form.
LEMMA FormLoadFacts ==
    ASSUME IInv, page \in RowPages, NEW q \in Answers("load")
    PROVE  /\ q \in flight /\ q.op = "load" /\ q.verb \notin Writes /\ q.got \in TextedRows
           /\ q.state # "ok" => q.got = Nothing
           /\ q.state = "ok" => /\ DOMAIN q.got = {FirstRow} /\ FormOf(FirstRow, q.got[FirstRow]) \in TextedForm
                                /\ FormOf(FirstRow, q.got[FirstRow]).row = FirstRow
<1>1. /\ q \in flight /\ q.op = "load" /\ q \in TextedAsk /\ q.got \in TextedRows /\ q \in AskOn(page)
      /\ q.state # "ok" => q.got = Nothing
  BY AnswerFacts, ReadyFacts
<1>2. q.verb = "get" /\ q.row = FirstRow
  BY <1>1 DEF AskOn, RowLoads
<1>3. q.state = "ok" => DOMAIN q.got = {FirstRow}
  BY <1>1, <1>2 DEF TextedAsk, AskRules
<1>4. ASSUME q.state = "ok"
      PROVE  FormOf(FirstRow, q.got[FirstRow]) \in TextedForm /\ FormOf(FirstRow, q.got[FirstRow]).row = FirstRow
  <2>1. q.got[FirstRow] \in Text /\ q.got[FirstRow] \in TextsFor(FirstRow)
    BY <1>1, <1>3, <1>4, RowsElim
  <2> QED
    BY <2>1, ReadyFacts, NoneIsNoRow, FormsTexted
<1> QED
  BY <1>1, <1>2, <1>3, <1>4 DEF Writes, Creates

LEMMA FormLoadKeeps ==
    ASSUME IInv, page \in SendPages, page \in RowPages, NEW q \in Answers("load"), NEW f \in TextedForm \cup {NONE}, SendForm(f),
           Takes(q, Free([view EXCEPT !.form = f], {"loading"}))
    PROVE  IInv' /\ Kept
<1> DEFINE u == [view EXCEPT !.form = f]
           w == Free(u, {"loading"})
<1>1. q \in flight /\ q.op = "load" /\ q.verb \notin Writes
  BY FormLoadFacts
<1>2. /\ u \in TextedView /\ u.busy = view.busy /\ u.form = f /\ u.at = view.at /\ u.mounted = view.mounted
      /\ u.number = view.number /\ u.secrets = view.secrets
  BY SendsNow, FormFacts
<1>3. Takes(q, w)
  OBVIOUS
<1> HIDE DEF u
<1>4. /\ w \in TextedView /\ w.busy = u.busy \ {"loading"} /\ w.form = f /\ w.at = u.at /\ w.mounted = u.mounted
      /\ w.number = u.number /\ w.secrets = u.secrets
  BY <1>2, FlagFacts DEF Flag
<1> HIDE DEF w
<1>5. w \in ViewOn(page)
  BY <1>2, <1>4, SendsNow, SendFacts
<1>6. w.busy = (view.busy \ {"loading"}) \cup {} /\ w.at = view.at /\ w.mounted = view.mounted /\ w.secrets = view.secrets
  BY <1>2, <1>4
<1>7. \A g : "load" \in Holders(page, g) => g = "loading"
  BY DEF SendPages, Holders
<1>8. Passes(w, {"loading"}, {}, {q}, {})
  BY <1>1, <1>6, <1>7, SendFacts DEF Passes
<1>9. StillHeld(w, {q}, {})
  BY <1>8, SendFacts, AlikeHeld
<1> QED
  BY <1>1, <1>3, <1>5, <1>9, SendFacts, TakesKeeps

LEMMA BlogPostKeeps == ASSUME IInv, page \in {"blog create", "blog edit"}, BlogPostNext PROVE IInv' /\ Kept
<1>1. /\ page \in SendPages /\ page \notin FormPages /\ page \notin BlankPages /\ page \in CreatePages /\ page \in RowPages
      /\ "save" \in OpName \ Reads /\ page # "profile"
  BY DEF SendPages, FormPages, BlankPages, CreatePages, OpName, Reads, RowPages
<1>2. CASE BlogPostSubmit
  <2> DEFINE a == IF view.form.row = NONE THEN CreateOnce("save", view.form) ELSE Update("save", view.form)
  <2>1. ASSUME FormReady PROVE a \in AskOn(page) /\ a.op = "save"
    <3>1. view.form \in TextedForm
      BY <1>1, <2>1, SendsNow DEF FormReady, TextedView
    <3> QED
      BY <1>1, <3>1, SendsNow, CreateFits, UpdateFits
  <2>2. FormSends(a, Leaving)
    BY <1>2 DEF BlogPostSubmit
  <2> HIDE DEF a
  <2> QED
    BY <1>1, <2>1, <2>2, LeavingKeeps
<1>3. CASE BlogEditLoad
  <2>1. PICK q \in Answers("load") :
          Takes(q, Free([view EXCEPT !.form = IF q.got = Nothing THEN NONE ELSE FormOf(FirstRow, q.got[FirstRow])], {"loading"}))
    BY <1>3 DEF BlogEditLoad
  <2> DEFINE f == IF q.got = Nothing THEN NONE ELSE FormOf(FirstRow, q.got[FirstRow])
  <2>2. f \in TextedForm \cup {NONE}
    BY <1>1, FormLoadFacts
  <2>3. SendForm(f)
    BY <1>1 DEF SendForm
  <2>4. Takes(q, Free([view EXCEPT !.form = f], {"loading"}))
    BY <2>1
  <2> HIDE DEF f
  <2> QED
    BY <1>1, <2>2, <2>3, <2>4, FormLoadKeeps
<1> QED
  BY <1>1, <1>2, <1>3, FormTypingKeeps, LeavesKeeps DEF BlogPostNext

\* What is asked to write the profile carries a text of the profile.
LEMMA ProfileTexts ==
    ASSUME IInv, page = "profile", NEW q \in flight
    PROVE  q.text \in Text /\ q.text \in TextsFor(FirstRow)
<1>1. q \in AskOn(page) /\ q \in TextedAsk /\ q.text \in Text /\ q.row \in Row \cup {NONE} /\ AskRules(q)
  BY ReadyFacts DEF TextedAsk, AskFields
<1>2. CASE q.verb \notin TextVerbs
  BY <1>1, <1>2 DEF AskRules, TextsFor
<1>3. CASE q.verb = "update"
  BY <1>1, <1>3 DEF AskOn, AskRules
<1>4. CASE q.verb = "updateAll"
  BY <1>1, <1>4, FreeText DEF AskRules
<1>5. CASE q.verb \in Creates
  BY <1>1, <1>5 DEF AskOn, CreatePages
<1> QED
  BY <1>1, <1>2, <1>3, <1>4, <1>5 DEF TextVerbs, Creates

LEMMA ProfileFacts ==
    ASSUME IInv, page = "profile"
    PROVE  /\ page \in SendPages /\ page \in RowPages /\ view.form \in TextedForm /\ view.form.row = FirstRow /\ view.form # NONE
           /\ page \notin BusyPages /\ page \notin QuietPages
           /\ \A f \in TextedForm : f.row = FirstRow => SendForm(f)
           /\ \A f : "password" \in Holders(page, f) => f = "password"
           /\ "password" \in Holders(page, "password")
<1>1. page \in SendPages /\ page \in RowPages /\ page \notin BusyPages /\ page \notin QuietPages /\ page \in FormPages
      /\ page \notin BlankPages
  BY DEF SendPages, RowPages, BusyPages, QuietPages, RunPages, DetailPages, SearchPages, FormPages, BlankPages
<1>2. view.form \in TextedForm /\ view.form.row = FirstRow /\ view.form # NONE
  BY <1>1, SendsNow DEF SendForm, TextedView
<1>3. \A f \in TextedForm : f.row = FirstRow => SendForm(f)
  BY <1>1, FormIsSome DEF SendForm
<1>4. /\ \A f : "password" \in Holders(page, f) => f = "password"
      /\ "password" \in Holders(page, "password")
  BY DEF Holders, Loads
<1> QED
  BY <1>1, <1>2, <1>3, <1>4

LEMMA EditsFacts ==
    ASSUME NEW v \in TextedView, NEW rows \in TextedRows
    PROVE  LET w == [v EXCEPT !.edits = rows] IN
           /\ w \in TextedView /\ w.busy = v.busy /\ w.form = v.form /\ w.at = v.at /\ w.mounted = v.mounted
           /\ w.number = v.number /\ w.secrets = v.secrets
  BY DEF TextedView

LEMMA InitialTexted ==
    ASSUME NEW text \in {"", FirstRow}
    PROVE  ProfileInitial(text) \in TextedForm /\ ProfileInitial(text).row = FirstRow
  BY NoneIsNoRow DEF ProfileInitial, TextedForm, Form, Text, TextsFor

LEMMA ProfileSaveKeeps == ASSUME IInv, page = "profile", ProfileSave PROVE IInv' /\ Kept
<1>0. "save" \in OpName \ Reads
  BY DEF OpName, Reads
<1>1. CASE UserAsks(Busy(view, {"saving"}), Update("save", view.form))
  <2>1. Update("save", view.form) \in AskOn(page) /\ Update("save", view.form).op = "save"
    BY <1>0, ProfileFacts, SendsNow, UpdateFits
  <2> QED
    BY <1>1, <2>1, ProfileFacts, SendClick
<1>2. ASSUME NEW q \in Good("save"), Takes(q, Free([view EXCEPT !.form.text = q.text], {"saving"})) PROVE IInv' /\ Kept
  <2> DEFINE f == [view.form EXCEPT !.text = q.text]
             sent == [view EXCEPT !.form = f]
             T == {}
  <2>1. q \in flight
    BY <1>2, AnswerFacts, GoodBad
  <2>2. f \in TextedForm /\ f.row = FirstRow
    <3>1. view.form \in TextedForm /\ view.form.row = FirstRow /\ q.text \in Text /\ q.text \in TextsFor(FirstRow)
      BY <2>1, ProfileFacts, ProfileTexts
    <3> QED
      BY <3>1 DEF TextedForm, Form
  <2>3. Takes(q, Free(sent, {"saving"}))
    BY <1>2, SendsNow, ProfileFacts DEF TextedView
  <2> HIDE DEF f
  <2>4. /\ sent \in TextedView /\ sent.form = f /\ sent.at = view.at /\ sent.mounted = view.mounted
        /\ sent.secrets = view.secrets /\ sent.number = view.number /\ sent.busy = view.busy \cup T
    BY <2>2, ReadyFacts, FormFacts
  <2>5. SendForm(sent.form) /\ T \subseteq {"leaving"}
    BY <2>2, <2>4, ProfileFacts
  <2> HIDE DEF sent, T
  <2> QED
    BY <1>2, <2>3, <2>4, <2>5, ProfileFacts, SendTaken
<1>3. ASSUME NEW q \in Bad("save"), Fails(q, Free(view, {"saving"})) PROVE IInv' /\ Kept
  BY <1>3, ProfileFacts, SendFails
<1> QED
  BY <1>1, <1>2, <1>3 DEF ProfileSave

LEMMA ProfilePasswordKeeps == ASSUME IInv, page = "profile", ProfilePassword \/ ProfilePasswordField PROVE IInv' /\ Kept
<1>0. /\ "password" \in OpName \ Reads /\ "password" \in Flag /\ Nothing \in TextedRows /\ FirstRow \in Row
      /\ {"password"} \in SUBSET Flag /\ {"password"} \in SUBSET (Flag \ {"timer"})
  BY NothingTexted, NoneIsNoRow DEF OpName, Reads, Flag
<1>1. CASE UserAsks(Busy(view, {"password"}), Patch("password", FirstRow))
  <2>1. Patch("password", FirstRow) \in AskOn(page) /\ Patch("password", FirstRow).op = "password"
    BY <1>0, ReadyFacts, PatchFits
  <2> QED
    BY <1>0, <1>1, <2>1, ProfileFacts, FlagClick
<1>2. ASSUME NEW q \in Good("password"), Takes(q, Free([view EXCEPT !.edits = Nothing], {"password"})) PROVE IInv' /\ Kept
  <2> DEFINE u == [view EXCEPT !.edits = Nothing]
             w == Free(u, {"password"})
  <2>1. q \in flight /\ q.op = "password" /\ q.state = "ok"
    BY <1>2, AnswerFacts, GoodBad
  <2>2. /\ u \in TextedView /\ u.busy = view.busy /\ u.form = view.form /\ u.at = view.at /\ u.mounted = view.mounted
        /\ u.number = view.number /\ u.secrets = view.secrets
    BY <1>0, ReadyFacts, EditsFacts
  <2> HIDE DEF u
  <2>3. /\ w \in TextedView /\ w.busy = u.busy \ {"password"} /\ w.form = u.form /\ w.at = u.at /\ w.mounted = u.mounted
        /\ w.number = u.number /\ w.secrets = u.secrets
    BY <1>0, <2>2, FlagFacts
  <2> HIDE DEF w
  <2>4. w \in ViewOn(page)
    BY <2>2, <2>3, ProfileFacts, SendsNow, SendFacts
  <2>5. w.busy = (view.busy \ {"password"}) \cup {} /\ w.at = view.at /\ w.mounted = view.mounted /\ w.secrets = view.secrets
    BY <2>2, <2>3
  <2>6. Passes(w, {"password"}, {}, {q}, {})
    BY <2>1, <2>5, ProfileFacts, SendFacts DEF Passes
  <2>7. StillHeld(w, {q}, {})
    BY <2>6, ProfileFacts, SendFacts, AlikeHeld
  <2> QED
    BY <1>2, <2>1, <2>4, <2>7, ProfileFacts, SendFacts, TakesKeeps DEF w, u
<1>3. ASSUME NEW q \in Bad("password"), Fails(q, Free(view, {"password"})) PROVE IInv' /\ Kept
  <2>1. q \in flight /\ q.op = "password"
    BY <1>3, AnswerFacts, GoodBad
  <2>2. (\A f : q.op \in Holders(page, f) => f \in {"password"}) /\ q.op \notin AtHolders(page) \cup {"reveal"}
    BY <2>1, ProfileFacts, SendFacts
  <2> QED
    BY <1>0, <1>3, <2>1, <2>2, ProfileFacts, FlagAnswer
<1>4. CASE UserDoes([view EXCEPT !.edits = [r \in {FirstRow} |-> "typed"]])
  <2> DEFINE rows == [r \in {FirstRow} |-> "typed"]
             w == [view EXCEPT !.edits = rows]
  <2>1. rows \in TextedRows
    <3> DEFINE S == {FirstRow}
    <3>1. rows \in [S -> Text] /\ S \in SUBSET Row /\ \A r \in S : rows[r] \in TextsFor(r)
      BY <1>0 DEF Text, TextsFor
    <3> HIDE DEF S, rows
    <3> QED
      BY <3>1, RowsIntro
  <2>2. UserDoes(w)
    BY <1>4
  <2> HIDE DEF rows
  <2>3. /\ w \in TextedView /\ w.busy = view.busy /\ w.form = view.form /\ w.at = view.at /\ w.mounted = view.mounted
        /\ w.number = view.number /\ w.secrets = view.secrets
    BY <2>1, ReadyFacts, EditsFacts
  <2> HIDE DEF w
  <2>4. w \in ViewOn(page)
    BY <2>3, ProfileFacts, SendsNow, SendFacts
  <2>5. Calmer(w)
    BY <2>3 DEF Calmer
  <2> QED
    BY <2>2, <2>4, <2>5, ProfileFacts, SendFacts, CalmDoes
<1> QED
  BY <1>1, <1>2, <1>3, <1>4 DEF ProfilePassword, ProfilePasswordField

LEMMA ProfileKeeps == ASSUME IInv, page = "profile", ProfileNext PROVE IInv' /\ Kept
<1>0. /\ {"loading"} \in SUBSET (Flag \ {"timer"}) /\ "load" \notin AtHolders(page) \cup {"reveal"}
      /\ \A g : "load" \in Holders(page, g) => g \in {"loading"}
  BY DEF Flag, Holders, AtHolders
<1>1. ASSUME NEW q \in Answers("load"), Takes(q, Free(view, {"loading"})) PROVE IInv' /\ Kept
  <2>1. q \in flight /\ q.op = "load"
    BY <1>1, ProfileFacts, FormLoadFacts
  <2> QED
    BY <1>0, <1>1, <2>1, ProfileFacts, FlagAnswer
<1>2. CASE Typing
  BY <1>2, ProfileFacts, SendFacts, TypingKeeps
<1> QED
  BY <1>1, <1>2, ProfileSaveKeeps, ProfilePasswordKeeps DEF ProfileNext, ProfileLoad, ProfileUpdateField

-----------------------------------------------------------------------------
(* The forms of the public site. *)

LEMMA ResetFacts ==
    ASSUME IInv, page \in SendPages, page # "profile"
    PROVE  LET w == [view EXCEPT !.open = FALSE, !.form = Blank] IN
           /\ w \in TextedView /\ SendForm(w.form) /\ w.busy = view.busy /\ w.at = view.at /\ w.mounted = view.mounted
           /\ w.number = view.number /\ w.secrets = view.secrets
<1>1. Blank \in TextedForm /\ Blank.row = NONE /\ Blank # NONE /\ view \in TextedView
  BY ReadyFacts, FormsTexted, FormIsSome
<1> DEFINE b == FALSE
           w == [view EXCEPT !.open = b, !.form = Blank]
<1>2. b \in BOOLEAN
  OBVIOUS
<1> HIDE DEF b, Blank
<1>3. /\ w \in TextedView /\ w.form = Blank /\ w.busy = view.busy /\ w.at = view.at /\ w.mounted = view.mounted
      /\ w.number = view.number /\ w.secrets = view.secrets
  BY <1>1, <1>2 DEF TextedView
<1>4. SendForm(w.form)
  BY <1>1, <1>3 DEF SendForm
<1> QED
  BY <1>3, <1>4 DEF b

LEMMA OnceKeeps ==
    ASSUME IInv, page \in {"request service", "book consultation"},
           \/ Typing
           \/ FormReady /\ UserAsks(Busy(view, {"saving"}), Create("save", view.form))
           \/ \E q \in Good("save") : Takes(q, Free([view EXCEPT !.open = TRUE], {"saving"}))
           \/ \E q \in Bad("save") : Fails(q, Free(view, {"saving"}))
           \/ UserDoes([view EXCEPT !.open = FALSE, !.form = Blank])
    PROVE  IInv' /\ Kept
<1>1. /\ page \in SendPages /\ page \in FormPages /\ page \in BlankPages /\ page \in CreatePages /\ page # "profile"
      /\ page \notin QuietPages /\ "save" \in OpName \ Reads
  BY DEF SendPages, FormPages, BlankPages, CreatePages, QuietPages, OpName, Reads
<1>2. view.form \in TextedForm /\ view.form.row = NONE /\ view.form # NONE
  BY <1>1, SendsNow DEF SendForm, TextedView
<1>3. CASE UserAsks(Busy(view, {"saving"}), Create("save", view.form))
  <2>1. Create("save", view.form) \in AskOn(page) /\ Create("save", view.form).op = "save"
    BY <1>1, <1>2, SendsNow, CreateFits
  <2> QED
    BY <1>1, <1>3, <2>1, SendClick
<1>4. ASSUME NEW q \in Good("save"), Takes(q, Free([view EXCEPT !.open = TRUE], {"saving"})) PROVE IInv' /\ Kept
  <2> DEFINE b == TRUE
             sent == [view EXCEPT !.open = b]
             T == {}
  <2>1. Takes(q, Free(sent, {"saving"})) /\ b \in BOOLEAN
    BY <1>4
  <2> HIDE DEF b
  <2>2. /\ sent \in TextedView /\ sent.form = view.form /\ sent.at = view.at /\ sent.mounted = view.mounted
        /\ sent.secrets = view.secrets /\ sent.number = view.number /\ sent.busy = view.busy \cup T
    BY <2>1, SendsNow, <1>1 DEF TextedView
  <2>3. SendForm(sent.form) /\ T \subseteq {"leaving"}
    BY <1>1, <2>2, SendsNow
  <2> HIDE DEF sent, T
  <2> QED
    BY <1>1, <1>4, <2>1, <2>2, <2>3, SendTaken
<1>5. ASSUME NEW q \in Bad("save"), Fails(q, Free(view, {"saving"})) PROVE IInv' /\ Kept
  BY <1>1, <1>5, SendFails
<1>6. CASE UserDoes([view EXCEPT !.open = FALSE, !.form = Blank])
  <2> DEFINE w == [view EXCEPT !.open = FALSE, !.form = Blank]
  <2>1. /\ w \in TextedView /\ SendForm(w.form) /\ w.busy = view.busy /\ w.at = view.at /\ w.mounted = view.mounted
        /\ w.number = view.number /\ w.secrets = view.secrets
    BY <1>1, ResetFacts
  <2>2. UserDoes(w)
    BY <1>6
  <2> HIDE DEF w
  <2>3. w \in ViewOn(page)
    BY <1>1, <2>1, SendsNow, SendFacts
  <2>4. Calmer(w)
    BY <1>1, <2>1 DEF Calmer, SendPages
  <2> QED
    BY <1>1, <2>2, <2>3, <2>4, SendFacts, CalmDoes
<1>7. CASE Typing
  BY <1>1, <1>2, <1>7, SendFacts, TypingKeeps
<1> QED
  BY <1>3, <1>4, <1>5, <1>6, <1>7

LEMMA RequestServiceKeeps == ASSUME IInv, page = "request service", RequestServiceNext PROVE IInv' /\ Kept
  BY OnceKeeps DEF RequestServiceNext, RequestServiceUpdate, RequestServiceSends, RequestServiceSubmit, RequestServiceReset

LEMMA BookConsultationKeeps == ASSUME IInv, page = "book consultation", BookConsultationNext PROVE IInv' /\ Kept
  BY OnceKeeps DEF BookConsultationNext, BookConsultationUpdate, BookConsultationSubmit, BookConsultationReset

\* The rows of a page that does not say that it loads.
LEMMA QuietFacts ==
    ASSUME page \in QuietPages
    PROVE  /\ page \notin RunPages /\ page \notin RunPages \cup {"request", "staff", "blog"} /\ AtHolders(page) = {}
           /\ \A f : "load" \in Holders(page, f) => f = "loading"
           /\ \A v : v \in ViewOn(page) <=> /\ v \in TextedView /\ v.number \in {1, 2} /\ "loading" \notin v.busy
                                            /\ page = "contact" => v.form # NONE
                                            /\ page = "contact" => v.form = NONE \/ v.form.row = NONE
<1>1. /\ page \notin RunPages /\ page \notin RunPages \cup {"request", "staff", "blog"} /\ AtHolders(page) = {}
      /\ \A f : "load" \in Holders(page, f) => f = "loading"
  BY DEF QuietPages, RunPages, DetailPages, SearchPages, AtHolders, Holders, Loads
<1>2. /\ page \notin {"profile", "consultation", "bell", "content", "admin dashboard", "request"}
      /\ page \notin DetailPages /\ page \notin SearchPages
      /\ page \in FormPages <=> page = "contact"
      /\ page \in BlankPages <=> page = "contact"
  BY DEF QuietPages, DetailPages, SearchPages, FormPages, BlankPages
<1>3. \A v : v \in ViewOn(page) <=> /\ v \in TextedView /\ v.number \in {1, 2} /\ "loading" \notin v.busy
                                    /\ page = "contact" => v.form # NONE
                                    /\ page = "contact" => v.form = NONE \/ v.form.row = NONE
  BY <1>1, <1>2 DEF ViewOn
<1> QED
  BY <1>1, <1>3

LEMMA QuietRowsKeeps ==
    ASSUME IInv, page \in QuietPages, NEW q \in Answers("load"), NEW rows \in TextedRows, Takes(q, [view EXCEPT !.rows = rows])
    PROVE  IInv' /\ Kept
<1> DEFINE w == [view EXCEPT !.rows = rows]
<1>1. q \in flight /\ q.op = "load" /\ q.verb \notin Writes /\ view \in TextedView /\ view \in ViewOn(page)
  BY AnswerFacts, ReadyFacts DEF Reads
<1>2. w \in TextedView /\ Alike(w, view) /\ w.busy = view.busy /\ w.form = view.form /\ w.number = view.number
  BY <1>1, AlikeShows, ZenonT(60) DEF Else, Alike
<1> HIDE DEF w
<1>3. "loading" \notin view.busy /\ w.busy = view.busy \ {"loading"}
  BY <1>1, <1>2, QuietFacts
<1>4. w \in ViewOn(page)
  BY <1>1, <1>2, QuietFacts
<1>5. (\A f : q.op \in Holders(page, f) => f \in {"loading"}) /\ q.op \notin AtHolders(page) \cup {"reveal"}
  BY <1>1, QuietFacts
<1> QED
  BY <1>1, <1>2, <1>3, <1>4, <1>5, QuietFacts, AlikeAnswer DEF w

LEMMA ContactKeeps == ASSUME IInv, page = "contact", ContactNext PROVE IInv' /\ Kept
<1>1. /\ page \in SendPages /\ page \in FormPages /\ page \in BlankPages /\ page \in CreatePages /\ page # "profile"
      /\ page \in QuietPages /\ "save" \in OpName \ Reads
  BY DEF SendPages, FormPages, BlankPages, CreatePages, QuietPages, OpName, Reads
<1>2. view.form \in TextedForm /\ view.form.row = NONE /\ view.form # NONE
  BY <1>1, SendsNow DEF SendForm, TextedView
<1>3. ASSUME NEW q \in Answers("load"), Takes(q, [view EXCEPT !.rows = q.got]) PROVE IInv' /\ Kept
  BY <1>1, <1>3, AnswerFacts, QuietRowsKeeps
<1>4. CASE Typing
  BY <1>1, <1>2, <1>4, SendFacts, TypingKeeps
<1>5. CASE ContactSubmit
  <2> DEFINE sent == [view EXCEPT !.form = Blank]
             T == {}
  <2>1. Create("save", view.form) \in AskOn(page) /\ Create("save", view.form).op = "save"
    BY <1>1, <1>2, SendsNow, CreateFits
  <2>2. Blank \in TextedForm /\ Blank.row = NONE /\ Blank # NONE
    BY ReadyFacts, FormsTexted, FormIsSome
  <2>3. FormSends(Create("save", view.form), sent)
    BY <1>5 DEF ContactSubmit
  <2> HIDE DEF Blank
  <2>4. /\ sent \in TextedView /\ sent.form = Blank /\ sent.at = view.at /\ sent.mounted = view.mounted
        /\ sent.secrets = view.secrets /\ sent.number = view.number /\ sent.busy = view.busy \cup T
    BY <1>1, <2>2, SendsNow, FormFacts
  <2>5. SendForm(sent.form) /\ T \subseteq {"leaving"}
    BY <1>1, <2>2, <2>4 DEF SendForm
  <2> HIDE DEF sent, T
  <2> QED
    BY <1>1, <2>1, <2>3, <2>4, <2>5, FormSendsKeeps
<1> QED
  BY <1>3, <1>4, <1>5 DEF ContactNext, ContactContent, ContactFields

-----------------------------------------------------------------------------
(* What the site shows. *)

LEMMA BuiltInTexted == BuiltIn \in TextedRows /\ DOMAIN BuiltIn = {FirstRow}
<1> DEFINE S == {FirstRow}
<1>1. S \in SUBSET Row /\ BuiltIn \in [S -> Text] /\ \A r \in S : BuiltIn[r] \in TextsFor(r)
  BY NoneIsNoRow DEF BuiltIn, Text, TextsFor
<1>2. DOMAIN BuiltIn = {FirstRow}
  BY DEF BuiltIn
<1> HIDE DEF S, BuiltIn
<1> QED
  BY <1>1, <1>2, RowsIntro

LEMMA MergedTexted == ASSUME NEW got \in TextedRows PROVE Merged(got) \in TextedRows
<1>1. DOMAIN got \in SUBSET Row /\ got \in [DOMAIN got -> Text] /\ \A r \in DOMAIN got : got[r] \in TextsFor(r)
  BY RowsElim
<1> DEFINE S == {FirstRow} \cup DOMAIN got
           rows == [r \in S |-> IF r \in DOMAIN got THEN got[r] ELSE ""]
<1>2. S \in SUBSET Row /\ Merged(got) = rows
  BY <1>1, NoneIsNoRow DEF Merged
<1>3. "" \in Text /\ \A r : "" \in TextsFor(r)
  BY DEF Text, TextsFor
<1> HIDE DEF S
<1>4. rows \in [S -> Text] /\ \A r \in S : rows[r] \in TextsFor(r)
  BY <1>1, <1>3
<1> HIDE DEF rows
<1> QED
  BY <1>2, <1>4, RowsIntro

LEMMA SiteRowsTexted ==
    ASSUME IInv, NEW q \in Answers("load")
    PROVE  /\ ServicesMerged(q) \in TextedRows /\ SiteTaken(q) \in TextedRows /\ ContentTakenOr(q) \in TextedRows
           /\ SocialLinksTaken(q) \in TextedRows
<1>1. q.got \in TextedRows /\ view.rows \in TextedRows
  BY AnswerFacts, ReadyFacts DEF TextedView
<1> QED
  BY <1>1, BuiltInTexted, MergedTexted DEF ServicesMerged, SiteTaken, ContentTakenOr, SocialLinksTaken

LEMMA SiteShowsKeeps ==
    ASSUME IInv, page \in QuietPages, NEW q,
           SiteShows(q, ServicesMerged(q)) \/ SiteShows(q, SiteTaken(q)) \/ SiteShows(q, ContentTakenOr(q))
    PROVE  IInv' /\ Kept
<1>1. q \in Answers("load")
  BY DEF SiteShows
<1>2. PICK rows \in TextedRows : Takes(q, [view EXCEPT !.rows = rows])
  BY <1>1, SiteRowsTexted DEF SiteShows
<1> QED
  BY <1>1, <1>2, QuietRowsKeeps

LEMMA SiteListsKeep ==
    ASSUME IInv,
           \/ page = "site services" /\ SiteServicesNext
           \/ page = "service preview" /\ ServicePreviewNext
           \/ page = "site staff" /\ SiteStaffNext
           \/ page = "staff preview" /\ StaffPreviewNext
           \/ page = "site blog" /\ SiteBlogNext
           \/ page = "blog preview" /\ BlogPreviewNext
           \/ page = "floating stats" /\ FloatingStatsNext
           \/ page = "site testimonials" /\ SiteTestimonialsNext
           \/ page = "footer" /\ FooterNext
           \/ page = "about" /\ AboutNext
    PROVE  IInv' /\ Kept
<1>1. page \in QuietPages
  BY DEF QuietPages
<1>2. \E q \in flight : SiteShows(q, ServicesMerged(q)) \/ SiteShows(q, SiteTaken(q)) \/ SiteShows(q, ContentTakenOr(q))
  BY DEF SiteServicesNext, ServicePreviewNext, SiteStaffNext, StaffPreviewNext, SiteBlogNext, BlogPreviewNext,
         FloatingStatsNext, SiteTestimonialsNext, FooterNext, AboutNext
<1> QED
  BY <1>1, <1>2, SiteShowsKeeps

LEMMA HeroKeeps == ASSUME IInv, page = "hero", HeroNext PROVE IInv' /\ Kept
<1>1. page \in QuietPages /\ page # "contact"
  BY DEF QuietPages
<1>2. ASSUME NEW q \in flight, SiteShows(q, ContentTakenOr(q)) PROVE IInv' /\ Kept
  BY <1>1, <1>2, SiteShowsKeeps
<1>3. CASE UserDoes([view EXCEPT !.number = 3 - view.number])
  <2> DEFINE other == 3 - view.number
             w == [view EXCEPT !.number = other]
  <2>1. view \in TextedView /\ view.number \in {1, 2} /\ "loading" \notin view.busy
    BY <1>1, ReadyFacts, QuietFacts
  <2>2. other \in {1, 2} /\ other \in Nat /\ UserDoes(w)
    BY <1>3, <2>1, OtherPage
  <2> HIDE DEF other
  <2>3. /\ w \in TextedView /\ w.number = other /\ w.busy = view.busy /\ w.form = view.form /\ w.at = view.at
        /\ w.mounted = view.mounted /\ w.secrets = view.secrets
    BY <2>1, <2>2 DEF TextedView
  <2> HIDE DEF w
  <2>4. w \in ViewOn(page)
    BY <1>1, <2>1, <2>2, <2>3, QuietFacts
  <2>5. Calmer(w)
    BY <2>3 DEF Calmer
  <2> QED
    BY <1>1, <2>2, <2>4, <2>5, QuietFacts, CalmDoes
<1> QED
  BY <1>2, <1>3 DEF HeroNext

LEMMA SiteSocialLinksKeeps == ASSUME IInv, page = "site social links", SiteSocialLinksNext PROVE IInv' /\ Kept
<1>1. PICK q \in Answers("load") : Takes(q, Free([view EXCEPT !.rows = SocialLinksTaken(q)], {"loading"}))
  BY DEF SiteSocialLinksNext
<1>2. page \notin SpecialPages /\ page \notin {"staff", "blog"}
  BY DEF SpecialPages, FormPages, BlankPages, BusyPages, QuietPages, RunPages, DetailPages, SearchPages
<1>3. SocialLinksTaken(q) \in TextedRows /\ q \in flight /\ q.op = "load"
  BY SiteRowsTexted, AnswerFacts
<1>4. {"loading"} \in SUBSET (Flag \ {"timer"})
  BY DEF Flag
<1>5. (\A f : q.op \in Holders(page, f) => f \in {"loading"}) /\ q.op \notin AtHolders(page) \cup {"reveal"}
  BY <1>3 DEF Holders, AtHolders, Loads
<1> QED
  BY <1>1, <1>2, <1>3, <1>4, <1>5, RowsAnswer

-----------------------------------------------------------------------------
(* The pages of one row, whose address may change. *)

LEMMA DetailView ==
    ASSUME page \in DetailPages
    PROVE  \A v : v \in ViewOn(page) <=> /\ v \in TextedView /\ v.number \in {1, 2} /\ v.section \in Row
                                         /\ v.busy \subseteq {"loading", "timer"}
                                         /\ "loading" \notin v.busy => DOMAIN v.rows \subseteq {v.section}
<1>1. /\ page \notin FormPages /\ page \notin BlankPages /\ page \notin QuietPages /\ page \notin SearchPages
      /\ page \notin {"profile", "consultation", "bell", "content", "admin dashboard", "request"} /\ page \in RunPages
  BY DEF DetailPages, FormPages, BlankPages, QuietPages, SearchPages, RunPages
<1> QED
  BY <1>1 DEF ViewOn

LEMMA DetailFacts ==
    ASSUME IInv, page \in DetailPages
    PROVE  /\ page \in RunPages /\ view \in TextedView /\ view.number \in {1, 2} /\ view.busy \subseteq {"loading", "timer"}
           /\ view.mounted \in Nat /\ view.section \in Row /\ Ready /\ view \in ViewOn(page)
           /\ HeldAll(page, view, flight)
           /\ \A q \in flight : /\ q.life \in Nat /\ q.life <= view.mounted /\ q.verb = "get"
                                /\ q.life = view.mounted => q.row = view.section
<1>1. page \in RunPages
  BY DEF RunPages
<1>2. view \in TextedView /\ view.number \in {1, 2} /\ view.busy \subseteq {"loading", "timer"} /\ view.section \in Row
  BY DetailView DEF IInv
<1>3. view.mounted \in Nat
  BY <1>2 DEF TextedView
<1>4. HeldAll(page, view, flight) /\ view \in ViewOn(page)
  BY DEF IInv
<1>5. ASSUME NEW q \in flight
      PROVE  /\ q.life \in Nat /\ q.life <= view.mounted /\ q.verb = "get"
             /\ q.life = view.mounted => q.row = view.section
  <2>1. q.life \in Nat
    BY ReadyFacts DEF TextedAsk, AskFields
  <2> QED
    BY <1>1, <2>1 DEF IInv, RunsFit
<1> QED
  BY <1>1, <1>2, <1>3, <1>4, <1>5, ReadyFacts

LEMMA DetailFits ==
    ASSUME page \in DetailPages, NEW w, NEW fl,
           \A q \in fl : q.life <= w.mounted /\ q.verb = "get" /\ (q.life = w.mounted => q.row = w.section)
    PROVE  RunsFit(page, w, fl)
  BY DEF RunsFit, SearchPages, DetailPages

\* The page for a row, as it is mounted.
LEMMA ItemFacts ==
    ASSUME NEW r \in Row, NEW rows \in TextedRows
    PROVE  LET w == Item(r, rows) IN
           /\ w \in TextedView /\ w.busy = {"loading"} /\ w.at = NONE /\ DOMAIN w.secrets = {} /\ w.number = 1
           /\ w.section = r /\ w.mounted = 0 /\ w.rows = rows
<1> DEFINE u == [NothingShown EXCEPT !.section = r, !.rows = rows]
           x == Busy(u, {"loading"})
<1>1. /\ u \in TextedView /\ u.busy = {} /\ u.at = NONE /\ DOMAIN u.secrets = {} /\ u.number = 1 /\ u.section = r
      /\ u.mounted = 0 /\ u.rows = rows
  <2>1. /\ NothingShown \in TextedView /\ NothingShown.busy = {} /\ NothingShown.at = NONE
        /\ NothingShown.number = 1 /\ DOMAIN NothingShown.secrets = {} /\ NothingShown.mounted = 0
    BY NothingShownFacts
  <2> HIDE DEF NothingShown
  <2> QED
    BY <2>1 DEF TextedView
<1>2. Item(r, rows) = x /\ {"loading"} \in SUBSET Flag
  BY DEF Item, Flag
<1> HIDE DEF u
<1>3. /\ x \in TextedView /\ x.busy = u.busy \cup {"loading"} /\ x.at = u.at /\ x.secrets = u.secrets /\ x.number = u.number
      /\ x.section = u.section /\ x.mounted = u.mounted /\ x.rows = u.rows
  BY <1>1, <1>2, FlagFacts
<1> HIDE DEF x
<1> QED
  BY <1>1, <1>2, <1>3

ItemOf(r, rows) == [Item(r, rows) EXCEPT !.mounted = view.mounted + 1]
ItemAsk(r, rows) == ForRun(GetRow("load", r), ItemOf(r, rows))

LEMMA ItemOfFacts ==
    ASSUME view.mounted \in Nat, NEW r \in Row, NEW rows \in TextedRows
    PROVE  LET w == ItemOf(r, rows) IN
           /\ w \in TextedView /\ w.busy = {"loading"} /\ w.at = NONE /\ DOMAIN w.secrets = {} /\ w.number = 1
           /\ w.section = r /\ w.mounted = view.mounted + 1
<1> DEFINE n == view.mounted + 1
           x == Item(r, rows)
           w == [x EXCEPT !.mounted = n]
<1>1. n \in Nat
  OBVIOUS
<1>2. /\ x \in TextedView /\ x.busy = {"loading"} /\ x.at = NONE /\ DOMAIN x.secrets = {} /\ x.number = 1
      /\ x.section = r
  BY ItemFacts
<1>3. ItemOf(r, rows) = w
  BY DEF ItemOf
<1>n. n = view.mounted + 1
  OBVIOUS
<1> HIDE DEF x, n
<1>4. /\ w \in TextedView /\ w.busy = x.busy /\ w.at = x.at /\ w.secrets = x.secrets /\ w.number = x.number
      /\ w.section = x.section /\ w.mounted = n
  BY <1>1, <1>2 DEF TextedView
<1> HIDE DEF w
<1> QED
  BY <1>2, <1>3, <1>4, <1>n

LEMMA ItemAskFits ==
    ASSUME IInv, page \in DetailPages, NEW r \in Row, NEW rows \in TextedRows
    PROVE  /\ ItemAsk(r, rows) \in AskOn(page) /\ ItemAsk(r, rows).op = "load" /\ ItemAsk(r, rows).verb = "get"
           /\ ItemAsk(r, rows).row = r /\ ItemAsk(r, rows).life = view.mounted + 1
<1> DEFINE b == GetRow("load", r)
           a == ItemAsk(r, rows)
           n == view.mounted + 1
<1>0. view.mounted \in Nat /\ Ready
  BY DetailFacts
<1>1. b \in AskOn(page) /\ b.op = "load" /\ b.verb = "get" /\ b.row = r
  <2>1. "load" \in OpName /\ NoRowLoad("load")
    BY DetailFacts, RunRules DEF OpName, NoRowLoad
  <2> QED
    BY <1>0, <2>1, GetRowFits
<1>2. n \in Nat
  BY <1>0
<1>3. ItemOf(r, rows).mounted = n
  BY <1>0, ItemOfFacts
<1>4. a = [b EXCEPT !.life = n]
  BY <1>3 DEF ForRun, ItemAsk
<1> HIDE DEF b, n
<1>5. b \in AskFields /\ AskRules(b)
  BY <1>1 DEF AskOn, TextedAsk
<1>6. /\ a \in AskFields /\ a.op = b.op /\ a.verb = b.verb /\ a.row = b.row /\ a.text = b.text /\ a.query = b.query
      /\ a.state = b.state /\ a.got = b.got /\ a.life = n
  BY <1>2, <1>4, <1>5 DEF AskFields
<1> HIDE DEF a
<1>7. AskRules(a)
  BY <1>5, <1>6 DEF AskRules
<1>8. a \in AskOn(page)
  BY <1>1, <1>6, <1>7 DEF AskOn, TextedAsk
<1> QED
  BY <1>1, <1>6, <1>8 DEF a, n

LEMMA ItemGoesKeeps ==
    ASSUME IInv, page \in DetailPages, NEW builtIn, \A r \in Row : builtIn[r] \in TextedRows, ItemGoes(builtIn)
    PROVE  IInv' /\ Kept
<1>1. PICK r \in Row : UserAsks(ItemOf(r, builtIn[r]), ItemAsk(r, builtIn[r]))
  BY DEF ItemGoes, ItemOf, ItemAsk
<1> DEFINE w == ItemOf(r, builtIn[r])
           a == ItemAsk(r, builtIn[r])
           n == view.mounted + 1
<1>0. view.mounted \in Nat /\ builtIn[r] \in TextedRows /\ page \in RunPages
  BY DetailFacts
<1>2. a \in AskOn(page) /\ a.op = "load" /\ a.verb = "get" /\ a.row = r /\ a.life = n
  BY <1>0, ItemAskFits
<1>3. n \in Nat /\ n <= n /\ \A q \in flight : q.life <= n /\ q.life # n /\ q.verb = "get"
  <2>1. \A q \in flight : q.life \in Nat /\ q.life <= view.mounted /\ q.verb = "get"
    BY DetailFacts
  <2> QED
    BY <1>0, <2>1
<1>4. /\ w \in TextedView /\ w.busy = {"loading"} /\ w.at = NONE /\ DOMAIN w.secrets = {} /\ w.number = 1
      /\ w.section = r /\ w.mounted = n
  BY <1>0, ItemOfFacts
<1>5. UserAsksAll(w, {a})
  BY <1>1 DEF UserAsks
<1> HIDE DEF w, a, n
<1>6. w \in ViewOn(page)
  BY <1>4, DetailView
<1>7. HeldAll(page, w, flight \cup {a})
  <2>1. view.at = NONE
    BY <1>0, RunRules DEF IInv, HeldAll
  <2>2. a \in flight \cup {a} /\ a.op \in Loads /\ a.life = w.mounted
    BY <1>2, <1>4 DEF Loads
  <2>3. \A q \in flight : q.op # "load" => q \in flight \cup {a}
    OBVIOUS
  <2>4. w.busy \subseteq {"loading", "timer"}
    BY <1>4
  <2> QED
    BY <1>0, <1>4, <2>1, <2>2, <2>3, <2>4, RunHeld
<1>8. RunsFit(page, w, flight \cup {a})
  <2>1. \A q \in flight \cup {a} : q.life <= w.mounted /\ q.verb = "get" /\ (q.life = w.mounted => q.row = w.section)
    BY <1>2, <1>3, <1>4
  <2> QED
    BY <2>1, DetailFits
<1>9. {a} \in SUBSET AskOn(page) /\ IsFiniteSet({a})
  BY <1>2, FS_Singleton
<1> QED
  BY <1>5, <1>6, <1>7, <1>8, <1>9, AsksStep

LEMMA ItemTakenKeeps ==
    ASSUME IInv, page \in DetailPages, NEW q, NEW rows \in TextedRows, ItemTaken(q, rows),
           q.life = view.mounted => DOMAIN rows \subseteq {view.section}
    PROVE  IInv' /\ Kept
<1>0. q \in Answers("load") /\ q \in flight /\ q.op = "load" /\ q.verb \notin Writes
  BY AnswerFacts DEF ItemTaken, Reads
<1>1. /\ page \in RunPages /\ view \in TextedView /\ view.number \in {1, 2} /\ view.busy \subseteq {"loading", "timer"}
      /\ HeldAll(page, view, flight) /\ {"loading"} \in SUBSET Flag /\ view.section \in Row /\ view \in ViewOn(page)
  BY DetailFacts DEF Flag
<1> DEFINE fl == flight \ {q}
<1>2. ASSUME NEW w, w.mounted = view.mounted, w.section = view.section PROVE RunsFit(page, w, fl)
  BY <1>2, DetailFacts, DetailFits
<1>3. \A b \in flight : b.op # "load" => b \in fl
  BY <1>0
<1>4. CASE q.life = view.mounted
  <2> DEFINE u == [view EXCEPT !.rows = rows]
             w == Free(u, {"loading"})
  <2>1. Takes(q, w)
    BY <1>4 DEF ItemTaken, OfThisRun
  <2>2. /\ u \in TextedView /\ u.busy = view.busy /\ u.at = view.at /\ u.secrets = view.secrets /\ u.rows = rows
        /\ u.number = view.number /\ u.mounted = view.mounted /\ u.section = view.section
    BY <1>1 DEF TextedView
  <2> HIDE DEF u
  <2>3. /\ w \in TextedView /\ w.busy = u.busy \ {"loading"} /\ w.at = u.at /\ w.secrets = u.secrets /\ w.rows = u.rows
        /\ w.number = u.number /\ w.mounted = u.mounted /\ w.section = u.section
    BY <1>1, <2>2, FlagFacts
  <2> HIDE DEF w
  <2>4. /\ w.at = view.at /\ w.secrets = view.secrets /\ w.busy \subseteq {"loading", "timer"} /\ "loading" \notin w.busy
        /\ w.rows = rows /\ w.section = view.section /\ w.number \in {1, 2} /\ w.mounted = view.mounted
    BY <1>1, <2>2, <2>3
  <2>5. w \in ViewOn(page)
    BY <1>1, <1>4, <2>3, <2>4, DetailView
  <2>6. HeldAll(page, w, fl)
    BY <1>1, <1>3, <2>4, RunHeld
  <2>7. RunsFit(page, w, fl)
    BY <1>2, <2>4
  <2> QED
    BY <1>0, <2>1, <2>5, <2>6, <2>7, TakesStep
<1>5. CASE q.life # view.mounted
  <2>1. Takes(q, view)
    BY <1>5 DEF ItemTaken, OfThisRun
  <2>2. "loading" \in view.busy => "timer" \in view.busy \/ \E b \in fl : b.op \in Loads /\ b.life = view.mounted
    <3>1. ASSUME "loading" \in view.busy, "timer" \notin view.busy PROVE \E b \in fl : b.op \in Loads /\ b.life = view.mounted
      <4>1. PICK b \in flight : Holder(page, view, b, "loading")
        BY <1>1, <3>1 DEF HeldAll
      <4>2. b.life = view.mounted /\ b # q
        BY <1>1, <1>5, <4>1 DEF Holder
      <4>3. b.op \in Loads
        BY <4>1 DEF Holder, Holders
      <4> QED
        BY <4>2, <4>3
    <3> QED
      BY <3>1
  <2>3. HeldAll(page, view, fl)
    BY <1>1, <1>3, <2>2, RunHeld
  <2>4. RunsFit(page, view, fl)
    BY <1>2
  <2> QED
    BY <1>0, <1>1, <2>1, <2>3, <2>4, TakesStep
<1> QED
  BY <1>4, <1>5

LEMMA BuiltInsTexted ==
    ASSUME NEW r \in Row
    PROVE  /\ BuiltInFor[r] \in TextedRows /\ DOMAIN BuiltInFor[r] \subseteq {r}
           /\ NoneBuiltIn[r] \in TextedRows
  BY BuiltInTexted, NothingTexted DEF BuiltInFor, NoneBuiltIn

\* The answer to the request of this run is about the row of the page.
LEMMA ItemAnswer ==
    ASSUME IInv, page \in DetailPages, NEW q \in Answers("load")
    PROVE  /\ OrBuiltIn(q) \in TextedRows /\ OnlyAnswer(q) \in TextedRows
           /\ q.life = view.mounted => DOMAIN OrBuiltIn(q) \subseteq {view.section}
           /\ q.life = view.mounted => DOMAIN OnlyAnswer(q) \subseteq {view.section}
<1>1. q \in flight /\ q.got \in TextedRows /\ AskRules(q) /\ q.verb = "get" /\ view.section \in Row
  <2>1. q \in flight /\ q.got \in TextedRows /\ q \in TextedAsk
    BY AnswerFacts
  <2> QED
    BY <2>1, DetailFacts DEF TextedAsk
<1>2. q.life = view.mounted => q.row = view.section
  BY <1>1, DetailFacts
<1>3. /\ q.state = "ok" => DOMAIN q.got = {q.row}
      /\ q.state # "ok" => DOMAIN q.got = {}
  BY <1>1, NothingTexted DEF AskRules
<1>4. BuiltInFor[view.section] \in TextedRows /\ DOMAIN BuiltInFor[view.section] \subseteq {view.section}
  BY <1>1, BuiltInsTexted
<1>5. OnlyAnswer(q) = q.got /\ (q.state = "ok" => OrBuiltIn(q) = q.got)
      /\ (q.state # "ok" => OrBuiltIn(q) = BuiltInFor[view.section])
  BY DEF OnlyAnswer, OrBuiltIn
<1> QED
  BY <1>1, <1>2, <1>3, <1>4, <1>5

LEMMA DetailsKeep ==
    ASSUME IInv,
           \/ page = "service detail" /\ ServiceDetailNext
           \/ page = "staff detail" /\ StaffDetailNext
           \/ page = "blog detail" /\ BlogDetailNext
           \/ page = "client request" /\ ClientRequestNext
    PROVE  IInv' /\ Kept
<1>1. page \in DetailPages
  BY DEF DetailPages
<1>2. ASSUME ItemGoes(BuiltInFor) \/ ItemGoes(NoneBuiltIn) PROVE IInv' /\ Kept
  <2>1. (\A r \in Row : BuiltInFor[r] \in TextedRows) /\ (\A r \in Row : NoneBuiltIn[r] \in TextedRows)
    BY BuiltInsTexted
  <2> QED
    BY <1>1, <1>2, <2>1, ItemGoesKeeps
<1>3. ASSUME NEW q \in flight, ItemTaken(q, OrBuiltIn(q)) \/ ItemTaken(q, OnlyAnswer(q)) PROVE IInv' /\ Kept
  <2>1. q \in Answers("load")
    BY <1>3 DEF ItemTaken
  <2> QED
    BY <1>1, <1>3, <2>1, ItemAnswer, ItemTakenKeeps
<1> QED
  BY <1>2, <1>3 DEF ServiceDetailNext, StaffDetailNext, BlogDetailNext, ClientRequestNext

-----------------------------------------------------------------------------
(* The invariant when a page is opened. *)

LEMMA ServerOpens ==
    ASSUME NEW p, NEW v, NEW qs, OpensAsking(p, v, qs)
    PROVE  /\ page = p /\ view = v /\ flight = qs
           /\ server \in Shelf /\ (\A r \in Row : server[r] \in TextsFor(r) \cup {NONE})
           /\ ledger \in [made : SUBSET Nat, twice : BOOLEAN]
           /\ clicks \in 0..MaxClicks /\ clicks = 0
<1>1. page = p /\ view = v /\ flight = qs
  BY DEF OpensAsking
<1>2. server \in Shelf /\ (\A r \in Row : server[r] \in TextsFor(r) \cup {NONE})
  <2>1. \A r \in Row : r \in Text /\ r \in TextsFor(r)
    BY DEF Text, TextsFor
  <2>2. server = [r \in Row |-> IF r \in SparePool THEN NONE ELSE r]
    BY DEF OpensAsking
  <2> QED
    BY <2>1, <2>2 DEF Shelf
<1>3. ledger \in [made : SUBSET Nat, twice : BOOLEAN]
  BY DEF OpensAsking
<1>4. clicks \in 0..MaxClicks /\ clicks = 0
  BY ClicksBounded DEF OpensAsking
<1> QED
  BY <1>1, <1>2, <1>3, <1>4

\* The view a page begins with.
Fresh(v) == v \in TextedView /\ v.at = NONE /\ DOMAIN v.secrets = {} /\ v.mounted = 0

LEMMA OpenedFits ==
    ASSUME NEW p \in PageName, NEW v \in ViewOn(p), Fresh(v), NEW qs \in SUBSET AskOn(p), IsFiniteSet(qs),
           OpensAsking(p, v, qs), RunsFit(p, v, qs), \A q \in qs : q.life = 0, "uploading" \notin v.busy,
           \A f \in v.busy \ {"timer"} : (f = "loading" /\ "timer" \in v.busy) \/ \E q \in qs : q.op \in Holders(p, f)
    PROVE  IInv
<1>1. HeldAll(p, v, qs)
  BY DEF HeldAll, Holder, Fresh
<1>2. Data
  BY ServerOpens DEF Data
<1> QED
  BY <1>1, <1>2, ServerOpens DEF IInv

\* The first request of a page.
LEMMA FirstListFits ==
    ASSUME NEW p
    PROVE  LET a == First("list", NONE) IN
           /\ p \notin RowPages \cup {"request"} => a \in AskOn(p)
           /\ a.op = "load" /\ a.life = 0 /\ a.verb = "list" /\ a.query = "all"
<1> DEFINE a == First("list", NONE)
<1>1. /\ "list" \in Verb /\ "list" \notin Writes /\ "list" \notin Creates /\ "list" \notin TextVerbs /\ "" \in Text
      /\ "" \in TextsFor(NONE) /\ "all" \in Query /\ 0 \in Nat /\ 1 \in Nat \ {0} /\ "load" \in OpName
  BY DEF Verb, Writes, Creates, TextVerbs, Text, TextsFor, Query, OpName
<1>2. Nothing \in TextedRows /\ DOMAIN Nothing = {}
  BY NothingTexted
<1>3. /\ a.no = 1 /\ a.op = "load" /\ a.verb = "list" /\ a.row = NONE /\ a.text = "" /\ a.query = "all" /\ a.fill = 0
      /\ a.life = 0 /\ a.state = "sent" /\ a.got = Nothing
  BY DEF First
<1>5. a \in AskFields
  BY <1>1, <1>2 DEF AskFields, First
<1> HIDE DEF a
<1>6. AskRules(a)
  BY <1>1, <1>2, <1>3 DEF AskRules
<1>7. p \notin RowPages \cup {"request"} => a \in AskOn(p)
  BY <1>1, <1>3, <1>5, <1>6 DEF AskOn, TextedAsk
<1> QED
  BY <1>3, <1>7 DEF a

\* The same, for what else the page asks for at first.
LEMMA FirstFits ==
    ASSUME NEW p, p \notin RowPages \cup {"request"}, NEW op \in Reads, op # "reveal"
    PROVE  LET b == [First("list", NONE) EXCEPT !.op = op] IN b \in AskOn(p) /\ b.op = op /\ b.life = 0
<1> DEFINE a == First("list", NONE)
<1>1. a \in AskOn(p) /\ a.life = 0 /\ a.verb = "list"
  BY FirstListFits
<1>2. a \in AskFields /\ AskRules(a)
  BY <1>1 DEF AskOn, TextedAsk
<1>3. op \in OpName /\ "list" \notin Writes /\ "list" \notin Creates
  BY DEF OpName, Reads, Writes, Creates
<1> HIDE DEF a
<1> DEFINE b == [a EXCEPT !.op = op]
<1>4. /\ b \in AskFields /\ b.op = op /\ b.verb = a.verb /\ b.row = a.row /\ b.text = a.text /\ b.query = a.query
      /\ b.state = a.state /\ b.got = a.got /\ b.life = a.life
  BY <1>2, <1>3 DEF AskFields
<1> HIDE DEF b
<1>5. AskRules(b)
  BY <1>1, <1>2, <1>3, <1>4 DEF AskRules
<1>6. b \in AskOn(p)
  BY <1>1, <1>3, <1>4, <1>5 DEF AskOn, TextedAsk
<1> QED
  BY <1>1, <1>4, <1>6 DEF a, b

LEMMA FirstGetFits ==
    ASSUME NEW p
    PROVE  LET a == First("get", FirstRow) IN
           a \in AskOn(p) /\ a.op = "load" /\ a.life = 0 /\ a.verb = "get" /\ a.row = FirstRow
<1> DEFINE a == First("get", FirstRow)
<1>1. /\ "get" \in Verb /\ "get" \notin Writes /\ "get" \notin Creates /\ "get" \notin TextVerbs /\ "" \in Text
      /\ "" \in TextsFor(FirstRow) /\ "all" \in Query /\ 0 \in Nat /\ 1 \in Nat \ {0} /\ "load" \in OpName /\ FirstRow \in Row
  BY NoneIsNoRow DEF Verb, Writes, Creates, TextVerbs, Text, TextsFor, Query, OpName
<1>2. Nothing \in TextedRows /\ DOMAIN Nothing = {}
  BY NothingTexted
<1>3. /\ a.no = 1 /\ a.op = "load" /\ a.verb = "get" /\ a.row = FirstRow /\ a.text = "" /\ a.query = "all" /\ a.fill = 0
      /\ a.life = 0 /\ a.state = "sent" /\ a.got = Nothing
  BY DEF First
<1>5. a \in AskFields
  BY <1>1, <1>2 DEF AskFields, First
<1> HIDE DEF a
<1>6. AskRules(a)
  BY <1>1, <1>2, <1>3 DEF AskRules
<1>7. a \in AskOn(p)
  BY <1>1, <1>3, <1>5, <1>6 DEF AskOn, TextedAsk
<1> QED
  BY <1>3, <1>7 DEF a

LEMMA FreshFacts ==
    ASSUME NEW v \in TextedView, Fresh(v), NEW S \in SUBSET Flag
    PROVE  LET w == Busy(v, S) IN
           /\ w \in TextedView /\ Fresh(w) /\ w.busy = v.busy \cup S /\ w.form = v.form /\ w.number = v.number
           /\ w.section = v.section /\ w.rows = v.rows /\ w.asked = v.asked
  BY FlagFacts DEF Fresh

LEMMA NothingIsFresh ==
    /\ NothingShown \in TextedView /\ Fresh(NothingShown) /\ NothingShown.busy = {} /\ NothingShown.form = NONE
    /\ NothingShown.number = 1 /\ NothingShown.rows = Nothing /\ NothingShown.asked = "all"
<1>1. NothingShown.asked = "all"
  BY DEF NothingShown
<1> QED
  BY <1>1, NothingShownFacts DEF Fresh

\* Pages without rules of their own.
LEMMA PlainOpens ==
    ASSUME NEW p \in PageName, p \notin SpecialPages, NEW S \in SUBSET {"loading", "timer", "requests", "clients"},
           NEW qs \in SUBSET AskOn(p), IsFiniteSet(qs), OpensAsking(p, Busy(NothingShown, S), qs),
           \A q \in qs : q.life = 0, \A f \in S \ {"timer"} : \E q \in qs : q.op \in Holders(p, f)
    PROVE  IInv
<1> DEFINE v == Busy(NothingShown, S)
<1>1. S \in SUBSET Flag
  BY DEF Flag
<1>2. v \in TextedView /\ Fresh(v) /\ v.busy = S /\ v.number = 1
  <2> DEFINE u == NothingShown
  <2>1. u \in TextedView /\ Fresh(u) /\ u.busy = {} /\ u.number = 1 /\ v = Busy(u, S)
    BY NothingIsFresh
  <2> HIDE DEF u, v
  <2>2. v \in TextedView /\ Fresh(v) /\ v.busy = u.busy \cup S /\ v.number = u.number
    BY <1>1, <2>1, FreshFacts
  <2> QED
    BY <2>1, <2>2
<1> HIDE DEF v
<1>3. v \in ViewOn(p)
  BY <1>2 DEF QuietPages, ViewOn, SpecialPages, FormPages, BlankPages, RunPages, BusyPages, DetailPages, SearchPages
<1>4. RunsFit(p, v, qs)
  BY RunsFree DEF SpecialPages, BusyPages
<1>5. OpensAsking(p, v, qs)
  BY DEF v
<1> QED
  BY <1>2, <1>3, <1>4, <1>5, OpenedFits

LEMMA LoadingOpens ==
    ASSUME NEW p \in PageName, p \notin SpecialPages, NEW a \in AskOn(p), a.op = "load", a.life = 0,
           Opens(p, Busy(NothingShown, {"loading"}), a)
    PROVE  IInv
<1> DEFINE S == {"loading"}
           qs == {a}
<1>1. /\ S \in SUBSET {"loading", "timer", "requests", "clients"} /\ qs \in SUBSET AskOn(p) /\ IsFiniteSet(qs)
      /\ OpensAsking(p, Busy(NothingShown, S), qs) /\ \A q \in qs : q.life = 0
  BY FS_Singleton DEF Opens
<1>2. \A f \in S \ {"timer"} : \E q \in qs : q.op \in Holders(p, f)
  BY DEF Holders, Loads
<1> HIDE DEF S, qs
<1> QED
  BY <1>1, <1>2, PlainOpens

LEMMA ListPagesOpen ==
    ASSUME NEW p \in PageName, p \notin SpecialPages, p \notin RowPages \cup {"request"}, ListOpens(p)
    PROVE  IInv
<1> DEFINE a == First("list", NONE)
<1>1. a \in AskOn(p) /\ a.op = "load" /\ a.life = 0
  BY FirstListFits
<1>2. Opens(p, Busy(NothingShown, {"loading"}), a)
  BY DEF ListOpens
<1> HIDE DEF a
<1> QED
  BY <1>1, <1>2, LoadingOpens

LEMMA RowPagesOpen ==
    ASSUME NEW p \in PageName, p \notin SpecialPages, Opens(p, Busy(NothingShown, {"loading"}), First("get", FirstRow))
    PROVE  IInv
<1> DEFINE a == First("get", FirstRow)
<1>1. a \in AskOn(p) /\ a.op = "load" /\ a.life = 0
  BY FirstGetFits
<1>2. Opens(p, Busy(NothingShown, {"loading"}), a)
  OBVIOUS
<1> HIDE DEF a
<1> QED
  BY <1>1, <1>2, LoadingOpens

\* The pages without rules of their own that begin with lists.
ListPages ==
    {"staff", "testimonials", "services", "social links", "tax systems", "blog", "statistics",
     "accountant dashboard", "assigned list", "accountant consultations", "admin consultations",
     "client requests", "client dashboard", "client credentials", "credentials card", "notifications",
     "accountants", "site social links", "admin documents", "admin credentials", "admin requests",
     "accountant credentials", "client"}

LEMMA ListPagesArePlain ==
    ASSUME NEW p \in ListPages
    PROVE  p \in PageName /\ p \notin SpecialPages /\ p \notin RowPages \cup {"request"}
<1>1. p \in PageName
  BY DEF ListPages, PageName
<1>2. p \notin FormPages /\ p \notin BlankPages /\ p \notin RowPages \cup {"request"}
  BY DEF ListPages, FormPages, BlankPages, RowPages
<1>3. p \notin BusyPages
  <2>1. p \notin QuietPages
    BY DEF ListPages, QuietPages
  <2> QED
    BY <2>1 DEF ListPages, BusyPages, RunPages, DetailPages, SearchPages
<1>4. p \notin {"bell", "content", "consultation"}
  BY DEF ListPages
<1> QED
  BY <1>1, <1>2, <1>3, <1>4 DEF SpecialPages

LEMMA ListsOpen ==
    ASSUME \/ StaffOpen \/ TestimonialsOpen \/ ServicesOpen \/ SocialLinksOpen
           \/ TaxSystemsOpen \/ BlogOpen \/ StatisticsOpen \/ AccountantDashboardOpen
           \/ AssignedListOpen \/ AccountantConsultationsOpen \/ AdminConsultationsOpen
           \/ ClientRequestsOpen \/ ClientDashboardOpen \/ ClientCredentialsOpen
           \/ CredentialsCardOpen \/ NotificationsOpen \/ AccountantsOpen \/ SiteSocialLinksOpen
           \/ AdminDocumentsOpen \/ AdminCredentialsOpen
    PROVE  IInv
<1>1. \E p \in ListPages : ListOpens(p)
  <2>1. AdminDocumentsOpen => ListOpens("admin documents")
    BY DEF AdminDocumentsOpen, ListOpens
  <2> QED
    BY <2>1 DEF ListPages, StaffOpen, TestimonialsOpen, ServicesOpen, SocialLinksOpen, TaxSystemsOpen, BlogOpen,
       StatisticsOpen, AccountantDashboardOpen, AssignedListOpen, AccountantConsultationsOpen, AdminConsultationsOpen,
       ClientRequestsOpen, ClientDashboardOpen, ClientCredentialsOpen, CredentialsCardOpen, NotificationsOpen,
       AccountantsOpen, SiteSocialLinksOpen, AdminCredentialsOpen
<1> QED
  BY <1>1, ListPagesArePlain, ListPagesOpen

LEMMA RowsOpen ==
    ASSUME AssignedWorkOpen \/ AccountantOpen \/ BlogEditOpen
    PROVE  IInv
<1>1. \E p \in {"assigned work", "accountant", "blog edit"} : Opens(p, Busy(NothingShown, {"loading"}), First("get", FirstRow))
  BY DEF AssignedWorkOpen, RowOpens, AccountantOpen, BlogEditOpen
<1>2. \A p \in {"assigned work", "accountant", "blog edit"} : p \in PageName /\ p \notin SpecialPages
  <2>1. \A p \in {"assigned work", "accountant", "blog edit"} : p \in PageName
    BY ZenonT(30) DEF PageName
  <2>2. \A p \in {"assigned work", "accountant", "blog edit"} : p \notin FormPages /\ p \notin BlankPages
    BY DEF FormPages, BlankPages
  <2>3. \A p \in {"assigned work", "accountant", "blog edit"} : p \notin BusyPages
    <3>1. \A p \in {"assigned work", "accountant", "blog edit"} : p \notin QuietPages
      BY DEF QuietPages
    <3> QED
      BY <3>1 DEF BusyPages, RunPages, DetailPages, SearchPages
  <2>4. \A p \in {"assigned work", "accountant", "blog edit"} : p \notin {"bell", "content", "consultation"}
    OBVIOUS
  <2> QED
    BY <2>1, <2>2, <2>3, <2>4 DEF SpecialPages
<1> QED
  BY <1>1, <1>2, RowPagesOpen

\* Pages that open with a form, or with rows of their own, and ask at most once.
LEMMA EmptyIsTexted == EmptyForm \in TextedForm /\ EmptyForm.row = NONE /\ EmptyForm # NONE
<1>1. EmptyForm \in TextedForm /\ EmptyForm.row = NONE
  BY DEF EmptyForm, TextedForm, Form, Text, TextsFor
<1> QED
  BY <1>1, FormIsSome

LEMMA ShownIsFresh ==
    /\ \A f \in TextedForm : LET w == [NothingShown EXCEPT !.form = f] IN
          w \in TextedView /\ Fresh(w) /\ w.busy = {} /\ w.form = f /\ w.number = 1
    /\ \A rows \in TextedRows : LET w == [NothingShown EXCEPT !.rows = rows] IN
          w \in TextedView /\ Fresh(w) /\ w.busy = {} /\ w.form = NONE /\ w.number = 1 /\ w.rows = rows
    /\ \A r \in Row : LET w == [NothingShown EXCEPT !.section = r] IN
          w \in TextedView /\ Fresh(w) /\ w.busy = {} /\ w.form = NONE /\ w.number = 1 /\ w.section = r
    /\ \A n \in Nat : LET w == [NothingShown EXCEPT !.number = n] IN
          w \in TextedView /\ Fresh(w) /\ w.busy = {} /\ w.form = NONE /\ w.number = n
<1> DEFINE u == NothingShown
<1>1. u \in TextedView /\ u.at = NONE /\ DOMAIN u.secrets = {} /\ u.mounted = 0 /\ u.busy = {} /\ u.form = NONE /\ u.number = 1
  BY NothingIsFresh DEF Fresh
<1> HIDE DEF u
<1>2. ASSUME NEW f \in TextedForm
      PROVE  LET w == [u EXCEPT !.form = f] IN w \in TextedView /\ Fresh(w) /\ w.busy = {} /\ w.form = f /\ w.number = 1
  <2> DEFINE w == [u EXCEPT !.form = f]
  <2>1. /\ w \in TextedView /\ w.at = u.at /\ w.secrets = u.secrets /\ w.mounted = u.mounted /\ w.busy = u.busy
        /\ w.form = f /\ w.number = u.number
    BY <1>1 DEF TextedView
  <2> HIDE DEF w
  <2>2. w \in TextedView /\ Fresh(w) /\ w.busy = {} /\ w.form = f /\ w.number = 1
    BY <1>1, <2>1 DEF Fresh
  <2> QED
    BY <2>2 DEF w
<1>3. ASSUME NEW rows \in TextedRows
      PROVE  LET w == [u EXCEPT !.rows = rows] IN
             w \in TextedView /\ Fresh(w) /\ w.busy = {} /\ w.form = NONE /\ w.number = 1 /\ w.rows = rows
  <2> DEFINE w == [u EXCEPT !.rows = rows]
  <2>1. /\ w \in TextedView /\ w.at = u.at /\ w.secrets = u.secrets /\ w.mounted = u.mounted /\ w.busy = u.busy
        /\ w.form = u.form /\ w.number = u.number /\ w.rows = rows
    BY <1>1 DEF TextedView
  <2> HIDE DEF w
  <2>2. w \in TextedView /\ Fresh(w) /\ w.busy = {} /\ w.form = NONE /\ w.number = 1 /\ w.rows = rows
    BY <1>1, <2>1 DEF Fresh
  <2> QED
    BY <2>2 DEF w
<1>4. ASSUME NEW r \in Row
      PROVE  LET w == [u EXCEPT !.section = r] IN
             w \in TextedView /\ Fresh(w) /\ w.busy = {} /\ w.form = NONE /\ w.number = 1 /\ w.section = r
  <2> DEFINE w == [u EXCEPT !.section = r]
  <2>1. /\ w \in TextedView /\ w.at = u.at /\ w.secrets = u.secrets /\ w.mounted = u.mounted /\ w.busy = u.busy
        /\ w.form = u.form /\ w.number = u.number /\ w.section = r
    BY <1>1 DEF TextedView
  <2> HIDE DEF w
  <2>2. w \in TextedView /\ Fresh(w) /\ w.busy = {} /\ w.form = NONE /\ w.number = 1 /\ w.section = r
    BY <1>1, <2>1 DEF Fresh
  <2> QED
    BY <2>2 DEF w
<1>5. ASSUME NEW n \in Nat
      PROVE  LET w == [u EXCEPT !.number = n] IN
             w \in TextedView /\ Fresh(w) /\ w.busy = {} /\ w.form = NONE /\ w.number = n
  <2> DEFINE w == [u EXCEPT !.number = n]
  <2>1. /\ w \in TextedView /\ w.at = u.at /\ w.secrets = u.secrets /\ w.mounted = u.mounted /\ w.busy = u.busy
        /\ w.form = u.form /\ w.number = n
    BY <1>1 DEF TextedView
  <2> HIDE DEF w
  <2>2. w \in TextedView /\ Fresh(w) /\ w.busy = {} /\ w.form = NONE /\ w.number = n
    BY <1>1, <2>1 DEF Fresh
  <2> QED
    BY <2>2 DEF w
<1> QED
  BY <1>2, <1>3, <1>4, <1>5 DEF u

\* Forms that load nothing, or nothing they wait for.
LEMMA FormsOpen ==
    ASSUME \/ RequestServiceOpen \/ BookConsultationOpen \/ RegisterOpen \/ LinkRequestOpen \/ AccountantFormOpen
           \/ BlogCreateOpen \/ ContactOpen
    PROVE  IInv
<1> DEFINE v == [NothingShown EXCEPT !.form = EmptyForm]
           Forms == {"request service", "book consultation", "register", "link request", "accountant form", "blog create"}
           a == First("list", NONE)
<1>1. v \in TextedView /\ Fresh(v) /\ v.busy = {} /\ v.form = EmptyForm /\ v.number = 1
  BY EmptyIsTexted, ShownIsFresh
<1>2. (\E p \in Forms : OpensAsking(p, v, {})) \/ OpensAsking("contact", v, {a})
  BY DEF RequestServiceOpen, BookConsultationOpen, RegisterOpen, LinkRequestOpen, AccountantFormOpen, BlogCreateOpen,
         ContactOpen, Opens
<1>3. ASSUME NEW p \in Forms \cup {"contact"}
      PROVE  /\ p \in PageName /\ p \notin RunPages /\ p \notin RowPages \ {"blog create"} /\ p # "request"
             /\ p \notin DetailPages /\ p \notin SearchPages
             /\ p \notin {"profile", "consultation", "content", "admin dashboard"}
  <2>1. p \in PageName
    BY DEF PageName
  <2>2. p \notin RunPages /\ p \notin DetailPages /\ p \notin SearchPages
    BY DEF RunPages, DetailPages, SearchPages
  <2>3. p \notin RowPages \ {"blog create"} /\ p # "request"
    BY DEF RowPages
  <2>4. p \notin {"profile", "consultation", "content", "admin dashboard"}
    OBVIOUS
  <2> HIDE DEF Forms
  <2> QED
    BY <2>1, <2>2, <2>3, <2>4
<1>4. a.op = "load" /\ a.life = 0 /\ a \in AskOn("contact")
  BY FirstListFits DEF RowPages
<1> HIDE DEF v, Forms, a
<1>5. ASSUME NEW p \in Forms \cup {"contact"} PROVE v \in ViewOn(p)
  BY <1>1, <1>3, <1>5, EmptyIsTexted DEF ViewOn
<1>6. ASSUME NEW p \in Forms \cup {"contact"}, NEW qs \in SUBSET AskOn(p), IsFiniteSet(qs), OpensAsking(p, v, qs),
             \A q \in qs : q.life = 0
      PROVE  IInv
  BY <1>1, <1>3, <1>5, <1>6, RunsFree, OpenedFits
<1>7. IsFiniteSet({}) /\ IsFiniteSet({a})
  BY FS_EmptySet, FS_Singleton
<1> QED
  BY <1>2, <1>4, <1>6, <1>7

\* What the site shows before its lists come.
LEMMA SitesOpen ==
    ASSUME \/ SiteServicesOpen \/ ServicePreviewOpen \/ SiteStaffOpen
           \/ StaffPreviewOpen \/ SiteBlogOpen \/ BlogPreviewOpen \/ FloatingStatsOpen
           \/ SiteTestimonialsOpen \/ FooterOpen \/ AboutOpen \/ HeroOpen
    PROVE  IInv
<1> DEFINE v == [NothingShown EXCEPT !.rows = BuiltIn]
           Sites == {"site services", "service preview", "site staff", "staff preview", "site blog", "blog preview",
                     "floating stats", "site testimonials", "footer", "about", "hero"}
           a == First("list", NONE)
<1>1. v \in TextedView /\ Fresh(v) /\ v.busy = {} /\ v.form = NONE /\ v.number = 1
  BY BuiltInTexted, ShownIsFresh
<1>2. \E p \in Sites : OpensAsking(p, v, {a})
  BY DEF SiteServicesOpen, ServicePreviewOpen, SiteStaffOpen, StaffPreviewOpen, SiteBlogOpen, BlogPreviewOpen,
         FloatingStatsOpen, SiteTestimonialsOpen, FooterOpen, AboutOpen, HeroOpen, Opens, Site
<1>3. ASSUME NEW p \in Sites
      PROVE  /\ p \in PageName /\ p \notin RunPages /\ p \notin RowPages /\ p # "request"
             /\ p \notin DetailPages /\ p \notin SearchPages /\ p \notin FormPages /\ p \notin BlankPages
             /\ p \notin {"profile", "consultation", "content", "admin dashboard"}
  <2>1. p \in PageName
    BY DEF PageName
  <2>2. p \notin RunPages /\ p \notin DetailPages /\ p \notin SearchPages
    BY DEF RunPages, DetailPages, SearchPages
  <2>3. p \notin RowPages /\ p # "request" /\ p \notin FormPages /\ p \notin BlankPages
    BY DEF RowPages, FormPages, BlankPages
  <2>4. p \notin {"profile", "consultation", "content", "admin dashboard"}
    OBVIOUS
  <2> HIDE DEF Sites
  <2> QED
    BY <2>1, <2>2, <2>3, <2>4
<1>4. ASSUME NEW p \in Sites PROVE a.op = "load" /\ a.life = 0 /\ a \in AskOn(p)
  BY <1>3, FirstListFits
<1> HIDE DEF v, Sites, a
<1>5. ASSUME NEW p \in Sites PROVE v \in ViewOn(p)
  BY <1>1, <1>3 DEF ViewOn
<1>6. IsFiniteSet({a})
  BY FS_Singleton
<1>7. PICK p \in Sites : OpensAsking(p, v, {a})
  BY <1>2
<1>8. {a} \in SUBSET AskOn(p) /\ \A q \in {a} : q.life = 0
  BY <1>4
<1> QED
  BY <1>1, <1>3, <1>5, <1>6, <1>7, <1>8, RunsFree, OpenedFits

\* The pages of one row, whose address may change.
LEMMA ItemsOpen ==
    ASSUME ServiceDetailOpen \/ StaffDetailOpen \/ BlogDetailOpen \/ ClientRequestOpen
    PROVE  IInv
<1> DEFINE a == First("get", FirstRow)
<1>1. PICK p \in DetailPages, rows \in TextedRows : OpensAsking(p, Item(FirstRow, rows), {a})
  <2>1. BuiltInFor[FirstRow] \in TextedRows /\ NoneBuiltIn[FirstRow] \in TextedRows
    BY BuiltInsTexted, NoneIsNoRow
  <2> QED
    BY <2>1 DEF ServiceDetailOpen, StaffDetailOpen, BlogDetailOpen, ClientRequestOpen, ItemOpens, Opens, DetailPages
<1> DEFINE v == Item(FirstRow, rows)
<1>2. /\ v \in TextedView /\ v.busy = {"loading"} /\ v.at = NONE /\ DOMAIN v.secrets = {} /\ v.number = 1
      /\ v.section = FirstRow /\ v.mounted = 0
  BY NoneIsNoRow, ItemFacts
<1>3. OpensAsking(p, v, {a})
  BY <1>1
<1>4. a \in AskOn(p) /\ a.op = "load" /\ a.life = 0 /\ a.verb = "get" /\ a.row = FirstRow
  BY FirstGetFits
<1> HIDE DEF v, a
<1>5. page = p
  BY <1>3 DEF OpensAsking
<1>6. v \in ViewOn(p)
  BY <1>2, <1>5, DetailView, NoneIsNoRow
<1>7. RunsFit(p, v, {a})
  <2>1. \A q \in {a} : q.life <= v.mounted /\ q.verb = "get" /\ (q.life = v.mounted => q.row = v.section)
    BY <1>2, <1>4
  <2> QED
    BY <1>5, <2>1, DetailFits
<1>8. {a} \in SUBSET AskOn(p) /\ IsFiniteSet({a}) /\ (\A q \in {a} : q.life = 0) /\ p \in PageName
  BY <1>4, FS_Singleton DEF PageName, DetailPages
<1>9. Fresh(v) /\ "uploading" \notin v.busy /\ \A f \in v.busy \ {"timer"} : \E q \in {a} : q.op \in Holders(p, f)
  BY <1>2, <1>4 DEF Fresh, Holders, Loads
<1> QED
  BY <1>3, <1>6, <1>7, <1>8, <1>9, OpenedFits

\* Pages that ask for more than one thing, or have a timer set, at first.
LEMMA OthersOpen ==
    ASSUME AdminRequestsOpen \/ AccountantCredentialsOpen \/ ClientOpen
    PROVE  IInv
<1>1. \A p \in {"admin requests", "accountant credentials", "client"} :
         p \in PageName /\ p \notin SpecialPages /\ p \notin RowPages \cup {"request"}
  <2>1. {"admin requests", "accountant credentials", "client"} \subseteq ListPages
    BY DEF ListPages
  <2> QED
    BY <2>1, ListPagesArePlain
<1> DEFINE a == First("list", NONE)
           g == First("get", FirstRow)
           c == [First("list", NONE) EXCEPT !.op = "clients"]
           r == [First("list", NONE) EXCEPT !.op = "requests"]
<1>2. /\ a \in AskOn("admin requests") /\ a.op = "load" /\ a.life = 0
      /\ g \in AskOn("client") /\ g.op = "load" /\ g.life = 0
  BY <1>1, FirstListFits, FirstGetFits
<1>3. /\ c \in AskOn("accountant credentials") /\ c.op = "clients" /\ c.life = 0
      /\ r \in AskOn("client") /\ r.op = "requests" /\ r.life = 0
  <2>1. "clients" \in Reads /\ "clients" # "reveal" /\ "requests" \in Reads /\ "requests" # "reveal"
    BY DEF Reads
  <2> QED
    BY <1>1, <2>1, FirstFits
<1>4. CASE AdminRequestsOpen
  <2> DEFINE S == {"loading", "timer"}
             qs == {a}
  <2>1. OpensAsking("admin requests", Busy(NothingShown, S), qs)
    BY <1>4 DEF AdminRequestsOpen, Opens
  <2> HIDE DEF a
  <2>2. /\ S \in SUBSET {"loading", "timer", "requests", "clients"} /\ qs \in SUBSET AskOn("admin requests")
        /\ IsFiniteSet(qs) /\ \A q \in qs : q.life = 0
    BY <1>2, FS_Singleton
  <2>3. \A f \in S \ {"timer"} : \E q \in qs : q.op \in Holders("admin requests", f)
    BY <1>2 DEF Holders, Loads
  <2> HIDE DEF S, qs
  <2> QED
    BY <1>1, <2>1, <2>2, <2>3, PlainOpens
<1>5. CASE AccountantCredentialsOpen
  <2> DEFINE S == {"clients"}
             qs == {c}
  <2>1. OpensAsking("accountant credentials", Busy(NothingShown, S), qs)
    BY <1>5 DEF AccountantCredentialsOpen, Opens
  <2> HIDE DEF c
  <2>2. /\ S \in SUBSET {"loading", "timer", "requests", "clients"} /\ qs \in SUBSET AskOn("accountant credentials")
        /\ IsFiniteSet(qs) /\ \A q \in qs : q.life = 0
    BY <1>3, FS_Singleton
  <2>3. \A f \in S \ {"timer"} : \E q \in qs : q.op \in Holders("accountant credentials", f)
    BY <1>3 DEF Holders
  <2> HIDE DEF S, qs
  <2> QED
    BY <1>1, <2>1, <2>2, <2>3, PlainOpens
<1>6. CASE ClientOpen
  <2> DEFINE S == {"loading", "requests"}
             qs == {g, r}
  <2>1. OpensAsking("client", Busy(NothingShown, S), qs)
    BY <1>6 DEF ClientOpen
  <2> HIDE DEF g, r
  <2>2. IsFiniteSet(qs)
    <3>1. IsFiniteSet({g} \cup {r})
      BY FS_Singleton, FS_Union
    <3>2. qs = {g} \cup {r}
      OBVIOUS
    <3> QED
      BY <3>1, <3>2
  <2>3. /\ S \in SUBSET {"loading", "timer", "requests", "clients"} /\ qs \in SUBSET AskOn("client")
        /\ \A q \in qs : q.life = 0
    BY <1>2, <1>3
  <2>4. \A f \in S \ {"timer"} : \E q \in qs : q.op \in Holders("client", f)
    BY <1>2, <1>3 DEF Holders, Loads
  <2> HIDE DEF S, qs
  <2> QED
    BY <1>1, <2>1, <2>2, <2>3, <2>4, PlainOpens
<1> QED
  BY <1>4, <1>5, <1>6

\* Pages with rules of their own, by the view they begin with.
LEMMA LoadingView ==
    ASSUME NEW u \in TextedView, Fresh(u), u.busy = {}
    PROVE  LET w == Busy(u, {"loading"}) IN
           /\ w \in TextedView /\ Fresh(w) /\ w.busy = {"loading"} /\ w.form = u.form /\ w.number = u.number
           /\ w.section = u.section /\ w.rows = u.rows /\ w.asked = u.asked
<1> DEFINE S == {"loading"}
           w == Busy(u, S)
<1>1. S \in SUBSET Flag /\ u.busy \cup S = {"loading"}
  BY DEF Flag
<1>2. /\ w \in TextedView /\ Fresh(w) /\ w.busy = u.busy \cup S /\ w.form = u.form /\ w.number = u.number
      /\ w.section = u.section /\ w.rows = u.rows /\ w.asked = u.asked
  <2> HIDE DEF S
  <2> QED
    BY <1>1, FreshFacts
<1> HIDE DEF w
<1>3. /\ w \in TextedView /\ Fresh(w) /\ w.busy = {"loading"} /\ w.form = u.form /\ w.number = u.number
      /\ w.section = u.section /\ w.rows = u.rows /\ w.asked = u.asked
  BY <1>1, <1>2
<1> QED
  BY <1>3 DEF w

LEMMA OneLoadOpens ==
    ASSUME NEW p \in PageName, NEW w \in ViewOn(p), Fresh(w), w.busy = {"loading"}, NEW a \in AskOn(p),
           a.op = "load", a.life = 0, RunsFit(p, w, {a}), Opens(p, w, a)
    PROVE  IInv
<1>1. {a} \in SUBSET AskOn(p) /\ IsFiniteSet({a}) /\ (\A q \in {a} : q.life = 0)
  BY FS_Singleton
<1>2. "uploading" \notin w.busy /\ \A f \in w.busy \ {"timer"} : \E q \in {a} : q.op \in Holders(p, f)
  BY DEF Holders, Loads
<1> QED
  BY <1>1, <1>2, OpenedFits DEF Opens

LEMMA CasesOpen ==
    ASSUME RequestOpen \/ ConsultationOpen
    PROVE  IInv
<1> DEFINE w == Busy(NothingShown, {"loading"})
           a == First("get", FirstRow)
<1>1. w \in TextedView /\ Fresh(w) /\ w.busy = {"loading"} /\ w.form = NONE /\ w.number = 1 /\ w.rows = Nothing
  <2> DEFINE u == NothingShown
  <2>1. u \in TextedView /\ Fresh(u) /\ u.busy = {} /\ u.form = NONE /\ u.number = 1 /\ u.rows = Nothing /\ w = Busy(u, {"loading"})
    BY NothingIsFresh
  <2> HIDE DEF u, w
  <2> QED
    BY <2>1, LoadingView
<1>2. PICK p \in {"request", "consultation"} : Opens(p, w, a)
  BY DEF RequestOpen, ConsultationOpen, RowOpens
<1>3. a \in AskOn(p) /\ a.op = "load" /\ a.life = 0
  BY FirstGetFits
<1> HIDE DEF w, a
<1>4. DOMAIN w.rows = {} /\ w.busy \cap CardFlags = {}
  BY <1>1, NothingTexted DEF CardFlags
<1>5. /\ p \in PageName /\ p \notin RunPages /\ p \notin QuietPages
      /\ p \notin DetailPages /\ p \notin SearchPages /\ p \notin FormPages
      /\ p \notin {"profile", "content", "admin dashboard", "bell"}
  BY DEF PageName, RunPages, DetailPages, SearchPages, FormPages, QuietPages
<1>6. w \in ViewOn(p)
  BY <1>1, <1>4, <1>5 DEF ViewOn
<1> QED
  BY <1>1, <1>2, <1>3, <1>5, <1>6, RunsFree, OneLoadOpens

LEMMA ContentOpens == ASSUME ContentOpen \/ BellOpen PROVE IInv
<1> DEFINE a == First("list", NONE)
           n == 0
<1>1. n \in Nat /\ FirstRow \in Row /\ n = 0
  BY NoneIsNoRow
<1> HIDE DEF n
<1>2. CASE ContentOpen
  <2> DEFINE p == "content"
             u == [NothingShown EXCEPT !.section = FirstRow]
             w == Busy(u, {"loading"})
  <2>1. Opens(p, w, a) /\ a \in AskOn(p) /\ a.op = "load" /\ a.life = 0
    BY <1>2, FirstListFits DEF ContentOpen, RowPages
  <2>2. u \in TextedView /\ Fresh(u) /\ u.busy = {} /\ u.form = NONE /\ u.number = 1 /\ u.section = FirstRow
    BY <1>1, ShownIsFresh
  <2> HIDE DEF u
  <2>3. w \in TextedView /\ Fresh(w) /\ w.busy = {"loading"} /\ w.form = NONE /\ w.number = 1 /\ w.section = FirstRow
    BY <2>2, LoadingView
  <2> HIDE DEF w, a
  <2>4. w \in ViewOn(p) /\ p \in PageName /\ p \notin RunPages
    BY <1>1, <2>3 DEF ViewOn, PageName, FormPages, BlankPages, QuietPages, RunPages, SearchPages, DetailPages
  <2> HIDE DEF p
  <2> QED
    BY <2>1, <2>3, <2>4, RunsFree, OneLoadOpens
<1>3. CASE BellOpen
  <2> DEFINE p == "bell"
             u == [NothingShown EXCEPT !.number = n]
             w == Busy(u, {"loading"})
  <2>1. Opens(p, w, a) /\ a \in AskOn(p) /\ a.op = "load" /\ a.life = 0
    BY <1>1, <1>3, FirstListFits DEF BellOpen, RowPages
  <2>2. u \in TextedView /\ Fresh(u) /\ u.busy = {} /\ u.form = NONE /\ u.number = n
    BY <1>1, ShownIsFresh
  <2> HIDE DEF u
  <2>3. w \in TextedView /\ Fresh(w) /\ w.busy = {"loading"} /\ w.form = NONE
    BY <2>2, LoadingView
  <2> HIDE DEF w, a
  <2>4. w \in ViewOn(p) /\ p \in PageName /\ p \notin RunPages
    BY <1>1, <2>3 DEF ViewOn, PageName, FormPages, BlankPages, QuietPages, RunPages, SearchPages, DetailPages
  <2> HIDE DEF p
  <2> QED
    BY <2>1, <2>3, <2>4, RunsFree, OneLoadOpens
<1> QED
  BY <1>2, <1>3

LEMMA FilledFormsOpen == ASSUME ProfileOpen \/ PortalDocumentsOpen PROVE IInv
<1>1. CASE ProfileOpen
  <2> DEFINE p == "profile"
             a == First("get", FirstRow)
             f == ProfileInitial("")
             u == [NothingShown EXCEPT !.form = f]
             w == Busy(u, {"loading"})
  <2>1. Opens(p, w, a) /\ a \in AskOn(p) /\ a.op = "load" /\ a.life = 0
    BY <1>1, FirstGetFits DEF ProfileOpen
  <2>2. f \in TextedForm /\ f.row = FirstRow
    BY InitialTexted
  <2> HIDE DEF f
  <2>3. u \in TextedView /\ Fresh(u) /\ u.busy = {} /\ u.form = f /\ u.number = 1
    BY <2>2, ShownIsFresh
  <2> HIDE DEF u
  <2>4. w \in TextedView /\ Fresh(w) /\ w.busy = {"loading"} /\ w.form = f /\ w.number = 1
    BY <2>3, LoadingView
  <2> HIDE DEF w, a
  <2>5. w \in ViewOn(p) /\ p \in PageName /\ p \notin RunPages
    BY <2>2, <2>4, FormIsSome DEF ViewOn, PageName, BlankPages, QuietPages, RunPages, SearchPages, DetailPages
  <2> HIDE DEF p
  <2> QED
    BY <2>1, <2>4, <2>5, RunsFree, OneLoadOpens
<1>2. CASE PortalDocumentsOpen
  <2> DEFINE p == "portal documents"
             a == First("list", NONE)
             f == EmptyForm
             u == [NothingShown EXCEPT !.form = f]
             w == Busy(u, {"loading"})
  <2>1. Opens(p, w, a) /\ a \in AskOn(p) /\ a.op = "load" /\ a.life = 0
    BY <1>2, FirstListFits DEF PortalDocumentsOpen, EmptyForm, RowPages
  <2>2. f \in TextedForm /\ f.row = NONE
    BY EmptyIsTexted
  <2> HIDE DEF f
  <2>3. u \in TextedView /\ Fresh(u) /\ u.busy = {} /\ u.form = f /\ u.number = 1
    BY <2>2, ShownIsFresh
  <2> HIDE DEF u
  <2>4. w \in TextedView /\ Fresh(w) /\ w.busy = {"loading"} /\ w.form = f /\ w.number = 1
    BY <2>3, LoadingView
  <2> HIDE DEF w, a
  <2>5. w \in ViewOn(p) /\ p \in PageName /\ p \notin RunPages
    BY <2>2, <2>4, FormIsSome DEF ViewOn, PageName, BlankPages, QuietPages, RunPages, SearchPages, DetailPages
  <2> HIDE DEF p
  <2> QED
    BY <2>1, <2>4, <2>5, RunsFree, OneLoadOpens
<1> QED
  BY <1>1, <1>2

LEMMA AdminDashboardOpens == ASSUME AdminDashboardOpen PROVE IInv
<1> DEFINE p == "admin dashboard"
           w == Busy(NothingShown, {"loading"})
           qs == DashboardAsks(First("list", NONE))
           x == [First("list", NONE) EXCEPT !.op = "stats"]
           y == [First("list", NONE) EXCEPT !.op = "load"]
           z == [First("list", NONE) EXCEPT !.op = "consultations"]
<1>1. w \in TextedView /\ Fresh(w) /\ w.busy = {"loading"} /\ w.form = NONE /\ w.number = 1 /\ w.rows = Nothing
  <2> DEFINE u == NothingShown
  <2>1. u \in TextedView /\ Fresh(u) /\ u.busy = {} /\ u.form = NONE /\ u.number = 1 /\ u.rows = Nothing /\ w = Busy(u, {"loading"})
    BY NothingIsFresh
  <2> HIDE DEF u, w
  <2> QED
    BY <2>1, LoadingView
<1>2. OpensAsking(p, w, qs)
  BY DEF AdminDashboardOpen
<1>3. qs = {x, y, z}
  BY DEF DashboardAsks
<1>4. /\ x \in AskOn(p) /\ x.life = 0 /\ y \in AskOn(p) /\ y.op = "load" /\ y.life = 0 /\ z \in AskOn(p) /\ z.life = 0
  <2>1. {"stats", "load", "consultations"} \subseteq Reads \ {"reveal"} /\ p \notin RowPages \cup {"request"}
    BY DEF Reads, RowPages
  <2> HIDE DEF p
  <2> QED
    BY <2>1, FirstFits
<1> HIDE DEF w, qs, x, y, z
<1>5. IsFiniteSet(qs)
  <2>1. IsFiniteSet({x} \cup ({y} \cup {z}))
    BY FS_Singleton, FS_Union
  <2>2. qs = {x} \cup ({y} \cup {z})
    BY <1>3
  <2> QED
    BY <2>1, <2>2
<1>6. w \in ViewOn(p) /\ p \in PageName /\ p \notin RunPages
  BY <1>1 DEF ViewOn, PageName, FormPages, BlankPages, QuietPages, RunPages, SearchPages, DetailPages, Fresh
<1>7. qs \in SUBSET AskOn(p) /\ (\A q \in qs : q.life = 0)
  BY <1>3, <1>4
<1>8. "uploading" \notin w.busy /\ \A f \in w.busy \ {"timer"} : \E q \in qs : q.op \in Holders(p, f)
  BY <1>1, <1>3, <1>4 DEF Holders, Loads
<1> HIDE DEF p
<1> QED
  BY <1>1, <1>2, <1>5, <1>6, <1>7, <1>8, RunsFree, OpenedFits

LEMMA SearchesOpen == ASSUME ClientsOpen \/ AuditLogOpen PROVE IInv
<1> DEFINE a == First("list", NONE)
<1>1. CASE AuditLogOpen
  <2> DEFINE p == "audit log"
             u == NothingShown
             w == Busy(u, {"loading"})
  <2>1. Opens(p, w, a) /\ a \in AskOn(p) /\ a.op = "load" /\ a.life = 0 /\ a.verb = "list" /\ a.query = "all"
    BY <1>1, FirstListFits DEF AuditLogOpen, ListOpens, RowPages
  <2>2. u \in TextedView /\ Fresh(u) /\ u.busy = {} /\ u.number = 1 /\ u.asked = "all"
    BY NothingIsFresh
  <2> HIDE DEF u
  <2>3. w \in TextedView /\ Fresh(w) /\ w.busy = {"loading"} /\ w.number = 1 /\ w.asked = "all"
    BY <2>2, LoadingView
  <2> HIDE DEF w, a
  <2>4. page = p /\ p \in SearchPages /\ p \in PageName
    BY <2>1 DEF Opens, OpensAsking, SearchPages, PageName
  <2> HIDE DEF p
  <2>5. w \in ViewOn(p)
    BY <2>3, <2>4, SearchView
  <2>6. RunsFit(p, w, {a})
    <3>1. \A q \in {a} : q.life <= w.mounted /\ q.verb = "list" /\ (q.life = w.mounted => q.query = w.asked)
      BY <2>1, <2>3 DEF Fresh
    <3> QED
      BY <2>4, <3>1, SearchFits
  <2> QED
    BY <2>1, <2>3, <2>4, <2>5, <2>6, OneLoadOpens
<1>2. CASE ClientsOpen
  <2> DEFINE p == "clients"
             u == NothingShown
             S == {"loading", "timer"}
             w == Busy(u, S)
  <2>1. OpensAsking(p, w, {})
    BY <1>2 DEF ClientsOpen
  <2>2. u \in TextedView /\ Fresh(u) /\ u.busy = {} /\ u.number = 1 /\ S \in SUBSET Flag
    BY NothingIsFresh DEF Flag
  <2>3. S = {"loading", "timer"}
    OBVIOUS
  <2> HIDE DEF u, S
  <2>4. w \in TextedView /\ Fresh(w) /\ w.busy = u.busy \cup S /\ w.number = u.number
    BY <2>2, FreshFacts
  <2> HIDE DEF w
  <2>5. page = p /\ p \in SearchPages /\ p \in PageName
    BY <2>1 DEF OpensAsking, SearchPages, PageName
  <2> HIDE DEF p
  <2>6. w.busy = {"loading", "timer"} /\ w.number = 1
    BY <2>2, <2>3, <2>4
  <2>7. w \in ViewOn(p)
    BY <2>4, <2>5, <2>6, SearchView
  <2>8. RunsFit(p, w, {})
    BY <2>5, SearchFits
  <2>9. /\ {} \in SUBSET AskOn(p) /\ IsFiniteSet({}) /\ "uploading" \notin w.busy
        /\ \A f \in w.busy \ {"timer"} : f = "loading" /\ "timer" \in w.busy
    BY <2>6, FS_EmptySet
  <2> QED
    BY <2>1, <2>4, <2>5, <2>7, <2>8, <2>9, OpenedFits
<1> QED
  BY <1>1, <1>2

LEMMA InitFits == Init => IInv
  BY ListsOpen, RowsOpen, FormsOpen, SitesOpen, ItemsOpen, OthersOpen, CasesOpen, ContentOpens,
     FilledFormsOpen, AdminDashboardOpens, SearchesOpen DEF Init

-----------------------------------------------------------------------------
(* The theorems. *)

LEMMA PageKeeps == ASSUME IInv, PageNext PROVE IInv' /\ Kept
<1>1. CASE \/ page = "staff" /\ StaffNext
           \/ page = "testimonials" /\ TestimonialsNext
           \/ page = "services" /\ ServicesNext
           \/ page = "social links" /\ SocialLinksNext
           \/ page = "tax systems" /\ TaxSystemsNext
           \/ page = "blog" /\ BlogNext
           \/ page = "statistics" /\ StatisticsNext
           \/ page = "content" /\ ContentNext
  BY <1>1, StaffKeeps, TestimonialsKeeps, ServicesKeeps, SocialLinksKeeps, TaxSystemsKeeps, BlogKeeps, StatisticsKeeps,
     ContentKeeps
<1>2. CASE \/ page = "assigned work" /\ AssignedWorkNext
           \/ page = "request" /\ RequestNext
           \/ page = "consultation" /\ ConsultationNext
           \/ page = "accountant dashboard" /\ AccountantDashboardNext
           \/ page = "assigned list" /\ AssignedListNext
           \/ page = "accountant consultations" /\ AccountantConsultationsNext
           \/ page = "admin consultations" /\ AdminConsultationsNext
           \/ page = "admin requests" /\ AdminRequestsNext
           \/ page = "admin dashboard" /\ AdminDashboardNext
           \/ page = "client requests" /\ ClientRequestsNext
           \/ page = "client dashboard" /\ ClientDashboardNext
  BY <1>2, AssignedWorkKeeps, RequestKeeps, ConsultationKeeps, AccountantDashboardKeeps, AssignedListKeeps,
     AccountantConsultationsKeeps, AdminConsultationsKeeps, AdminRequestsKeeps, AdminDashboardKeeps, ClientRequestsKeeps,
     ClientDashboardKeeps
<1>3. CASE \/ page = "portal documents" /\ PortalDocumentsNext
           \/ page = "admin documents" /\ AdminDocumentsNext
           \/ page = "client credentials" /\ ClientCredentialsNext
           \/ page = "admin credentials" /\ AdminCredentialsNext
           \/ page = "accountant credentials" /\ AccountantCredentialsNext
           \/ page = "credentials card" /\ CredentialsCardNext
           \/ page = "notifications" /\ NotificationsNext
           \/ page = "bell" /\ BellNext
           \/ page = "clients" /\ ClientsNext
           \/ page = "audit log" /\ AuditLogNext
           \/ page = "client" /\ ClientNext
           \/ page = "accountants" /\ AccountantsNext
           \/ page = "accountant" /\ AccountantNext
           \/ page = "accountant form" /\ AccountantFormNext
           \/ page = "blog create" /\ BlogPostNext
           \/ page = "blog edit" /\ BlogPostNext
           \/ page = "profile" /\ ProfileNext
  BY <1>3, PortalDocumentsKeeps, AdminDocumentsKeeps, ClientCredentialsKeeps, AdminCredentialsKeeps,
     AccountantCredentialsKeeps, CredentialsCardKeeps, NotificationsKeeps, BellKeeps, ClientsKeeps, AuditLogKeeps,
     ClientKeeps, AccountantsKeeps, AccountantKeeps, AccountantFormKeeps, BlogPostKeeps, ProfileKeeps
<1>4. CASE \/ page = "request service" /\ RequestServiceNext
           \/ page = "book consultation" /\ BookConsultationNext
           \/ page = "contact" /\ ContactNext
           \/ page = "register" /\ RegisterNext
           \/ page = "link request" /\ LinkRequestNext
           \/ page = "site social links" /\ SiteSocialLinksNext
           \/ page = "hero" /\ HeroNext
  BY <1>4, RequestServiceKeeps, BookConsultationKeeps, ContactKeeps, RegisterKeeps, LinkRequestKeeps,
     SiteSocialLinksKeeps, HeroKeeps
<1>5. CASE \/ page = "site services" /\ SiteServicesNext
           \/ page = "service preview" /\ ServicePreviewNext
           \/ page = "site staff" /\ SiteStaffNext
           \/ page = "staff preview" /\ StaffPreviewNext
           \/ page = "site blog" /\ SiteBlogNext
           \/ page = "blog preview" /\ BlogPreviewNext
           \/ page = "floating stats" /\ FloatingStatsNext
           \/ page = "site testimonials" /\ SiteTestimonialsNext
           \/ page = "footer" /\ FooterNext
           \/ page = "about" /\ AboutNext
  BY <1>5, SiteListsKeep
<1>6. CASE \/ page = "service detail" /\ ServiceDetailNext
           \/ page = "staff detail" /\ StaffDetailNext
           \/ page = "blog detail" /\ BlogDetailNext
           \/ page = "client request" /\ ClientRequestNext
  BY <1>6, DetailsKeep
<1> QED
  BY <1>1, <1>2, <1>3, <1>4, <1>5, <1>6 DEF PageNext

LEMMA StepKeeps == ASSUME IInv, [Next]_vars PROVE IInv' /\ Kept
<1>1. CASE Next
  BY <1>1, WorldKeeps, PageKeeps DEF Next
<1>2. CASE UNCHANGED vars
  <2>1. flight' = flight /\ page' = page /\ view' = view /\ server' = server /\ ledger' = ledger /\ clicks' = clicks
    BY <1>2 DEF vars
  <2>2. IInv'
    BY <2>1 DEF IInv, Data
  <2> QED
    BY <2>1, <2>2 DEF Kept, FailureKept
<1> QED
  BY <1>1, <1>2

LEMMA Invariant == Spec => []IInv
<1>1. IInv /\ [Next]_vars => IInv'
  BY StepKeeps
<1> QED
  BY InitFits, <1>1, PTL DEF Spec

LEMMA TextedIsTyped ==
    /\ TextedRows \subseteq Shown /\ TextedForm \subseteq Form /\ TextedSecrets \subseteq Secrets
    /\ TextedView \subseteq View /\ AskFields \subseteq Asked
<1>1. TextedRows \subseteq Shown /\ TextedForm \subseteq Form /\ TextedSecrets \subseteq Secrets
  BY DEF TextedRows, TextedForm, TextedSecrets
<1>2. TextedView \subseteq View
  BY <1>1 DEF TextedView, View
<1>3. AskFields \subseteq Asked
  BY <1>1 DEF AskFields, Asked
<1> QED
  BY <1>1, <1>2, <1>3

\* The state of every page, and every request and answer, is of the form the handlers read.
THEOREM TypeCorrect == Spec => []TypeOK
<1>1. IInv => TypeOK
  BY TextedIsTyped DEF IInv, Data, ViewOn, AskOn, TextedAsk, TypeOK
<1> QED
  BY Invariant, <1>1, PTL

\* No handler puts the text of one row into another.
THEOREM TextsStayWithTheirRows == Spec => []RowsKeepTheirText
<1>1. IInv => RowsKeepTheirText
  <2> SUFFICES ASSUME IInv PROVE RowsKeepTheirText
    OBVIOUS
  <2>1. view \in TextedView /\ \A r \in Row : server[r] \in TextsFor(r) \cup {NONE}
    BY DEF IInv, Data, ViewOn
  <2>2. /\ view.rows \in TextedRows /\ view.edits \in TextedRows /\ view.form \in TextedForm \cup {NONE}
        /\ view.secrets \in TextedSecrets
    BY <2>1 DEF TextedView
  <2> QED
    BY <2>1, <2>2 DEF RowsKeepTheirText, TextedRows, TextedForm, TextedSecrets
<1> QED
  BY Invariant, <1>1, PTL

\* Whatever the answers were and in whatever order they came: once every request is answered
\* and no timer is set, no page says any more that it is loading or saving.
THEOREM NothingHangs == Spec => []QuietWhenAnswered
<1>1. IInv => QuietWhenAnswered
  BY DEF IInv, HeldAll, QuietWhenAnswered, Has
<1> QED
  BY Invariant, <1>1, PTL

\* Where the effect cancels the run before, an answer to an earlier search, or about another row,
\* is not shown.
THEOREM OutdatedIsNotShown == Spec => []ListIsForItsQuery
<1>1. IInv => ListIsForItsQuery
  <2> SUFFICES ASSUME IInv PROVE ListIsForItsQuery
    OBVIOUS
  <2>1. view \in ViewOn(page)
    BY DEF IInv
  <2>2. page \in {"clients", "audit log"} /\ view.busy \cap {"loading", "timer"} = {}
           => DOMAIN view.rows \subseteq Found(view.asked)
    BY <2>1 DEF ViewOn, SearchPages
  <2>3. page \in {"service detail", "staff detail", "blog detail", "client request"} /\ ~Has("loading")
           => DOMAIN view.rows \subseteq {view.section}
    BY <2>1 DEF ViewOn, DetailPages, Has
  <2> QED
    BY <2>2, <2>3 DEF ListIsForItsQuery
<1> QED
  BY Invariant, <1>1, PTL

\* The step in which the failure of a write is taken leaves what the user has typed.
THEOREM FailedWritesLoseNothing == Spec => FailureKeepsTheForm
<1>1. IInv /\ [Next]_vars => [FailureKept]_vars
  BY StepKeeps DEF Kept
<1>2. [][FailureKept]_vars <=> FailureKeepsTheForm
  BY DEF FailureKept, FailureKeepsTheForm
<1> QED
  BY Invariant, <1>1, <1>2, PTL DEF Spec

=============================================================================
