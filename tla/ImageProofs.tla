----------------------------- MODULE ImageProofs -----------------------------
(* Proofs about the images of a product: for any number of files, submissions *)
(* and failed calls, whatever the second tab and the clean-up delete.         *)
EXTENDS ProductImages, TLAPS, FiniteSetTheorems

Uploading == {"intent", "insert", "upload", "complete", "remove"}

Product == [exists : BOOLEAN, active : BOOLEAN]
RowTable == [Image -> {"none", "pending", "ready", "gone"}]
FileTable == [Image -> File \cup {Gone}]
Form ==
  [page : Page, step : Step, chosen : Seq(File), sent : Nat, active : BOOLEAN,
   image : Image \cup {Gone}]
Job == [todo : SUBSET Image, at : Image \cup {Gone}, whole : BOOLEAN]

Types ==
  /\ product \in Product /\ row \in RowTable /\ file \in FileTable /\ form \in Form
  /\ job \in [Worker -> Job] /\ draft \in Image \cup {Gone}
  /\ expired \subseteq Image /\ inserting \subseteq Uploader /\ seen \subseteq Image
  /\ completed \subseteq Image /\ hidden \subseteq File /\ revived \subseteq Image
  /\ submits \in 0..MaxSubmits /\ faults \in 0..MaxFaults /\ others \in 0..MaxOther

\* A row that was completed is never made again.
RowsOnce == \A i \in completed : row[i] # "none"

\* File x became an image: made says what each row was made for, done which were completed.
Up(x, made, done) == \E i \in done : made[i] = x

\* The files the form has gone past went up.
SentUp(g, made, done) ==
  /\ g.sent <= Len(g.chosen) /\ (g.step = "idle" => g.sent = 0)
  /\ \A n \in 1..g.sent : Up(g.chosen[n], made, done)

\* The image the form is working on was made for the next file.
Working(g, r, made) ==
  /\ g.step \in Uploading => g.sent < Len(g.chosen)
  /\ g.step \in Uploading \ {"intent", "insert"} =>
       g.image \in Image /\ r[g.image] # "none" /\ made[g.image] = g.chosen[g.sent + 1]

\* While the create page uploads, the files of the hidden product are those of the form.
HiddenChosen(g, hid) ==
  g.page = "create" /\ g.step \in Uploading \cup {"show"} =>
    \A x \in hid : \E n \in 1..Len(g.chosen) : g.chosen[n] = x

\* Where the steps of a submission stand.
Paged(g) ==
  /\ g.step = "show" => g.page = "create" /\ g.sent = Len(g.chosen)
  /\ g.step = "create" => g.page = "create"
  /\ g.step = "patch" => g.page = "update"
  /\ g.page = "list" => g.step = "idle"

\* Success is reported when all files of the form went up.
SuccessTrue(g, made, done) ==
  g.page = "list" => \A n \in 1..Len(g.chosen) : Up(g.chosen[n], made, done)

FormSound(g, r, made, done, hid) ==
  /\ SentUp(g, made, done) /\ Working(g, r, made) /\ HiddenChosen(g, hid) /\ Paged(g)
  /\ SuccessTrue(g, made, done)

ImageInv ==
  /\ Types
  /\ RowsOnce
  /\ FormSound(form, row, file, completed, hidden)
  /\ HiddenUntilUploaded

-------------------------------------------------------------------------------
(* Forms.                                                                  *)

LEMMA Numbers ==
  /\ MaxImages \in Nat /\ MaxRows \in Nat /\ MaxSubmits \in Nat /\ MaxFaults \in Nat
  /\ MaxOther \in Nat /\ Gone \notin Image
BY Bounds DEF Image, Gone

\* A new form of a page with nothing chosen, for whatever the server has.
LEMMA NewFormSound ==
  ASSUME NEW p \in Page
  PROVE  /\ NewForm(p) \in Form
         /\ \A r, made, done, hid : FormSound(NewForm(p), r, made, done, hid)
<1> DEFINE g == NewForm(p)
<1>1. /\ g.page = p /\ g.step = "idle" /\ g.chosen = <<>> /\ g.sent = 0 /\ g.active = FALSE
      /\ g.image = Gone
  BY DEF NewForm
<1>2. g \in Form
  BY DEF NewForm, Form, Step
<1> HIDE DEF g
<1>3. ASSUME NEW r, NEW made, NEW done, NEW hid PROVE FormSound(g, r, made, done, hid)
  BY <1>1, <1>2, SMT
  DEF FormSound, SentUp, Working, HiddenChosen, Paged, SuccessTrue, Uploading
<1> QED
  BY <1>1, <1>2, <1>3 DEF g

\* A form that shows an error and keeps what was chosen.
LEMMA FailSound ==
  ASSUME form \in Form, form.page # "list"
  PROVE  /\ Fail \in Form
         /\ \A r, made, done, hid : FormSound(Fail, r, made, done, hid)
<1> DEFINE g == Fail
<1>1. /\ g.page = form.page /\ g.step = "idle" /\ g.chosen = form.chosen /\ g.sent = 0
      /\ g \in Form
  BY DEF Fail, Form, Step
<1>2. Len(g.chosen) \in Nat
  BY <1>1 DEF Form
<1> HIDE DEF g
<1>3. ASSUME NEW r, NEW made, NEW done, NEW hid PROVE FormSound(g, r, made, done, hid)
  BY <1>1, <1>2, SMT
  DEF FormSound, SentUp, Working, HiddenChosen, Paged, SuccessTrue, Uploading
<1> QED
  BY <1>1, <1>2, <1>3 DEF g

LEMMA UploadFailedSound ==
  ASSUME form \in Form, form.page # "list"
  PROVE  /\ UploadFailed \in Form
         /\ \A r, made, done, hid : FormSound(UploadFailed, r, made, done, hid)
BY FailSound, NewFormSound DEF UploadFailed, Page

\* The form that reports success.
LEMMA SavedSound ==
  ASSUME form \in Form, NEW r, NEW made, NEW done, NEW hid,
         \A m \in 1..Len(form.chosen) : Up(form.chosen[m], made, done)
  PROVE  Saved \in Form /\ FormSound(Saved, r, made, done, hid)
<1> DEFINE g == Saved
<1>1. /\ g.page = "list" /\ g.step = "idle" /\ g.chosen = form.chosen /\ g.sent = 0
      /\ g \in Form
  BY DEF Saved, NewForm, Form, Step, Page
<1>2. Len(form.chosen) \in Nat
  BY DEF Form
<1> HIDE DEF g
<1>3. FormSound(g, r, made, done, hid)
  BY <1>1, <1>2, SMT
  DEF FormSound, SentUp, Working, HiddenChosen, Paged, SuccessTrue, Uploading
<1> QED
  BY <1>1, <1>3 DEF g

\* What follows the first n files, all of which went up.
LEMMA UploadedSound ==
  ASSUME form \in Form, form.page # "list", NEW n \in Nat, n <= Len(form.chosen),
         NEW r, NEW made, NEW done, NEW hid,
         \A m \in 1..n : Up(form.chosen[m], made, done),
         form.page = "create" =>
           \A x \in hid : \E m \in 1..Len(form.chosen) : form.chosen[m] = x
  PROVE  Uploaded(n) \in Form /\ FormSound(Uploaded(n), r, made, done, hid)
<1>0. Len(form.chosen) \in Nat
  BY DEF Form
<1>1. CASE n < Len(form.chosen)
  <2> DEFINE g == [form EXCEPT !.sent = n, !.step = "intent", !.image = Gone]
  <2>1. /\ g.page = form.page /\ g.step = "intent" /\ g.chosen = form.chosen /\ g.sent = n
        /\ g \in Form
    BY DEF Form, Step
  <2>2. Uploaded(n) = g
    BY <1>1 DEF Uploaded
  <2> HIDE DEF g
  <2> QED
    BY <1>0, <1>1, <2>1, <2>2
    DEF FormSound, SentUp, Working, HiddenChosen, Paged, SuccessTrue, Uploading
<1>2. CASE n = Len(form.chosen) /\ form.page = "create" /\ n > 0
  <2> DEFINE g == [form EXCEPT !.sent = n, !.step = "show", !.image = Gone]
  <2>1. /\ g.page = form.page /\ g.step = "show" /\ g.chosen = form.chosen /\ g.sent = n
        /\ g \in Form
    BY DEF Form, Step
  <2>2. Uploaded(n) = g
    BY <1>0, <1>2 DEF Uploaded
  <2> HIDE DEF g
  <2> QED
    BY <1>0, <1>2, <2>1, <2>2
    DEF FormSound, SentUp, Working, HiddenChosen, Paged, SuccessTrue, Uploading
<1>3. CASE n = Len(form.chosen) /\ ~(form.page = "create" /\ n > 0)
  <2>1. Uploaded(n) = Saved
    BY <1>0, <1>3 DEF Uploaded
  <2> QED
    BY <1>3, <2>1, SavedSound
<1> QED
  BY <1>0, <1>1, <1>2, <1>3

\* The form stays sound while the server goes on: images that were completed stay so, rows
\* are not taken back and keep the file they were made for.
LEMMA FormKept ==
  ASSUME NEW g \in Form, NEW r, NEW made, NEW done, NEW r2, NEW made2, NEW done2, NEW hid,
         FormSound(g, r, made, done, hid),
         \A i \in Image : r[i] # "none" => r2[i] # "none" /\ made2[i] = made[i],
         done \subseteq done2, done \subseteq Image, \A i \in done : r[i] # "none"
  PROVE  FormSound(g, r2, made2, done2, hid)
<1>1. \A x : Up(x, made, done) => Up(x, made2, done2)
  BY DEF Up
<1> QED
  BY <1>1 DEF FormSound, SentUp, Working, HiddenChosen, Paged, SuccessTrue

-------------------------------------------------------------------------------
(* Steps that leave the form alone.                                        *)

\* Rows are not taken back, and keep the file they were made for.
RowsKept ==
  /\ \A i \in Image : row[i] # "none" => row'[i] # "none" /\ file'[i] = file[i]
  /\ completed \subseteq completed'

LEMMA HiddenUp == HiddenUntilUploaded <=> (product.active => \A x \in hidden : Up(x, file, completed))
BY DEF HiddenUntilUploaded, Up

LEMMA ServerStep ==
  ASSUME ImageInv, Types', RowsKept, UNCHANGED <<form, completed, hidden>>,
         product'.active => product.active
  PROVE  ImageInv'
<1>1. FormSound(form, row', file', completed, hidden)
  BY FormKept DEF ImageInv, Types, RowsOnce, RowsKept
<1>2. RowsOnce'
  BY DEF ImageInv, Types, RowsOnce, RowsKept
<1>3. HiddenUntilUploaded'
  BY DEF ImageInv, Types, RowsOnce, RowsKept, HiddenUntilUploaded
<1> QED
  BY <1>1, <1>2, <1>3 DEF ImageInv

\* Steps of the second tab, the clean-up and time that only read.
LEMMA QuietStep ==
  ASSUME ImageInv, UNCHANGED <<product, row, file, form, history>>, Types'
  PROVE  ImageInv'
BY ServerStep DEF RowsKept, history

LEMMA IdleJob == Idle \in Job
BY DEF Idle, Job

LEMMA OthersRead ==
  ASSUME ImageInv,
         \/ DeleteInTab \/ CleanupCommand \/ ReadForAltText \/ UseProduct \/ IntentInTab
         \/ \E w \in Worker : Destroy(w) \/ DestroyFails(w)
         \/ \E i \in Image : Expire(i)
  PROVE  ImageInv'
<1>0. Types /\ Rows \subseteq Image /\ Ready \subseteq Rows
  BY DEF ImageInv, Rows, Ready, Exists
<1>1. CASE DeleteInTab
  <2>1. \E j \in Job : job' = [job EXCEPT !["tab"] = j]
    <3>1. CASE \E i \in Ready : job' = [job EXCEPT !["tab"].todo = {i}]
      <4>1. PICK i \in Ready : job' = [job EXCEPT !["tab"].todo = {i}]
        BY <3>1
      <4>2. [job["tab"] EXCEPT !.todo = {i}] \in Job
        BY <1>0, <4>1 DEF Types, Job, Worker
      <4> QED
        BY <1>0, <4>1, <4>2 DEF Types
    <3>2. CASE job' = [job EXCEPT !["tab"] = [Idle EXCEPT !.todo = Rows, !.whole = TRUE]]
      <4>1. [Idle EXCEPT !.todo = Rows, !.whole = TRUE] \in Job
        BY <1>0 DEF Idle, Job
      <4> QED
        BY <3>2, <4>1
    <3> QED
      BY <1>1, <3>1, <3>2 DEF DeleteInTab
  <2>2. job' \in [Worker -> Job]
    BY <1>0, <2>1 DEF Types
  <2>3. others < MaxOther /\ others' = others + 1
    BY <1>1 DEF DeleteInTab
  <2>4. others' \in 0..MaxOther
    BY <1>0, <2>3, Numbers DEF Types
  <2> QED
    BY <1>0, <1>1, <2>2, <2>4, QuietStep DEF Types, DeleteInTab, server, history
<1>2. CASE CleanupCommand
  <2>1. [job["cleanup"] EXCEPT !.todo = Stale] \in Job
    BY <1>0 DEF Types, Job, Worker, Stale
  <2>2. job' \in [Worker -> Job]
    BY <1>0, <1>2, <2>1 DEF Types, CleanupCommand
  <2> QED
    BY <1>0, <1>2, <2>2, QuietStep DEF Types, CleanupCommand, server, history, bounds
<1>3. CASE ReadForAltText
  BY <1>0, <1>3, QuietStep, Numbers DEF Types, ReadForAltText, server, history
<1>4. CASE UseProduct
  BY <1>0, <1>4, QuietStep DEF Types, UseProduct, server, history, bounds
<1>5. ASSUME NEW w \in Worker, Destroy(w) PROVE ImageInv'
  <2>1. PICK i \in job[w].todo : job' = [job EXCEPT ![w].todo = @ \ {i}, ![w].at = i]
    BY <1>5 DEF Destroy
  <2>2. [job[w] EXCEPT !.todo = @ \ {i}, !.at = i] \in Job
    BY <1>0 DEF Types, Job
  <2>3. job' \in [Worker -> Job]
    BY <1>0, <2>1, <2>2 DEF Types
  <2> QED
    BY <1>0, <1>5, <2>3, QuietStep DEF Types, Destroy, history, bounds
<1>6. ASSUME NEW w \in Worker, DestroyFails(w) PROVE ImageInv'
  <2>1. job' \in [Worker -> Job] /\ faults' \in 0..MaxFaults
    BY <1>0, <1>6, IdleJob, Numbers DEF Types, DestroyFails, Failure
  <2> QED
    BY <1>0, <1>6, <2>1, QuietStep DEF Types, DestroyFails, server, history
<1>7. ASSUME NEW i \in Image, Expire(i) PROVE ImageInv'
  BY <1>0, <1>7, QuietStep DEF Types, Expire, history, bounds
<1>8. CASE IntentInTab
  BY <1>0, <1>8, QuietStep, Numbers
  DEF Types, IntentInTab, CountImages, Uploader, server, history
<1> QED
  BY <1>1, <1>2, <1>3, <1>4, <1>5, <1>6, <1>7, <1>8

LEMMA OthersWrite ==
  ASSUME ImageInv,
         \/ DeleteProduct \/ SaveAltText \/ InsertInTab
         \/ \E w \in Worker : DeleteRow(w)
         \/ \E i \in Image : CompleteInTab(i)
  PROVE  ImageInv'
<1>0. Types
  BY DEF ImageInv
<1>1. CASE DeleteProduct
  <2>1. Absent \in Product /\ Absent.active = FALSE
    BY DEF Absent, Product
  <2>2. row' \in RowTable /\ \A i \in Image : row[i] # "none" => row'[i] # "none"
    BY <1>0, <1>1 DEF Types, DeleteProduct, RowTable
  <2>3. job' \in [Worker -> Job]
    BY <1>0, <1>1, IdleJob DEF Types, DeleteProduct
  <2>4. Types'
    BY <1>0, <1>1, <2>1, <2>2, <2>3 DEF Types, DeleteProduct, history, bounds
  <2> QED
    BY <1>1, <2>1, <2>2, <2>4, ServerStep DEF RowsKept, DeleteProduct, history
<1>2. CASE SaveAltText
  <2>1. row' \in RowTable /\ \A i \in Image : row[i] # "none" => row'[i] # "none"
    BY <1>0, <1>2 DEF Types, SaveAltText, RowTable
  <2>2. revived' \subseteq Image
    BY <1>0, <1>2 DEF Types, SaveAltText, Gone
  <2>3. Types'
    BY <1>0, <1>2, <2>1, <2>2 DEF Types, SaveAltText, bounds
  <2> QED
    BY <1>2, <2>1, <2>3, ServerStep DEF RowsKept, SaveAltText
<1>3. ASSUME NEW w \in Worker, DeleteRow(w) PROVE ImageInv'
  <2>1. row' \in RowTable /\ \A i \in Image : row[i] # "none" => row'[i] # "none"
    BY <1>0, <1>3 DEF Types, DeleteRow, RowTable, Job
  <2>2. [job[w] EXCEPT !.at = Gone] \in Job
    BY <1>0 DEF Types, Job
  <2>3. job' \in [Worker -> Job]
    BY <1>0, <1>3, <2>2, IdleJob DEF Types, DeleteRow
  <2>4. Types'
    BY <1>0, <1>3, <2>1, <2>3 DEF Types, DeleteRow, history, bounds
  <2> QED
    BY <1>3, <2>1, <2>4, ServerStep DEF RowsKept, DeleteRow, history
<1>4. CASE InsertInTab
  <2>1. PICK i \in Image : InsertImage(i, Gone)
    BY <1>4 DEF InsertInTab
  <2>2. row' \in RowTable /\ file' \in FileTable
    BY <1>0, <2>1 DEF Types, InsertImage, RowTable, FileTable
  <2>3. \A j \in Image : row[j] # "none" => row'[j] # "none" /\ file'[j] = file[j]
    BY <1>0, <2>1 DEF Types, InsertImage, RowTable, FileTable
  <2>4. Types'
    BY <1>0, <1>4, <2>1, <2>2 DEF Types, InsertInTab, InsertImage, history, bounds
  <2> QED
    BY <1>4, <2>1, <2>3, <2>4, ServerStep DEF RowsKept, InsertInTab, InsertImage, history
<1>5. ASSUME NEW i \in Image, CompleteInTab(i) PROVE ImageInv'
  <2>1. row' \in RowTable /\ \A j \in Image : row[j] # "none" => row'[j] # "none"
    BY <1>0, <1>5 DEF Types, CompleteInTab, RowTable
  <2>2. Types'
    BY <1>0, <1>5, <2>1 DEF Types, CompleteInTab, history, bounds
  <2> QED
    BY <1>5, <2>1, <2>2, ServerStep DEF RowsKept, CompleteInTab, history
<1> QED
  BY <1>1, <1>2, <1>3, <1>4, <1>5

-------------------------------------------------------------------------------
(* Steps of the owner at the form.                                         *)

\* A step that changes nothing but the form.
LEMMA FormStep ==
  ASSUME ImageInv, UNCHANGED <<server, seen, job, draft, history, others>>, form' \in Form,
         inserting' \subseteq Uploader,
         FormSound(form', row, file, completed, hidden),
         submits' \in 0..MaxSubmits, faults' \in 0..MaxFaults
  PROVE  ImageInv'
<1>1. Types'
  BY DEF ImageInv, Types, server, history
<1>2. RowsOnce' /\ HiddenUntilUploaded'
  BY DEF ImageInv, RowsOnce, HiddenUntilUploaded, server, history
<1>3. FormSound(form', row', file', completed', hidden')
  BY DEF server, history
<1> QED
  BY <1>1, <1>2, <1>3 DEF ImageInv

\* An idle form of a page that is no longer the list is sound whatever it has chosen.
LEMMA IdleFormSound ==
  ASSUME NEW g \in Form, g.step \in {"idle", "create", "patch"}, g.sent = 0, g.page # "list",
         g.step = "create" => g.page = "create", g.step = "patch" => g.page = "update",
         NEW r, NEW made, NEW done, NEW hid
  PROVE  FormSound(g, r, made, done, hid)
<1>1. Len(g.chosen) \in Nat
  BY DEF Form
<1> QED
  BY <1>1 DEF FormSound, SentUp, Working, HiddenChosen, Paged, SuccessTrue, Uploading

LEMMA OwnerInv ==
  ASSUME ImageInv,
         \/ \E n \in 1..Len(form.chosen) : RemoveSelected(n)
         \/ \E f \in File : SelectImages(f)
         \/ \E a \in BOOLEAN : Submit(a)
  PROVE  ImageInv'
<1>0. /\ Types /\ form \in Form /\ Len(form.chosen) \in Nat
      /\ form.step = "idle" => form.sent = 0
  BY DEF ImageInv, Types, Form, FormSound, SentUp, Paged
<1>1. ASSUME NEW n \in 1..Len(form.chosen), RemoveSelected(n) PROVE ImageInv'
  <2> DEFINE rest == SubSeq(form.chosen, 1, n - 1) \o SubSeq(form.chosen, n + 1, Len(form.chosen))
             g == [form EXCEPT !.chosen = rest]
  <2>1. form' = g /\ form.step = "idle" /\ form.page # "list"
    BY <1>1 DEF RemoveSelected, IsBusy
  <2>2. rest \in Seq(File)
    BY <1>0 DEF Form
  <2>3. g \in Form /\ g.step = "idle" /\ g.sent = 0 /\ g.page # "list"
    BY <1>0, <2>1, <2>2 DEF Form
  <2> HIDE DEF g
  <2>4. FormSound(g, row, file, completed, hidden)
    BY <2>3, IdleFormSound
  <2> QED
    BY <1>0, <1>1, <2>1, <2>3, <2>4, FormStep DEF RemoveSelected, bounds, Types
<1>2. ASSUME NEW f \in File, SelectImages(f) PROVE ImageInv'
  <2> DEFINE g == [form EXCEPT !.chosen = Append(@, f)]
  <2>1. form' = g /\ form.step = "idle" /\ form.page # "list"
    BY <1>2 DEF SelectImages, IsBusy
  <2>2. Append(form.chosen, f) \in Seq(File)
    BY <1>0, <1>2 DEF Form
  <2>3. g \in Form /\ g.step = "idle" /\ g.sent = 0 /\ g.page # "list"
    BY <1>0, <2>1, <2>2 DEF Form
  <2> HIDE DEF g
  <2>4. FormSound(g, row, file, completed, hidden)
    BY <2>3, IdleFormSound
  <2> QED
    BY <1>0, <1>2, <2>1, <2>3, <2>4, FormStep DEF SelectImages, bounds, Types
<1>3. ASSUME NEW a \in BOOLEAN, Submit(a) PROVE ImageInv'
  <2> DEFINE g == [form EXCEPT !.step = IF form.page = "create" THEN "create" ELSE "patch",
                               !.active = a, !.sent = 0]
  <2>1. form' = g /\ form.page # "list"
    BY <1>3 DEF Submit
  <2>2. /\ g \in Form /\ g.step \in {"create", "patch"} /\ g.sent = 0 /\ g.page = form.page
        /\ g.step = "create" => g.page = "create"
        /\ g.step = "patch" => g.page = "update"
    BY <1>0, <2>1 DEF Form, Step, Page
  <2> HIDE DEF g
  <2>3. FormSound(g, row, file, completed, hidden)
    BY <2>1, <2>2, IdleFormSound
  <2>4. submits < MaxSubmits /\ submits' = submits + 1
    BY <1>3 DEF Submit
  <2>5. submits' \in 0..MaxSubmits
    BY <1>0, <2>4, Numbers DEF Types
  <2> QED
    BY <1>0, <1>3, <2>1, <2>2, <2>3, <2>5, FormStep DEF Submit, Types
<1> QED
  BY <1>1, <1>2, <1>3

-------------------------------------------------------------------------------
(* Calls of the form.                                                      *)

LEMMA FaultsTyped ==
  ASSUME Types, UNCHANGED faults \/ Failure
  PROVE  faults' \in 0..MaxFaults
BY Numbers DEF Types, Failure

\* A call that was refused or never served.
LEMMA NotServed ==
  ASSUME ImageInv, Unchanged, UNCHANGED <<server, history>>, UNCHANGED faults \/ Failure,
         form' \in Form, FormSound(form', row, file, completed, hidden)
  PROVE  ImageInv'
BY FaultsTyped, FormStep DEF ImageInv, Unchanged, Types

\* A call about images that was served.
LEMMA Served ==
  ASSUME ImageInv, Types', RowsKept, RowsOnce', UNCHANGED <<product, hidden>>,
         FormSound(form', row', file', completed', hidden')
  PROVE  ImageInv'
<1>1. HiddenUntilUploaded'
  BY DEF ImageInv, Types, RowsOnce, RowsKept, HiddenUntilUploaded
<1> QED
  BY <1>1 DEF ImageInv

\* What is known of the form while it waits for a call.
LEMMA Waiting ==
  ASSUME ImageInv, form.step # "idle"
  PROVE  /\ Types /\ form \in Form /\ form.page # "list"
         /\ Len(form.chosen) \in Nat /\ form.sent \in Nat
BY DEF ImageInv, FormSound, Paged, Types, Form

LEMMA CreateProductInv == ASSUME ImageInv, CreateProduct PROVE ImageInv'
<1>0. /\ form.step = "create" /\ Unchanged /\ Types /\ form \in Form /\ form.page # "list"
      /\ Len(form.chosen) \in Nat
  BY Waiting DEF CreateProduct
<1> DEFINE effect ==
             /\ product' = [exists |-> TRUE, active |-> Visible(form.active)]
             /\ hidden' = Chosen
             /\ UNCHANGED <<row, file, expired, completed, revived>>
<1>1. CASE form' = Fail /\ UNCHANGED <<server, history>> /\ (UNCHANGED faults \/ Failure)
  BY <1>0, <1>1, FailSound, NotServed
<1>2. CASE effect /\ (UNCHANGED faults \/ Failure) /\ form' \in {Uploaded(0), Fail}
  <2>1. \A x \in Chosen : \E m \in 1..Len(form.chosen) : form.chosen[m] = x
    BY DEF Chosen
  <2>2. Chosen \subseteq File
    BY <1>0 DEF Chosen, Form
  <2>3. form' \in Form /\ FormSound(form', row, file, completed, Chosen)
    BY <1>0, <1>2, <2>1, FailSound, UploadedSound
  <2>4. product' \in Product /\ (product'.active => Chosen = {})
    <3>1. form.chosen = <<>> => Chosen = {}
      BY DEF Chosen
    <3> QED
      BY <1>0, <1>2, <3>1 DEF Visible, Product, Form
  <2>5. Types'
    BY <1>0, <1>2, <2>2, <2>3, <2>4, FaultsTyped DEF Types, Unchanged
  <2>6. RowsOnce' /\ HiddenUntilUploaded'
    BY <1>2, <2>4 DEF ImageInv, RowsOnce, HiddenUntilUploaded
  <2> QED
    BY <1>2, <2>3, <2>5, <2>6 DEF ImageInv
<1> QED
  BY <1>1, <1>2 DEF CreateProduct, RefusedCall, Call

LEMMA UpdateProductInv == ASSUME ImageInv, UpdateProduct PROVE ImageInv'
<1>0. /\ form.step \in {"patch", "show"} /\ Unchanged /\ Types /\ form \in Form
      /\ form.page # "list" /\ Len(form.chosen) \in Nat
  BY Waiting DEF UpdateProduct
<1> DEFINE failed == IF form.step = "patch" THEN Fail ELSE NewForm("update")
           ok == IF form.step = "patch" THEN Uploaded(0) ELSE Saved
           effect ==
             /\ product' = [product EXCEPT !.active = form.active]
             /\ hidden' = IF form.step = "patch" THEN {} ELSE hidden
             /\ UNCHANGED <<row, file, expired, completed, revived>>
<1>1. failed \in Form /\ \A r, made, done, hid : FormSound(failed, r, made, done, hid)
  BY <1>0, FailSound, NewFormSound DEF Page
<1>2. ok \in Form /\ \A hid : FormSound(ok, row, file, completed, hid)
  <2>1. CASE form.step = "patch"
    <3>1. form.page # "create"
      BY <2>1 DEF ImageInv, FormSound, Paged
    <3>2. \A hid : Uploaded(0) \in Form /\ FormSound(Uploaded(0), row, file, completed, hid)
      BY <1>0, <3>1, UploadedSound
    <3> QED
      BY <2>1, <3>2
  <2>2. CASE form.step = "show"
    <3>1. \A m \in 1..Len(form.chosen) : Up(form.chosen[m], file, completed)
      BY <2>2 DEF ImageInv, FormSound, SentUp, Paged
    <3>2. \A hid : Saved \in Form /\ FormSound(Saved, row, file, completed, hid)
      BY <1>0, <3>1, SavedSound
    <3> QED
      BY <2>2, <3>2
  <2> QED
    BY <1>0, <2>1, <2>2
<1>3. \A x \in hidden : form.step = "show" => Up(x, file, completed)
  BY DEF ImageInv, FormSound, SentUp, Paged, HiddenChosen
<1> HIDE DEF failed, ok
<1>4. CASE form' = failed /\ UNCHANGED <<server, history>> /\ (UNCHANGED faults \/ Failure)
  BY <1>0, <1>1, <1>4, NotServed
<1>5. CASE effect /\ (UNCHANGED faults \/ Failure) /\ form' \in {ok, failed}
  <2>1. form' \in Form /\ FormSound(form', row, file, completed, hidden')
    BY <1>1, <1>2, <1>5
  <2>2. product' \in Product /\ hidden' \subseteq File
    BY <1>0, <1>5 DEF Types, Product, Form
  <2>3. Types'
    BY <1>0, <1>5, <2>1, <2>2, FaultsTyped DEF Types, Unchanged
  <2>4. RowsOnce' /\ HiddenUntilUploaded'
    BY <1>0, <1>3, <1>5 DEF ImageInv, RowsOnce, HiddenUntilUploaded, Up
  <2> QED
    BY <1>5, <2>1, <2>3, <2>4 DEF ImageInv
<1> QED
  BY <1>4, <1>5 DEF UpdateProduct, RefusedCall, Call, failed, ok

\* What the form knows while it works on an image.
LEMMA AtWork ==
  ASSUME ImageInv, form.step \in Uploading
  PROVE  /\ Types /\ form \in Form /\ form.page # "list" /\ form.sent \in Nat
         /\ Len(form.chosen) \in Nat /\ form.sent < Len(form.chosen)
         /\ \A n \in 1..form.sent : Up(form.chosen[n], file, completed)
         /\ form.page = "create" =>
              \A x \in hidden : \E n \in 1..Len(form.chosen) : form.chosen[n] = x
         /\ form.step \notin {"intent", "insert"} =>
              form.image \in Image /\ row[form.image] # "none"
              /\ file[form.image] = form.chosen[form.sent + 1]
BY Waiting DEF ImageInv, FormSound, SentUp, Working, HiddenChosen, Uploading

\* The form with the next step on an image made for the next file.
LEMMA OnImageSound ==
  ASSUME form \in Form, form.page # "list", form.sent < Len(form.chosen), NEW i \in Image,
         NEW step \in {"upload", "complete", "remove"}, NEW r, NEW made, NEW done, NEW hid,
         \A n \in 1..form.sent : Up(form.chosen[n], made, done),
         form.page = "create" =>
           \A x \in hid : \E n \in 1..Len(form.chosen) : form.chosen[n] = x,
         r[i] # "none", made[i] = form.chosen[form.sent + 1],
         NEW g, g = [form EXCEPT !.step = step, !.image = i]
  PROVE  g \in Form /\ FormSound(g, r, made, done, hid)
<1>1. /\ g \in Form /\ g.page = form.page /\ g.step = step /\ g.chosen = form.chosen
      /\ g.sent = form.sent /\ g.image = i
  BY DEF Form, Step
<1>2. form.sent \in Nat /\ Len(form.chosen) \in Nat
  BY DEF Form
<1> QED
  BY <1>1, <1>2 DEF FormSound, SentUp, Working, HiddenChosen, Paged, SuccessTrue, Uploading

LEMMA IntentInv == ASSUME ImageInv, CreateImageUploadIntent PROVE ImageInv'
<1> DEFINE g == [form EXCEPT !.step = "insert"]
<1>0. /\ form.step = "intent" /\ UNCHANGED <<server, seen, job, draft, history, submits, others>>
      /\ Types /\ form \in Form /\ form.page # "list"
      /\ form' = g \/ form' = UploadFailed
      /\ UNCHANGED faults \/ Failure
      /\ inserting' \subseteq Uploader
  BY AtWork DEF CreateImageUploadIntent, CountImages, Uploading, Uploader, Types
<1>1. g \in Form /\ FormSound(g, row, file, completed, hidden)
  <2>1. /\ g \in Form /\ g.page = form.page /\ g.step = "insert" /\ g.chosen = form.chosen
        /\ g.sent = form.sent
    BY <1>0 DEF Form, Step
  <2>2. FormSound(form, row, file, completed, hidden)
    BY DEF ImageInv
  <2> HIDE DEF g
  <2> QED
    BY <1>0, <2>1, <2>2
    DEF FormSound, SentUp, Working, HiddenChosen, Paged, SuccessTrue, Uploading
<1> HIDE DEF g
<1>2. form' \in Form /\ FormSound(form', row, file, completed, hidden)
  BY <1>0, <1>1, UploadFailedSound
<1>3. submits' \in 0..MaxSubmits /\ faults' \in 0..MaxFaults
  BY <1>0, FaultsTyped DEF Types
<1> QED
  BY <1>0, <1>2, <1>3, FormStep

LEMMA AnswerInv == ASSUME ImageInv, AnswerIntent PROVE ImageInv'
<1>0. /\ form.step = "insert" /\ Types /\ form \in Form /\ form.page # "list"
      /\ form.sent \in Nat /\ Len(form.chosen) \in Nat /\ form.sent < Len(form.chosen)
      /\ \A n \in 1..form.sent : Up(form.chosen[n], file, completed)
      /\ form.page = "create" =>
           \A x \in hidden : \E n \in 1..Len(form.chosen) : form.chosen[n] = x
      /\ inserting' \subseteq Uploader /\ UNCHANGED <<seen, job, draft, submits, others>>
  BY AtWork DEF AnswerIntent, Uploading, Types
<1>1. /\ UploadFailed \in Form
      /\ \A r, made, done, hid : FormSound(UploadFailed, r, made, done, hid)
  BY <1>0, UploadFailedSound
<1>2. CASE form' = UploadFailed /\ UNCHANGED <<server, history>> /\ (UNCHANGED faults \/ Failure)
  BY <1>0, <1>1, <1>2, FaultsTyped, FormStep DEF Types
<1>3. ASSUME NEW i \in Image, row[i] = "none", row' = [row EXCEPT ![i] = "pending"],
             file' = [file EXCEPT ![i] = form.chosen[form.sent + 1]],
             UNCHANGED <<product, expired, history>>, UNCHANGED faults \/ Failure,
             form' \in {[form EXCEPT !.step = "upload", !.image = i], UploadFailed}
      PROVE  ImageInv'
  <2>1. form.chosen[form.sent + 1] \in File
    BY <1>0 DEF Form
  <2>2. row' \in RowTable /\ file' \in FileTable /\ row'[i] = "pending"
        /\ file'[i] = form.chosen[form.sent + 1]
    BY <1>0, <1>3, <2>1 DEF Types, RowTable, FileTable
  <2>3. RowsKept /\ RowsOnce' /\ completed' = completed /\ hidden' = hidden
    BY <1>0, <1>3 DEF RowsKept, RowsOnce, ImageInv, Types, RowTable, FileTable, history
  <2>4. \A n \in 1..form.sent : Up(form.chosen[n], file', completed')
    BY <1>0, <2>3 DEF RowsKept, RowsOnce, ImageInv, Up, Types
  <2> DEFINE g == [form EXCEPT !.step = "upload", !.image = i]
  <2>5. g \in Form /\ FormSound(g, row', file', completed', hidden')
    BY <1>0, <2>2, <2>3, <2>4, OnImageSound
  <2>6. form' \in Form /\ FormSound(form', row', file', completed', hidden')
    <3>1. form' = g \/ form' = UploadFailed
      BY <1>3
    <3> HIDE DEF g
    <3> QED
      BY <1>1, <2>5, <3>1
  <2>7. Types'
    BY <1>0, <1>3, <2>2, <2>6, FaultsTyped DEF Types, history
  <2> QED
    BY <1>3, <2>3, <2>6, <2>7, Served DEF history
<1> QED
  BY <1>2, <1>3 DEF AnswerIntent, InsertImage, Call

LEMMA UploadInv == ASSUME ImageInv, UploadToCloudinary PROVE ImageInv'
<1>0. /\ form.step = "upload" /\ Unchanged /\ form.step \in Uploading
      /\ UNCHANGED <<server, history>> /\ (UNCHANGED faults \/ Failure)
  BY DEF UploadToCloudinary, Uploading, Call
<1>1. PICK step \in {"complete", "remove"} : form' = [form EXCEPT !.step = step]
  BY DEF UploadToCloudinary, Call
<1>2. form' = [form EXCEPT !.step = step, !.image = form.image]
  BY <1>1, <1>0, AtWork DEF Form
<1>3. form' \in Form /\ FormSound(form', row, file, completed, hidden)
  BY <1>0, <1>2, AtWork, OnImageSound
<1> QED
  BY <1>0, <1>3, NotServed

LEMMA CompleteInv == ASSUME ImageInv, CompleteImageUpload PROVE ImageInv'
<1> DEFINE failed == [form EXCEPT !.step = "remove"]
           i == form.image
<1>0. /\ form.step = "complete" /\ Unchanged /\ Types /\ form \in Form /\ form.page # "list"
      /\ form.sent \in Nat /\ Len(form.chosen) \in Nat /\ form.sent < Len(form.chosen)
      /\ \A n \in 1..form.sent : Up(form.chosen[n], file, completed)
      /\ form.page = "create" =>
           \A x \in hidden : \E n \in 1..Len(form.chosen) : form.chosen[n] = x
      /\ i \in Image /\ row[i] # "none" /\ file[i] = form.chosen[form.sent + 1]
  BY AtWork DEF CompleteImageUpload, Uploading
<1>1. failed = [form EXCEPT !.step = "remove", !.image = i]
  BY <1>0 DEF Form
<1>2. failed \in Form /\ FormSound(failed, row, file, completed, hidden)
  BY <1>0, <1>1, OnImageSound
<1> HIDE DEF failed
<1>3. CASE form' = failed /\ UNCHANGED <<server, history>> /\ (UNCHANGED faults \/ Failure)
  BY <1>0, <1>2, <1>3, NotServed
<1>4. CASE /\ row' = [row EXCEPT ![i] = "ready"] /\ expired' = expired \ {i}
           /\ completed' = completed \cup {i} /\ UNCHANGED <<product, file, hidden, revived>>
           /\ UNCHANGED faults \/ Failure
           /\ form' \in {Uploaded(form.sent + 1), failed}
  <2>1. row' \in RowTable /\ RowsKept /\ RowsOnce'
    BY <1>0, <1>4 DEF Types, RowTable, RowsKept, RowsOnce, ImageInv
  <2>2. FormSound(failed, row', file', completed', hidden')
    BY <1>2, <1>4, <2>1, FormKept DEF RowsKept, RowsOnce, ImageInv, Types
  <2>3. \A n \in 1..form.sent + 1 : Up(form.chosen[n], file', completed')
    <3>1. Up(form.chosen[form.sent + 1], file', completed')
      BY <1>0, <1>4 DEF Up
    <3>2. \A n \in 1..form.sent : Up(form.chosen[n], file', completed')
      BY <1>0, <1>4 DEF Up
    <3>3. \A n \in 1..form.sent + 1 : n \in 1..form.sent \/ n = form.sent + 1
      BY <1>0
    <3> QED
      BY <3>1, <3>2, <3>3
  <2>4. /\ Uploaded(form.sent + 1) \in Form
        /\ FormSound(Uploaded(form.sent + 1), row', file', completed', hidden')
    <3>1. form.sent + 1 \in Nat /\ form.sent + 1 <= Len(form.chosen) /\ hidden' = hidden
      BY <1>0, <1>4
    <3> QED
      BY <1>0, <2>3, <3>1, UploadedSound
  <2>5. form' \in Form /\ FormSound(form', row', file', completed', hidden')
    BY <1>2, <1>4, <2>2, <2>4
  <2>6. Types'
    BY <1>0, <1>4, <2>1, <2>5, FaultsTyped DEF Types, Unchanged
  <2> QED
    BY <1>4, <2>1, <2>5, <2>6, Served
<1> QED
  BY <1>3, <1>4 DEF CompleteImageUpload, RefusedCall, Call, failed

LEMMA RemoveInv == ASSUME ImageInv, RemoveFailedUpload PROVE ImageInv'
<1> DEFINE i == form.image
<1>0. /\ Unchanged /\ Types /\ form \in Form /\ form.page # "list"
      /\ i \in Image /\ row[i] # "none"
  BY AtWork DEF RemoveFailedUpload, Uploading
<1>1. /\ UploadFailed \in Form
      /\ \A r, made, done, hid : FormSound(UploadFailed, r, made, done, hid)
  BY <1>0, UploadFailedSound
<1>2. CASE form' = UploadFailed /\ UNCHANGED <<server, history>> /\ (UNCHANGED faults \/ Failure)
  BY <1>0, <1>1, <1>2, NotServed
<1>3. CASE /\ row' = [row EXCEPT ![i] = "gone"] /\ expired' = expired \ {i}
           /\ UNCHANGED <<product, file, history>> /\ (UNCHANGED faults \/ Failure)
           /\ form' = UploadFailed
  <2>1. row' \in RowTable /\ RowsKept /\ RowsOnce'
    BY <1>0, <1>3 DEF Types, RowTable, RowsKept, RowsOnce, ImageInv, history
  <2>2. Types'
    BY <1>0, <1>1, <1>3, <2>1, FaultsTyped DEF Types, Unchanged, history
  <2> QED
    BY <1>1, <1>3, <2>1, <2>2, Served DEF history
<1> QED
  BY <1>2, <1>3 DEF RemoveFailedUpload, RefusedCall, Call

-------------------------------------------------------------------------------
(* The limit.                                                              *)

Counted == Rows \ revived

LEMMA CountedFinite ==
  ASSUME Types
  PROVE  /\ IsFiniteSet(Rows) /\ IsFiniteSet(Counted) /\ Counted \subseteq Rows
         /\ Cardinality(Rows) \in Nat /\ Cardinality(Counted) <= Cardinality(Rows)
<1>1. IsFiniteSet(Image)
  BY Numbers, FS_Interval DEF Image
<1>2. Rows \subseteq Image /\ Counted \subseteq Rows
  BY DEF Rows, Counted
<1>3. IsFiniteSet(Rows)
  BY <1>1, <1>2, FS_Subset
<1> QED
  BY <1>2, <1>3, FS_Subset, FS_CardinalityType

\* Only the INSERT of an intent and the save of an alternative text make an image exist.
NoneNew == Counted' \subseteq Counted

\* Who is to insert an image is alone, holds the product and has counted a free place.
InsertsAlone ==
  /\ \A u, v \in inserting : u = v
  /\ inserting # {} => Cardinality(Counted) < MaxImages
  /\ form.step = "insert" => "form" \in inserting

LimitInv == IntentsKeepTheLimit /\ InsertsAlone

\* A step that makes no image exist and leaves the intents alone.
LEMMA NoneNewLimit ==
  ASSUME Types, LimitInv, NoneNew, inserting' = inserting,
         form'.step = "insert" => form.step = "insert"
  PROVE  LimitInv'
<1>1. Cardinality(Counted') <= Cardinality(Counted) /\ Cardinality(Counted') \in Nat
      /\ Cardinality(Counted) \in Nat
  BY CountedFinite, FS_Subset, FS_CardinalityType DEF NoneNew
<1> QED
  BY <1>1, Numbers DEF LimitInv, InsertsAlone, IntentsKeepTheLimit, Counted

\* An intent that takes the free product has counted fewer images than the limit.
LEMMA CountLimit ==
  ASSUME Types, LimitInv, NEW u \in Uploader, CountImages(u), UNCHANGED <<row, revived>>,
         form'.step = "insert" => form.step = "insert" \/ u = "form"
  PROVE  LimitInv'
<1>1. /\ Cardinality(Counted) \in Nat /\ Cardinality(Counted) <= Cardinality(Rows)
      /\ Cardinality(Rows) \in Nat
  BY CountedFinite, FS_CardinalityType
<1>2. Counted' = Counted
  BY DEF Counted, Rows, Exists
<1>3. Cardinality(Counted) < MaxImages
  BY <1>1, Numbers DEF CountImages, ImageLimit
<1>4. inserting = {} /\ inserting' = {u}
  BY DEF CountImages, ProductFree
<1> QED
  BY <1>2, <1>3, <1>4, Numbers DEF LimitInv, InsertsAlone, IntentsKeepTheLimit, Counted

\* The INSERT takes the place its transaction counted.
LEMMA InsertLimit ==
  ASSUME Types, LimitInv, NEW u \in inserting, inserting' = inserting \ {u},
         NEW i \in Image, row' = [row EXCEPT ![i] = "pending"], UNCHANGED revived,
         form'.step = "insert" => form.step = "insert" /\ u # "form"
  PROVE  LimitInv'
<1>1. inserting' = {} /\ (form'.step # "insert")
  BY DEF LimitInv, InsertsAlone
<1>2. Counted' \subseteq Counted \cup {i}
  BY DEF Counted, Rows, Exists, Types, RowTable
<1>3. IsFiniteSet(Counted) /\ Cardinality(Counted) \in Nat /\ Cardinality(Counted) < MaxImages
  BY CountedFinite, FS_CardinalityType DEF LimitInv, InsertsAlone
<1>4. /\ IsFiniteSet(Counted \cup {i})
      /\ Cardinality(Counted \cup {i}) =
           IF i \in Counted THEN Cardinality(Counted) ELSE Cardinality(Counted) + 1
  BY <1>3, FS_AddElement, Zenon
<1>5. Cardinality(Counted') <= Cardinality(Counted \cup {i}) /\ Cardinality(Counted') \in Nat
  BY <1>2, <1>4, FS_Subset, FS_CardinalityType
<1>6. Cardinality(Counted') <= MaxImages
  BY <1>3, <1>4, <1>5, Numbers
<1> QED
  BY <1>1, <1>6 DEF LimitInv, InsertsAlone, IntentsKeepTheLimit, Counted

\* No answer but that of the intent's first statement takes the form to the INSERT.
LEMMA AnswersGoOn ==
  ASSUME form \in Form
  PROVE  /\ Fail.step # "insert" /\ UploadFailed.step # "insert" /\ Saved.step # "insert"
         /\ \A p : NewForm(p).step # "insert"
         /\ \A n : n \in Nat /\ n <= Len(form.chosen) => Uploaded(n).step # "insert"
<1>1. Fail.step = "idle" /\ Saved.step = "idle" /\ \A p : NewForm(p).step = "idle"
  BY DEF Fail, Saved, NewForm, Form
<1>2. UploadFailed.step = "idle"
  BY <1>1 DEF UploadFailed
<1>3. ASSUME NEW n \in Nat, n <= Len(form.chosen)
      PROVE  Uploaded(n).step \in {"intent", "show", "idle"}
  <2>1. /\ [form EXCEPT !.sent = n, !.step = "intent", !.image = Gone].step = "intent"
        /\ [form EXCEPT !.sent = n, !.step = "show", !.image = Gone].step = "show"
    BY DEF Form
  <2>2. Len(form.chosen) \in Nat
    BY DEF Form
  <2> QED
    BY <1>1, <1>3, <2>1, <2>2 DEF Uploaded
<1> QED
  BY <1>1, <1>2, <1>3

\* The answers of the other calls.
LEMMA OtherAnswers ==
  ASSUME ImageInv,
         \/ CompleteImageUpload \/ RemoveFailedUpload \/ CreateProduct \/ UpdateProduct
         \/ UploadToCloudinary
  PROVE  form'.step # "insert" /\ inserting' = inserting
<1>0. form \in Form /\ form.sent \in Nat /\ Len(form.chosen) \in Nat
  BY DEF ImageInv, Types, Form
<1>1. \A x : x \in {"complete", "remove"} => [form EXCEPT !.step = x].step # "insert"
  BY <1>0 DEF Form
<1>2. 0 <= Len(form.chosen) /\ (form.step = "complete" => form.sent + 1 <= Len(form.chosen))
  BY <1>0, AtWork DEF Uploading
<1>3. CASE CompleteImageUpload
  <2>1. form' \in {Uploaded(form.sent + 1), [form EXCEPT !.step = "remove"]}
    BY <1>3 DEF CompleteImageUpload, Call, RefusedCall
  <2>2. form.sent + 1 \in Nat /\ form.sent + 1 <= Len(form.chosen) /\ UNCHANGED inserting
    BY <1>0, <1>2, <1>3 DEF CompleteImageUpload, Unchanged
  <2> QED
    BY <1>0, <1>1, <2>1, <2>2, AnswersGoOn
<1>4. CASE RemoveFailedUpload
  BY <1>0, <1>4, AnswersGoOn DEF RemoveFailedUpload, Call, RefusedCall, Unchanged
<1>5. CASE CreateProduct
  BY <1>0, <1>2, <1>5, AnswersGoOn DEF CreateProduct, Call, RefusedCall, Unchanged
<1>6. CASE UpdateProduct
  BY <1>0, <1>2, <1>6, AnswersGoOn DEF UpdateProduct, Call, RefusedCall, Unchanged
<1>7. CASE UploadToCloudinary
  BY <1>1, <1>7 DEF UploadToCloudinary, Call, Unchanged
<1> QED
  BY <1>3, <1>4, <1>5, <1>6, <1>7

LEMMA IntentLimit == ASSUME ImageInv, LimitInv, CreateImageUploadIntent PROVE LimitInv'
<1>0. Types /\ form \in Form /\ UploadFailed.step # "insert"
  BY AnswersGoOn DEF ImageInv, Types
<1>1. NoneNew /\ UNCHANGED <<row, revived>>
  BY DEF CreateImageUploadIntent, NoneNew, Counted, Rows, Exists, server, history
<1>2. CASE CountImages("form")
  BY <1>0, <1>1, <1>2, CountLimit DEF Uploader
<1>3. CASE form' = UploadFailed /\ UNCHANGED inserting
  BY <1>0, <1>1, <1>3, NoneNewLimit
<1> QED
  BY <1>2, <1>3 DEF CreateImageUploadIntent

LEMMA AnswerLimit == ASSUME ImageInv, LimitInv, AnswerIntent PROVE LimitInv'
<1>0. /\ Types /\ form \in Form /\ form.step = "insert" /\ "form" \in inserting
      /\ inserting' = inserting \ {"form"} /\ UploadFailed.step # "insert"
      /\ form'.step # "insert"
  BY AnswersGoOn DEF AnswerIntent, ImageInv, Types, LimitInv, InsertsAlone, Call, Form
<1>1. CASE UNCHANGED <<server, history>>
  <2>1. NoneNew
    BY <1>1 DEF NoneNew, Counted, Rows, Exists, server, history
  <2>2. Cardinality(Counted') <= Cardinality(Counted) /\ Cardinality(Counted') \in Nat
        /\ Cardinality(Counted) \in Nat
    BY <1>0, <2>1, CountedFinite, FS_Subset, FS_CardinalityType DEF NoneNew
  <2> QED
    BY <1>0, <2>2, Numbers DEF LimitInv, InsertsAlone, IntentsKeepTheLimit, Counted
<1>2. ASSUME NEW i \in Image, row' = [row EXCEPT ![i] = "pending"], UNCHANGED history
      PROVE  LimitInv'
  BY <1>0, <1>2, InsertLimit DEF history
<1> QED
  BY <1>1, <1>2 DEF AnswerIntent, InsertImage, Call

LEMMA RowsOnlyGo ==
  ASSUME Types,
         \/ DeleteProduct \/ (\E w \in Worker : DeleteRow(w)) \/ SaveAltText
         \/ (\E i \in Image : CompleteInTab(i))
         \/ CompleteImageUpload \/ RemoveFailedUpload \/ CreateProduct \/ UpdateProduct
         \/ UploadToCloudinary
  PROVE  NoneNew
<1>1. CASE UNCHANGED <<row, revived>>
  BY <1>1 DEF NoneNew, Counted, Rows, Exists
<1>2. CASE \E i \in Image : row' = [row EXCEPT ![i] = "gone"] /\ UNCHANGED revived
  BY <1>2 DEF Types, RowTable, NoneNew, Counted, Rows, Exists
<1>3. CASE DeleteProduct
  BY <1>3 DEF Types, DeleteProduct, NoneNew, Counted, Rows, Exists, history
<1>4. ASSUME NEW w \in Worker, DeleteRow(w) PROVE NoneNew
  BY <1>2, <1>4 DEF Types, DeleteRow, Job, history
<1>5. CASE SaveAltText
  BY <1>1, <1>5 DEF Types, RowTable, SaveAltText, NoneNew, Counted, Rows, Exists
<1>6. CASE CompleteImageUpload
  <2>1. CASE UNCHANGED <<server, history>>
    BY <1>1, <2>1 DEF server, history
  <2>2. CASE Exists(form.image) /\ row' = [row EXCEPT ![form.image] = "ready"] /\ UNCHANGED revived
    BY <2>2 DEF Types, RowTable, NoneNew, Counted, Rows, Exists
  <2> QED
    BY <1>6, <2>1, <2>2 DEF CompleteImageUpload, RefusedCall, Call
<1>7. CASE RemoveFailedUpload
  <2>1. CASE UNCHANGED <<server, history>>
    BY <1>1, <2>1 DEF server, history
  <2>2. CASE row' = [row EXCEPT ![form.image] = "gone"] /\ UNCHANGED history
    BY <2>2 DEF Types, RowTable, NoneNew, Counted, Rows, Exists, history
  <2> QED
    BY <1>7, <2>1, <2>2 DEF RemoveFailedUpload, RefusedCall, Call
<1>8. CASE CreateProduct \/ UpdateProduct \/ UploadToCloudinary
  BY <1>1, <1>8
  DEF CreateProduct, UpdateProduct, UploadToCloudinary, RefusedCall, Call, server, history
<1>9. ASSUME NEW i \in Image, CompleteInTab(i) PROVE NoneNew
  BY <1>9 DEF Types, RowTable, CompleteInTab, NoneNew, Counted, Rows, Exists, history
<1> QED
  BY <1>3, <1>4, <1>5, <1>6, <1>7, <1>8, <1>9

-------------------------------------------------------------------------------
(* The invariant and the theorems.                                         *)

LEMMA ImageStart == Init => ImageInv /\ LimitInv
<1> SUFFICES ASSUME Init PROVE ImageInv /\ LimitInv
  OBVIOUS
<1>1. Types
  BY NewFormSound, IdleJob, Numbers DEF Init, Types, Absent, Product, RowTable, FileTable, Page
<1>2. RowsOnce /\ HiddenUntilUploaded
  BY DEF Init, RowsOnce, HiddenUntilUploaded
<1>3. FormSound(form, row, file, completed, hidden)
  BY NewFormSound DEF Init, Page
<1>4. Counted = {} /\ form.step # "insert"
  BY DEF Init, Counted, Rows, Exists, NewForm
<1>5. LimitInv
  BY <1>4, FS_EmptySet, Numbers DEF Init, LimitInv, InsertsAlone, IntentsKeepTheLimit, Counted
<1> QED
  BY <1>1, <1>2, <1>3, <1>5 DEF ImageInv

LEMMA ImageStep == ImageInv /\ LimitInv /\ [Next]_vars => ImageInv' /\ LimitInv'
<1> SUFFICES ASSUME ImageInv, LimitInv, [Next]_vars PROVE ImageInv' /\ LimitInv'
  OBVIOUS
<1>0. Types
  BY DEF ImageInv
<1>1. CASE UNCHANGED vars
  <2>1. UNCHANGED <<server, inserting, history, form, seen, job, draft, submits, faults, others>>
    BY <1>1 DEF vars, bounds
  <2>2. Types' /\ NoneNew
    BY <1>0, <2>1 DEF Types, NoneNew, Counted, Rows, Exists, server, history
  <2> QED
    BY <1>0, <2>1, <2>2, QuietStep, NoneNewLimit DEF server
<1>2. CASE \/ DeleteInTab \/ CleanupCommand \/ ReadForAltText \/ UseProduct
           \/ \E w \in Worker : Destroy(w) \/ DestroyFails(w)
           \/ \E i \in Image : Expire(i)
  <2>1. UNCHANGED <<row, revived, inserting, form>>
    BY <1>2, Zenon DEF DeleteInTab, CleanupCommand, ReadForAltText, UseProduct,
                Destroy, DestroyFails, Expire, server, history
  <2>2. NoneNew
    BY <2>1 DEF NoneNew, Counted, Rows, Exists
  <2> QED
    BY <1>0, <1>2, <2>1, <2>2, OthersRead, NoneNewLimit
<1>3. CASE \/ \E n \in 1..Len(form.chosen) : RemoveSelected(n)
           \/ \E f \in File : SelectImages(f)
           \/ \E a \in BOOLEAN : Submit(a)
  <2>1. UNCHANGED <<row, revived, inserting>>
    BY <1>3, Zenon DEF RemoveSelected, SelectImages, Submit, server, history
  <2>2. form'.step # "insert"
    <3>1. form \in Form
      BY <1>0 DEF Types
    <3>2. \A x : [form EXCEPT !.chosen = x].step = form.step
      BY <3>1 DEF Form
    <3>3. \A a : [form EXCEPT !.step = IF form.page = "create" THEN "create" ELSE "patch",
                               !.active = a, !.sent = 0].step # "insert"
      BY <3>1 DEF Form
    <3> QED
      BY <1>3, <3>2, <3>3 DEF RemoveSelected, SelectImages, Submit, IsBusy
  <2>3. NoneNew
    BY <2>1 DEF NoneNew, Counted, Rows, Exists
  <2> QED
    BY <1>0, <1>3, <2>1, <2>2, <2>3, OwnerInv, NoneNewLimit
<1>4. CASE \/ DeleteProduct \/ (\E w \in Worker : DeleteRow(w)) \/ SaveAltText
           \/ (\E i \in Image : CompleteInTab(i))
  <2>1. UNCHANGED <<inserting, form>>
    BY <1>4, Zenon DEF DeleteProduct, DeleteRow, SaveAltText, CompleteInTab
  <2> QED
    BY <1>0, <1>4, <2>1, RowsOnlyGo, NoneNewLimit, OthersWrite
<1>5. CASE \/ CompleteImageUpload \/ RemoveFailedUpload \/ CreateProduct \/ UpdateProduct
           \/ UploadToCloudinary
  BY <1>0, <1>5, RowsOnlyGo, OtherAnswers, NoneNewLimit, CompleteInv, RemoveInv,
     CreateProductInv, UpdateProductInv, UploadInv
<1>6. CASE CreateImageUploadIntent
  BY <1>6, IntentInv, IntentLimit
<1>7. CASE AnswerIntent
  BY <1>7, AnswerInv, AnswerLimit
<1>8. CASE IntentInTab
  BY <1>0, <1>8, OthersRead, CountLimit DEF IntentInTab, Uploader, server, history
<1>9. CASE InsertInTab
  <2>1. PICK i \in Image : InsertImage(i, Gone)
    BY <1>9 DEF InsertInTab
  <2>2. LimitInv'
    <3>1. "tab" \in inserting /\ inserting' = inserting \ {"tab"} /\ form' = form
      BY <1>9 DEF InsertInTab
    <3> QED
      BY <1>0, <2>1, <3>1, InsertLimit DEF InsertImage, history
  <2> QED
    BY <1>9, <2>2, OthersWrite
<1> QED
  BY <1>1, <1>2, <1>3, <1>4, <1>5, <1>6, <1>7, <1>8, <1>9 DEF Next

LEMMA ImageInvariance == Spec => [](ImageInv /\ LimitInv)
BY ImageStart, ImageStep, PTL DEF Spec

\* A product created with images stays hidden until each of them went up, whichever calls
\* fail and whatever is deleted meanwhile, for any number of files.
THEOREM HiddenUntilAllAreUp == Spec => []HiddenUntilUploaded
BY ImageInvariance, PTL DEF ImageInv

\* The form reports success only when every file it held has been made an image.
THEOREM SuccessIsTrue == Spec => []SuccessMeansUploaded
<1>1. ImageInv => SuccessMeansUploaded
  BY DEF ImageInv, FormSound, SuccessTrue, SuccessMeansUploaded, Chosen, Up
<1> QED
  BY <1>1, ImageInvariance, PTL

\* Two intents that race for the last free place do not both take it, for any limit: the
\* second counts when the first has inserted its image or given up (but images that a save
\* of their alternative text brought back are not counted here).
THEOREM LimitKept == Spec => []IntentsKeepTheLimit
BY ImageInvariance, PTL DEF LimitInv

\* The variables keep their types, and the form its place among the chosen files, for any
\* number of files, rows and calls.
THEOREM ImageTypes == Spec => []TypeOK
<1>1. ImageInv => TypeOK
  <2> SUFFICES ASSUME ImageInv PROVE TypeOK
    OBVIOUS
  <2>1. form \in Form /\ form.sent <= Len(form.chosen)
    BY DEF ImageInv, Types, FormSound, SentUp
  <2>2. form.sent \in 0..Len(form.chosen)
    BY <2>1 DEF Form
  <2>3. Chosen \subseteq File
    BY <2>1 DEF Chosen, Form
  <2> QED
    BY <2>1, <2>2, <2>3 DEF ImageInv, Types, TypeOK, Form, Job, Product, RowTable, FileTable
<1> QED
  BY <1>1, ImageInvariance, PTL
==============================================================================
