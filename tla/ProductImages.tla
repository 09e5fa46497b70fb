----------------------------- MODULE ProductImages -----------------------------
(***************************************************************************)
(* The images of one product: an owner's product form uploads the chosen   *)
(* files one after the other (intent, upload to the image provider,        *)
(* completion, removal on failure) while a second tab uploads and deletes  *)
(* images, the clean-up command deletes the expired ones, and calls or     *)
(* their answers are lost.                                                 *)
(***************************************************************************)
EXTENDS Integers, FiniteSets, Sequences

CONSTANTS
  File,          \* files the owner may choose
  MaxImages,     \* MAX_PRODUCT_IMAGES
  MaxRows,       \* bound on the image rows ever created
  MaxSubmits,    \* bound on submissions of the form
  MaxFaults,     \* bound on failed calls
  MaxOther       \* bound on what the second tab begins

ASSUME Bounds == {MaxImages, MaxRows, MaxSubmits, MaxFaults, MaxOther} \subseteq Nat

Image == 1..MaxRows
Gone == 0                     \* no image
Page == {"create", "update", "list"}
Step == {"idle", "create", "patch", "intent", "insert", "upload", "complete", "remove", "show"}
Uploader == {"form", "tab"}
Worker == {"tab", "cleanup"}
Idle == [todo |-> {}, at |-> Gone, whole |-> FALSE]

VARIABLES
  product,    \* server: the product row, if it exists, and whether customers see it
  row,        \* server: each image row, "none" before and "gone" after its life
  file,       \* server: the file each image row was made for
  expired,    \* pending rows older than the clean-up's cutoff
  inserting,  \* intents that counted the images of the product and hold its row to add one
  form,       \* the product form of the mounted page
  seen,       \* the ready images of the last product read by the page
  job,        \* the deletions under way in the second tab and in the clean-up
  draft,      \* the image whose row a save of its alternative text has read
  completed,  \* history: images of the form that became ready
  hidden,     \* history: files of a product created with images, until it is saved again
  revived,    \* history: rows a save of the alternative text inserted anew
  submits, faults, others

server == <<product, row, file, expired>>
history == <<completed, hidden, revived>>
bounds == <<submits, faults, others>>
vars == <<server, inserting, form, seen, job, draft, history, bounds>>

Absent == [exists |-> FALSE, active |-> FALSE]
NewForm(p) == [page |-> p, step |-> "idle", chosen |-> <<>>, sent |-> 0, active |-> FALSE,
               image |-> Gone]

Init ==
  /\ product = Absent
  /\ row = [i \in Image |-> "none"] /\ file = [i \in Image |-> Gone]
  /\ expired = {} /\ inserting = {}
  /\ form = NewForm("create") /\ seen = {}
  /\ job = [w \in Worker |-> Idle] /\ draft = Gone
  /\ completed = {} /\ hidden = {} /\ revived = {}
  /\ submits = 0 /\ faults = 0 /\ others = 0

Exists(i) == row[i] \in {"pending", "ready"}
Rows == {i \in Image : Exists(i)}
Ready == {i \in Image : row[i] = "ready"}

\* Fault: the intent reads the product without locking it.
Unlocked == TRUE

\* An intent holds the product's row FOR UPDATE: whoever writes or references it waits.
ProductFree == inserting = {}

-------------------------------------------------------------------------------
(* The form.                                                               *)

IsBusy == form.step # "idle"
Chosen == {form.chosen[n] : n \in 1..Len(form.chosen)}

\* The owner does not choose a file whose image the product has. The form counts the images
\* of the product it was last given.
SelectImages(f) ==
  /\ form.page # "list" /\ ~IsBusy /\ submits < MaxSubmits
  /\ f \notin Chosen \cup {file[i] : i \in Ready}
  /\ Cardinality(seen) + Len(form.chosen) + 1 <= MaxImages
  /\ form' = [form EXCEPT !.chosen = Append(@, f)]
  /\ UNCHANGED <<server, inserting, seen, job, draft, history, bounds>>

RemoveSelected(n) ==
  /\ form.page # "list" /\ ~IsBusy /\ submits < MaxSubmits
  /\ form' = [form EXCEPT !.chosen = SubSeq(@, 1, n - 1) \o SubSeq(@, n + 1, Len(@))]
  /\ UNCHANGED <<server, inserting, seen, job, draft, history, bounds>>

Submit(active) ==
  /\ form.page # "list" /\ ~IsBusy /\ submits < MaxSubmits
  /\ submits' = submits + 1
  /\ form' = [form EXCEPT !.step = IF form.page = "create" THEN "create" ELSE "patch",
                          !.active = active, !.sent = 0]
  /\ UNCHANGED <<server, inserting, seen, job, draft, history, faults, others>>

\* The page reads the product again after every change and when it is opened.
UseProduct ==
  /\ form.page = "update" /\ seen # Ready
  /\ seen' = Ready
  /\ UNCHANGED <<server, inserting, form, job, draft, history, bounds>>

Failure == faults < MaxFaults /\ faults' = faults + 1

\* Fault: the image of the failed upload stays in the form.
FailKeepingImage == [form EXCEPT !.step = "failed"]

\* An error the form shows: it keeps what was selected.
Fail == [form EXCEPT !.step = "idle", !.sent = 0, !.image = Gone]
Saved == [NewForm("list") EXCEPT !.chosen = form.chosen]

\* What follows when n files went up: after the last the create page shows the product,
\* or reads it again if it stays hidden.
Uploaded(n) ==
  CASE n < Len(form.chosen) -> [form EXCEPT !.sent = n, !.step = "intent", !.image = Gone]
    [] n = Len(form.chosen) /\ form.page = "create" /\ n > 0 ->
         [form EXCEPT !.sent = n, !.step = "show", !.image = Gone]
    [] OTHER -> Saved

\* Fault: a failed upload is skipped.
UploadSkipped == Uploaded(form.sent + 1)

\* An upload that failed: the create page goes to the update page of the hidden product.
UploadFailed == IF form.page = "create" THEN NewForm("update") ELSE Fail

-------------------------------------------------------------------------------
(* One call of the form: served and answered, served and the answer lost,  *)
(* or never served.                                                        *)

Call(effect, ok, failed) ==
  \/ effect /\ form' = ok /\ UNCHANGED faults
  \/ effect /\ form' = failed /\ Failure
  \/ UNCHANGED <<server, history>> /\ form' = failed /\ Failure

RefusedCall(failed) == UNCHANGED <<server, history, faults>> /\ form' = failed
Unchanged == UNCHANGED <<inserting, seen, job, draft, submits, others>>

\* Fault: the product is created as the form says.
VisibleAtOnce(active) == active

\* With images the product starts hidden.
Visible(active) == active /\ form.chosen = <<>>

CreateProduct ==
  /\ form.step = "create" /\ Unchanged
  /\ LET effect ==
           /\ product' = [exists |-> TRUE, active |-> Visible(form.active)]
           /\ hidden' = Chosen
           /\ UNCHANGED <<row, file, expired, completed, revived>>
     IN IF product.exists THEN RefusedCall(Fail)          \* the slug is taken
        ELSE Call(effect, Uploaded(0), Fail)

UpdateProduct ==
  /\ form.step \in {"patch", "show"} /\ ProductFree /\ Unchanged
  /\ LET effect ==
           /\ product' = [product EXCEPT !.active = form.active]
           /\ hidden' = IF form.step = "patch" THEN {} ELSE hidden
           /\ UNCHANGED <<row, file, expired, completed, revived>>
         failed == IF form.step = "patch" THEN Fail ELSE NewForm("update")
     IN IF ~product.exists THEN RefusedCall(failed)
        ELSE Call(effect, IF form.step = "patch" THEN Uploaded(0) ELSE Saved, failed)

ImageLimit == Cardinality(Rows) < MaxImages

\* The transaction of an intent reads the product FOR UPDATE and counts its images ...
CountImages(u) ==
  /\ ProductFree /\ product.exists /\ ImageLimit
  /\ \E i \in Image : row[i] = "none"
  /\ inserting' = inserting \cup {u}

\* ... and inserts one for file f, as row i: its COMMIT frees the product.
InsertImage(i, f) ==
  /\ row[i] = "none" /\ \A j \in 1..i - 1 : row[j] # "none"
  /\ row' = [row EXCEPT ![i] = "pending"] /\ file' = [file EXCEPT ![i] = f]
  /\ UNCHANGED <<product, expired, history>>

CreateImageUploadIntent ==
  /\ form.step = "intent" /\ UNCHANGED <<server, seen, job, draft, history, submits, others>>
  /\ \/ CountImages("form") /\ form' = [form EXCEPT !.step = "insert"] /\ UNCHANGED faults
     \/ /\ ProductFree /\ (~product.exists \/ ~ImageLimit)
        /\ form' = UploadFailed /\ UNCHANGED <<inserting, faults>>
     \/ form' = UploadFailed /\ Failure /\ UNCHANGED inserting

\* The answer names the image made; without it the form has nothing to remove.
AnswerIntent ==
  /\ form.step = "insert" /\ inserting' = inserting \ {"form"}
  /\ UNCHANGED <<seen, job, draft, submits, others>>
  /\ \E i \in Image :
       Call(InsertImage(i, form.chosen[form.sent + 1]),
            [form EXCEPT !.step = "upload", !.image = i], UploadFailed)

UploadToCloudinary ==
  /\ form.step = "upload" /\ Unchanged
  /\ Call(UNCHANGED <<server, history>>,
          [form EXCEPT !.step = "complete"],
          [form EXCEPT !.step = "remove"])

CompleteImageUpload ==
  /\ form.step = "complete" /\ Unchanged
  /\ IF ~Exists(form.image)
     THEN RefusedCall([form EXCEPT !.step = "remove"])
     ELSE Call(/\ row' = [row EXCEPT ![form.image] = "ready"]
               /\ expired' = expired \ {form.image}
               /\ completed' = completed \cup {form.image}
               /\ UNCHANGED <<product, file, hidden, revived>>,
               Uploaded(form.sent + 1),
               [form EXCEPT !.step = "remove"])

\* The failure of an upload is reported whether or not its image could be removed.
RemoveFailedUpload ==
  /\ form.step = "remove" /\ Unchanged
  /\ IF ~Exists(form.image) THEN RefusedCall(UploadFailed)
     ELSE Call(/\ row' = [row EXCEPT ![form.image] = "gone"]
               /\ expired' = expired \ {form.image}
               /\ UNCHANGED <<product, file, history>>,
               UploadFailed, UploadFailed)

-------------------------------------------------------------------------------
(* The form of the second tab uploads other files, and may be closed       *)
(* between two calls.                                                      *)

IntentInTab ==
  /\ "tab" \notin inserting /\ others < MaxOther /\ others' = others + 1
  /\ CountImages("tab")
  /\ UNCHANGED <<server, form, seen, job, draft, history, submits, faults>>

InsertInTab ==
  /\ "tab" \in inserting /\ inserting' = inserting \ {"tab"}
  /\ \E i \in Image : InsertImage(i, Gone)
  /\ UNCHANGED <<form, seen, job, draft, bounds>>

CompleteInTab(i) ==
  /\ row[i] = "pending" /\ file[i] = Gone
  /\ row' = [row EXCEPT ![i] = "ready"] /\ expired' = expired \ {i}
  /\ UNCHANGED <<product, file, inserting, form, seen, job, draft, history, bounds>>

-------------------------------------------------------------------------------
(* Deleting images: the provider first, then the row, without a lock.      *)

\* The delete button of an image in the second tab, or of the product in its list.
DeleteInTab ==
  /\ job["tab"] = Idle /\ others < MaxOther /\ others' = others + 1
  /\ \/ \E i \in Ready : job' = [job EXCEPT !["tab"].todo = {i}]
     \/ product.exists /\ job' = [job EXCEPT !["tab"] = [Idle EXCEPT !.todo = Rows, !.whole = TRUE]]
  /\ UNCHANGED <<server, inserting, form, seen, draft, history, submits, faults>>

\* The clean-up reads the list of expired uploads once.
Stale == {i \in expired : row[i] = "pending"}

CleanupCommand ==
  /\ job["cleanup"] = Idle /\ Stale # {}
  /\ job' = [job EXCEPT !["cleanup"].todo = Stale]
  /\ UNCHANGED <<server, inserting, form, seen, draft, history, bounds>>

Destroy(w) ==
  /\ job[w].at = Gone
  /\ \E i \in job[w].todo :
       /\ job' = [job EXCEPT ![w].todo = @ \ {i}, ![w].at = i]
  /\ UNCHANGED <<product, row, file, expired, inserting, form, seen, draft, history, bounds>>

\* The provider refuses or the worker dies: what is left of the list is given up.
DestroyFails(w) ==
  /\ job[w] # Idle /\ Failure
  /\ job' = [job EXCEPT ![w] = Idle]
  /\ UNCHANGED <<server, inserting, form, seen, draft, history, submits, others>>

DeleteRow(w) ==
  /\ job[w].at # Gone
  /\ row' = [row EXCEPT ![job[w].at] = "gone"]
  /\ expired' = expired \ {job[w].at}
  /\ job' = [job EXCEPT ![w] = IF @.todo = {} /\ ~@.whole THEN Idle ELSE [@ EXCEPT !.at = Gone]]
  /\ UNCHANGED <<product, file, inserting, form, seen, draft, history, bounds>>

DeleteProduct ==
  /\ job["tab"].whole /\ job["tab"].todo = {} /\ job["tab"].at = Gone /\ ProductFree
  /\ product' = Absent
  /\ row' = [i \in Image |-> IF Exists(i) THEN "gone" ELSE row[i]]
  /\ expired' = {}
  /\ job' = [job EXCEPT !["tab"] = Idle]
  /\ UNCHANGED <<file, inserting, form, seen, draft, history, bounds>>

-------------------------------------------------------------------------------
(* The alternative text: the row is read, and every column written back.   *)

ReadForAltText ==
  /\ draft = Gone /\ others < MaxOther /\ others' = others + 1
  /\ draft' \in Ready
  /\ UNCHANGED <<server, inserting, form, seen, job, history, submits, faults>>

\* A save that finds no row to update inserts one, if its product is still there.
SaveAltText ==
  /\ draft # Gone /\ draft' = Gone
  /\ IF row[draft] = "gone" /\ product.exists
     THEN ProductFree /\ row' = [row EXCEPT ![draft] = "ready"] /\ revived' = revived \cup {draft}
     ELSE UNCHANGED <<row, revived>>
  /\ UNCHANGED <<product, file, expired, inserting, form, seen, job, completed, hidden, bounds>>

\* An hour passes while an upload is pending.
Expire(i) ==
  /\ row[i] = "pending" /\ i \notin expired
  /\ expired' = expired \cup {i}
  /\ UNCHANGED <<product, row, file, inserting, form, seen, job, draft, history, bounds>>

Next ==
  \/ \E f \in File : SelectImages(f)
  \/ \E a \in BOOLEAN : Submit(a)
  \/ \E n \in 1..Len(form.chosen) : RemoveSelected(n)
  \/ UseProduct \/ CreateProduct \/ UpdateProduct
  \/ CreateImageUploadIntent \/ AnswerIntent \/ UploadToCloudinary \/ CompleteImageUpload
  \/ RemoveFailedUpload \/ IntentInTab \/ InsertInTab
  \/ DeleteInTab \/ CleanupCommand \/ DeleteProduct \/ ReadForAltText \/ SaveAltText
  \/ \E w \in Worker : Destroy(w) \/ DestroyFails(w) \/ DeleteRow(w)
  \/ \E i \in Image : Expire(i) \/ CompleteInTab(i)

Spec == Init /\ [][Next]_vars

-------------------------------------------------------------------------------
(* Properties.                                                             *)

\* The variables keep their types.
TypeOK ==
  /\ product \in [exists: BOOLEAN, active: BOOLEAN]
  /\ row \in [Image -> {"none", "pending", "ready", "gone"}]
  /\ file \in [Image -> File \cup {Gone}]
  /\ expired \subseteq Image /\ inserting \subseteq Uploader /\ seen \subseteq Image
  /\ form.page \in Page /\ form.step \in Step /\ form.sent \in 0..Len(form.chosen)
  /\ form.active \in BOOLEAN
  /\ form.image \in Image \cup {Gone} /\ Chosen \subseteq File
  /\ job \in [Worker -> [todo: SUBSET Image, at: Image \cup {Gone}, whole: BOOLEAN]]
  /\ draft \in Image \cup {Gone}
  /\ completed \subseteq Image /\ hidden \subseteq File /\ revived \subseteq Image
  /\ submits \in 0..MaxSubmits /\ faults \in 0..MaxFaults /\ others \in 0..MaxOther

\* A product created with images is not shown to customers before each of them went up,
\* whichever call of the form failed, until the owner saves the product again.
HiddenUntilUploaded ==
  product.active => \A f \in hidden : \E i \in completed : file[i] = f

\* When the form reports success, every file it held has been made an image.
SuccessMeansUploaded ==
  form.page = "list" => \A f \in Chosen : \E i \in completed : file[i] = f

\* Two intents that race for the last free place of a product do not both take it, whatever
\* is deleted beside them; only a save of the alternative text, which inserts a deleted
\* image again, takes a product over its limit.
IntentsKeepTheLimit == Cardinality(Rows \ revived) <= MaxImages

\* "Delete product-image uploads that remained pending past their expiry": the clean-up is
\* not deleting an image whose upload was completed.
CleanupSparesReady == job["cleanup"].at \notin Ready

\* "Product changes were saved, but one or more images failed to upload. Reselect those
\* images and try again.": a file that went up is not sent again with those that failed.
OneImagePerFile ==
  \A i, j \in Ready : file[i] = file[j] /\ file[i] # Gone => i = j
================================================================================
