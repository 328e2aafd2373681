------------------------------ MODULE Composer ------------------------------
(***************************************************************************)
(* The form that creates jobs (web/src/components/JobComposer.jsx, with    *)
(* createJobs of hooks/useJobFlow.js): templates, drafts, the import of a  *)
(* file, and batches that are sent job by job while the form goes on       *)
(* changing.                                                               *)
(*                                                                         *)
(* queue stands for queue and priority, which a template sets alike; max   *)
(* attempts and the schedule are left out: they are edited, saved, loaded  *)
(* and sent like the batch count.  Only a file that names no max attempts  *)
(* is different: it leaves those of the render in which it was chosen, as  *)
(* it does with the type.                                                  *)
(***************************************************************************)
EXTENDS Drafts

CONSTANTS
  Types,           \* the keys of jobTemplates; every template is known by its type
  FirstType,       \* send_email
  Here,            \* the tab whose form is modelled; the others only have drafts
  Files,           \* files that may be imported
  MaxGestures,     \* bound on what is done to the form: edits, templates, loads, files, clicks
  MaxSubmissions   \* bound on the submissions under way

ASSUME FirstTypeAssumption == FirstType \in Types /\ Here \in Tabs

\* What looks like a template besides: a key every object inherits.  It has no queue.
Inherited == "constructor"
NoQueue == "none"
Templates == Types \cup {Inherited}

\* A payload text is that of a template, empty, no JSON, or JSON with other
\* contents, force_fail among them or not.
Payloads == Types \cup {"", "broken", "other", "forced"}

Forms == [type : Templates, queue : Types \cup {NoQueue}, payload : Payloads,
          forceFail : BOOLEAN, batchCount : {0, 1, 2}]

\* A file is no JSON, or a job in which anything may be missing; its schedule
\* may be no text.
Unnamed == "unnamed"
Broken == [type |-> Unnamed, queue |-> Unnamed, payload |-> "broken",
           schedule |-> "none", batchCount |-> 0]
JobFiles == [type : Templates \cup {Unnamed}, queue : Types \cup {Unnamed},
             payload : Payloads \ {"broken"}, schedule : {"none", "text", "number"},
             batchCount : {0, 1, 2}]

ASSUME FilesAssumption == Files \subseteq JobFiles \cup {Broken}
ASSUME ComposerBoundsAssumption == MaxGestures \in Nat /\ MaxSubmissions \in Nat

VARIABLES
  form,        \* the state of the fields; a count of 0 is an empty field
  jsonError,
  importing,   \* imports waiting for the text of their file
  submissions, \* calls of createJobs under way
  gestures,    \* number of gestures made
  loaded       \* history: the draft or file the form shows unchanged, as a form; or none

formVars == <<form, jsonError, importing, submissions, gestures, loaded>>
composerVars == <<draftVars, formVars>>

\* The template of a type: its queue and its payload are named like it.
Template(t) == [queue |-> IF t \in Types THEN t ELSE NoQueue, payload |-> t]

FirstForm ==
  [type |-> FirstType, queue |-> Template(FirstType).queue,
   payload |-> Template(FirstType).payload, forceFail |-> FALSE,
   batchCount |-> 1]

Init ==
  /\ DraftsInit
  /\ form = FirstForm
  /\ jsonError = FALSE
  /\ importing = {}
  /\ submissions = <<>>
  /\ gestures = 0
  /\ loaded = {}

----------------------------------------------------------------------------
(***************************************************************************)
(* Views                                                                   *)
(***************************************************************************)
\* Another composer is mounted in this tab: a new form.
OpenComposer ==
  /\ Open(Here)
  /\ UNCHANGED formVars

\* The view changes or the session ends: the fields are forgotten, and an
\* import has no form left to fill; what has been submitted goes on.
CloseComposer ==
  /\ Close(Here)
  /\ form' = FirstForm
  /\ jsonError' = FALSE
  /\ importing' = {}
  /\ loaded' = {}
  /\ UNCHANGED <<submissions, gestures>>

OtherTab(t) ==
  /\ t # Here
  /\ \/ Open(t) \/ Close(t) \/ Save(t, FirstForm) \/ Clear(t)
     \/ \E d \in 1..saves : Delete(t, d)
  /\ UNCHANGED formVars

RunEffect(t) == FirstEffect(t) /\ UNCHANGED formVars

----------------------------------------------------------------------------
\* The user does something to the form, which has to be there.
Gesture ==
  /\ Here \in open
  /\ gestures < MaxGestures
  /\ gestures' = gestures + 1

(***************************************************************************)
(* Fields, templates and drafts                                            *)
(***************************************************************************)
\* One field of the form is changed by hand.
EditField ==
  /\ Gesture
  /\ \/ \E q \in Types : form' = [form EXCEPT !.queue = q]
     \/ \E p \in {"", "broken"} : form' = [form EXCEPT !.payload = p]
     \/ \E n \in {0, 2} : form' = [form EXCEPT !.batchCount = n]
     \/ form' = [form EXCEPT !.forceFail = ~@]
  /\ loaded' = {}
  /\ UNCHANGED <<draftVars, jsonError, importing, submissions>>

\* chooseTemplate: a click on a template, or the choice of a type.
ChooseTemplate(t) ==
  /\ Gesture
  /\ form' = [form EXCEPT !.type = t, !.queue = Template(t).queue,
                          !.payload = Template(t).payload]
  /\ jsonError' = FALSE
  /\ loaded' = {}
  /\ UNCHANGED <<draftVars, importing, submissions>>

\* handleSaveDraft: a text that is no JSON is refused.
SaveDraft ==
  /\ IF form.payload = "broken"
       THEN Here \in open /\ jsonError' = TRUE /\ UNCHANGED draftVars
       ELSE Save(Here, form) /\ jsonError' = FALSE
  /\ UNCHANGED <<form, importing, submissions, gestures, loaded>>

\* What loadDraft sets the fields to.
FilledFrom(f) ==
  [f EXCEPT !.batchCount = IF @ = 0 THEN 1 ELSE @,
            !.payload = IF @ = "" THEN "other" ELSE @]

\* loadDraft: a click on a draft.
LoadDraft ==
  /\ Gesture
  /\ \E d \in Range(drafts[Here]) :
       form' = FilledFrom(d.form) /\ loaded' = {d.form}
  /\ jsonError' = FALSE
  /\ UNCHANGED <<draftVars, importing, submissions>>

\* The panel's buttons.
RemoveDrafts ==
  /\ Clear(Here) \/ \E d \in 1..saves : Delete(Here, d)
  /\ UNCHANGED formVars

----------------------------------------------------------------------------
(***************************************************************************)
(* importJobFile                                                           *)
(***************************************************************************)
\* A file is chosen; the function keeps the type of its render.
PickFile(file) ==
  /\ Gesture
  /\ importing' = importing \cup {[file |-> file, type |-> form.type]}
  /\ UNCHANGED <<draftVars, form, jsonError, submissions, loaded>>

\* nextType: the file's type if that is a key of jobTemplates, inherited or not.
NextType(i) == IF i.file.type \in Templates THEN i.file.type ELSE i.type

NextQueue(i) ==
  IF i.file.queue = Unnamed THEN Template(NextType(i)).queue ELSE i.file.queue

\* The fields that are set before the schedule is looked at.
HalfImported(i) ==
  [form EXCEPT !.type = NextType(i), !.queue = NextQueue(i),
               !.batchCount = IF i.file.batchCount = 0 THEN 1 ELSE i.file.batchCount]

\* Mutant: the box is only ever ticked.
ImportedPart(i) ==
  [HalfImported(i) EXCEPT
     !.forceFail = @ \/ i.file.payload = "forced",
     !.payload = IF i.file.payload = "" THEN "other" ELSE i.file.payload]

\* Without a payload, the job itself is the payload.
Imported(i) ==
  [HalfImported(i) EXCEPT
     !.forceFail = (i.file.payload = "forced"),
     !.payload = IF i.file.payload = "" THEN "other" ELSE i.file.payload]

\* The job of a file as a form, as it stands there.
FileJob(i) ==
  [type |-> NextType(i), queue |-> NextQueue(i), payload |-> i.file.payload,
   forceFail |-> FALSE, batchCount |-> i.file.batchCount]

\* The text has been read: no JSON leaves the form alone; a schedule that is no
\* text throws half way.
ImportFile(i) ==
  /\ importing' = importing \ {i}
  /\ \/ /\ i.file = Broken
        /\ jsonError' = TRUE
        /\ UNCHANGED <<form, loaded>>
     \/ /\ i.file # Broken
        /\ i.file.schedule = "number"
        /\ form' = HalfImported(i)
        /\ jsonError' = TRUE
        /\ loaded' = {}
     \/ /\ i.file # Broken
        /\ i.file.schedule # "number"
        /\ form' = Imported(i)
        /\ jsonError' = FALSE
        /\ loaded' = {FileJob(i)}
  /\ UNCHANGED <<draftVars, submissions, gestures>>

----------------------------------------------------------------------------
(***************************************************************************)
(* submit and createJobs                                                   *)
(***************************************************************************)
Count(f) == IF f.batchCount < 1 THEN 1 ELSE f.batchCount

\* What POST /api/jobs is sent for the job number i of a batch.
Body(f, i) ==
  [type |-> f.type, queue |-> f.queue,
   payload |-> IF f.payload = "" THEN "other" ELSE f.payload,
   forceFail |-> f.forceFail \/ f.payload = "forced",
   batchIndex |-> IF Count(f) = 1 THEN 0 ELSE i]

\* The button, which is never disabled.  The call has the fields as they are.
Submit ==
  /\ Gesture
  /\ IF form.payload = "broken"
       THEN jsonError' = TRUE /\ UNCHANGED submissions
       ELSE /\ Len(submissions) < MaxSubmissions
            /\ jsonError' = FALSE
            /\ submissions' = Append(submissions, [form |-> form, created |-> <<>>])
  /\ UNCHANGED <<draftVars, form, importing, loaded>>

\* Mutant: the loop reads the fields as they are now.
PostLatest(k) ==
  LET s == submissions[k] i == Len(s.created) + 1
  IN  /\ i <= Count(form)
      /\ submissions' = [submissions EXCEPT ![k].created = Append(@, Body(form, i))]

\* The next job of a batch is created.
Post(k) ==
  LET s == submissions[k] i == Len(s.created) + 1
  IN  /\ i <= Count(s.form)
      /\ submissions' = [submissions EXCEPT ![k].created = Append(@, Body(s.form, i))]

\* All jobs are created, or a call is refused and the rest is skipped.
EndSubmission(k) == submissions' = RemoveAt(submissions, k)

SubmissionStep ==
  /\ \E k \in DOMAIN submissions : Post(k) \/ EndSubmission(k)
  /\ UNCHANGED <<draftVars, form, jsonError, importing, gestures, loaded>>

----------------------------------------------------------------------------
Next ==
  \/ OpenComposer \/ CloseComposer
  \/ \E t \in Tabs : OtherTab(t) \/ RunEffect(t)
  \/ EditField \/ \E t \in Types : ChooseTemplate(t)
  \/ SaveDraft \/ LoadDraft \/ RemoveDrafts
  \/ \E file \in Files : PickFile(file)
  \/ \E i \in importing : ImportFile(i)
  \/ Submit \/ SubmissionStep

Spec == Init /\ [][Next]_composerVars

----------------------------------------------------------------------------
(***************************************************************************)
(* Properties                                                              *)
(***************************************************************************)
TypeOK ==
  /\ DraftsTypeOK(Forms)
  /\ form \in Forms
  /\ jsonError \in BOOLEAN
  /\ importing \subseteq [file : Files, type : Templates]
  /\ Len(submissions) <= MaxSubmissions
  /\ gestures \in 0..MaxGestures
  /\ loaded \in SUBSET Forms

\* The jobs a form would create.
BatchOf(f) == [i \in 1..Count(f) |-> Body(f, i)]

\* The form is well-formed; and a form that shows a draft or an imported file
\* creates just the jobs of that draft or file: those the form would have created
\* when the draft was saved, or those the file describes.  Nothing is left of what
\* the form held before the draft was loaded, or when the text of the file arrived.
FormInv ==
  /\ TypeOK
  /\ \A f \in loaded : BatchOf(form) = BatchOf(f)

\* What is created is what the form showed when the button was pressed, numbered
\* from one without a gap or a repetition, whatever happens to the form, the
\* view and the drafts while the calls go on, and however many submissions do.
SubmittedAsShown ==
  \A k \in DOMAIN submissions :
    LET s == submissions[k]
    IN  s.created = SubSeq(BatchOf(s.form), 1, Len(s.created))
=============================================================================
