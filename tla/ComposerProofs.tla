--------------------------- MODULE ComposerProofs ---------------------------
(***************************************************************************)
(* Proofs about Composer, for any number of tabs, drafts, types, files and *)
(* submissions.                                                            *)
(***************************************************************************)
EXTENDS Composer, SequenceLemmas

----------------------------------------------------------------------------
(***************************************************************************)
(* The drafts survive                                                      *)
(***************************************************************************)
\* What DraftsSurvive needs to be inductive: only a mounted composer has an
\* effect to run, and every tab has a list.
DraftsInv ==
  /\ unwritten \subseteq open
  /\ DOMAIN drafts = Tabs
  /\ open \subseteq Tabs
  /\ DraftsSurvive

\* A click writes a list that is the user's, or is found in conflict, as long as
\* it does to the tab's list what it does to the user's.
LEMMA ChangeKeeps ==
  ASSUME DraftsInv, NEW t \in Tabs, NEW list, NEW usersList,
         Change(t, list, usersList),
         drafts[t] = wanted => list = usersList
  PROVE  DraftsInv'
<1>1. /\ t \in open /\ open' = open
      /\ unwritten' = unwritten \ {t}
      /\ storage' = list
      /\ drafts' = [drafts EXCEPT ![t] = list]
  BY DEF Change
<1>2. DOMAIN drafts' = Tabs /\ unwritten' \subseteq open' /\ open' \subseteq Tabs
  BY <1>1 DEF DraftsInv
<1>3. CASE conflict \/ t \in behind
  <2>1. conflict'
    BY <1>3 DEF Change, Written
  <2> QED
    BY <1>2, <2>1 DEF DraftsInv, DraftsSurvive
<1>4. CASE ~(conflict \/ t \in behind)
  <2>1. wanted' = usersList /\ behind' = open \ {t} /\ conflict' = conflict
    BY <1>4 DEF Change, Written
  <2>2. list = usersList
    BY <1>1, <1>4 DEF DraftsInv, DraftsSurvive
  <2>3. \A u \in open' \ behind' : drafts'[u] = wanted'
    BY <1>1, <2>1, <2>2 DEF DraftsInv
  <2> QED
    BY <1>1, <1>2, <2>1, <2>2, <2>3 DEF DraftsInv, DraftsSurvive
<1> QED
  BY <1>3, <1>4

\* The drafts of any tab, step by step.
LEMMA SaveKeeps ==
  ASSUME DraftsInv, NEW t \in Tabs, NEW f, Save(t, f) PROVE DraftsInv'
  BY ChangeKeeps DEF Save

LEMMA DeleteKeeps ==
  ASSUME DraftsInv, NEW t \in Tabs, NEW d, Delete(t, d) PROVE DraftsInv'
  BY ChangeKeeps DEF Delete

LEMMA ClearKeeps ==
  ASSUME DraftsInv, NEW t \in Tabs, Clear(t) PROVE DraftsInv'
  BY ChangeKeeps DEF Clear

LEMMA OpenKeeps ==
  ASSUME DraftsInv, NEW t \in Tabs, Open(t) PROVE DraftsInv'
<1>1. \A u \in open' \ behind' : ~conflict => drafts'[u] = wanted
  BY DEF Open, DraftsInv, DraftsSurvive
<1> QED
  BY <1>1 DEF Open, DraftsInv, DraftsSurvive

LEMMA CloseKeeps ==
  ASSUME DraftsInv, NEW t \in Tabs, Close(t) PROVE DraftsInv'
<1>1. CASE open = {t}
  BY <1>1 DEF Close, DraftsInv, DraftsSurvive
<1>2. CASE open # {t}
  BY <1>2 DEF Close, DraftsInv, DraftsSurvive
<1> QED
  BY <1>1, <1>2

\* The first effect writes back what was read, which is the user's list unless
\* another tab has changed it since.
LEMMA FirstEffectKeeps ==
  ASSUME DraftsInv, NEW t \in Tabs, FirstEffect(t) PROVE DraftsInv'
<1>1. CASE conflict \/ t \in behind
  BY <1>1 DEF FirstEffect, Written, DraftsInv, DraftsSurvive
<1>2. CASE ~(conflict \/ t \in behind)
  BY <1>2 DEF FirstEffect, Written, DraftsInv, DraftsSurvive
<1> QED
  BY <1>1, <1>2

LEMMA DraftsFrame ==
  ASSUME DraftsInv, UNCHANGED draftVars PROVE DraftsInv'
  BY DEF DraftsInv, DraftsSurvive, draftVars

\* Drafts outlive views, reloads and tabs (useJobDrafts.js), in any number of
\* tabs, whatever their composers do: the shared list is the user's, and so is
\* the one of every composer that has missed nothing, until one that has missed
\* a change writes.
THEOREM DraftsKept == Spec => []DraftsSurvive
<1>1. Init => DraftsInv
  BY DEF Init, DraftsInit, DraftsInv, DraftsSurvive
<1>2. DraftsInv /\ [Next]_composerVars => DraftsInv'
  <2> SUFFICES ASSUME DraftsInv, [Next]_composerVars PROVE DraftsInv'
    OBVIOUS
  <2> USE FirstTypeAssumption
  <2>1. CASE OpenComposer
    BY <2>1, OpenKeeps DEF OpenComposer
  <2>2. CASE CloseComposer
    BY <2>2, CloseKeeps DEF CloseComposer
  <2>3. ASSUME NEW t \in Tabs, OtherTab(t) PROVE DraftsInv'
    BY <2>3, OpenKeeps, CloseKeeps, SaveKeeps, ClearKeeps, DeleteKeeps DEF OtherTab
  <2>4. ASSUME NEW t \in Tabs, RunEffect(t) PROVE DraftsInv'
    BY <2>4, FirstEffectKeeps DEF RunEffect
  <2>5. CASE SaveDraft
    BY <2>5, SaveKeeps, DraftsFrame DEF SaveDraft
  <2>6. CASE RemoveDrafts
    BY <2>6, ClearKeeps, DeleteKeeps DEF RemoveDrafts
  <2>7. CASE \/ EditField \/ LoadDraft \/ Submit \/ SubmissionStep
             \/ \E t \in Types : ChooseTemplate(t)
             \/ \E file \in Files : PickFile(file)
             \/ \E i \in importing : ImportFile(i)
             \/ UNCHANGED composerVars
    <3>1. UNCHANGED draftVars
      BY <2>7 DEF EditField, LoadDraft, Submit, SubmissionStep, ChooseTemplate,
                  PickFile, ImportFile, composerVars
    <3> QED
      BY <3>1, DraftsFrame
  <2> QED
    BY <2>1, <2>2, <2>3, <2>4, <2>5, <2>6, <2>7 DEF Next
<1>3. DraftsInv => DraftsSurvive
  BY DEF DraftsInv
<1> QED
  BY <1>1, <1>2, <1>3, PTL DEF Spec

----------------------------------------------------------------------------
(***************************************************************************)
(* The lists of drafts are well-formed, and within the cap                 *)
(***************************************************************************)
DraftLists == {l \in Seq(DraftsOver(Forms)) : Len(l) <= DraftCap}

\* DraftsTypeOK, with lists that are sequences.
DraftTypes ==
  /\ storage \in DraftLists
  /\ wanted \in DraftLists
  /\ drafts \in [Tabs -> DraftLists]
  /\ open \in SUBSET Tabs
  /\ unwritten \subseteq open
  /\ behind \subseteq open
  /\ saves \in 0..MaxDrafts
  /\ conflict \in BOOLEAN

LEMMA EmptyDraftList == <<>> \in DraftLists
  BY EmptySeq, DraftsAssumption DEF DraftLists

LEMMA WithDraftTyped ==
  ASSUME NEW l \in DraftLists, NEW f \in Forms, saves \in 0..MaxDrafts, saves < MaxDrafts
  PROVE  WithDraft(l, f) \in DraftLists
<1> DEFINE D == DraftsOver(Forms)
           new == [draftId |-> saves + 1, form |-> f]
           all == <<new>> \o l
<1>1. new \in D
  BY DraftsAssumption DEF DraftsOver
<1>2. l \in Seq(D)
  BY DEF DraftLists
<1> HIDE DEF D, new
<1>3. <<new>> \in Seq(D)
  BY <1>1
<1>4. all \in Seq(D)
  BY <1>2, <1>3, ConcatProperties
<1> HIDE DEF all
<1>5. PICK n \in Nat : n = Min({DraftCap, Len(all)}) /\ n <= DraftCap /\ n <= Len(all)
  <2>1. DraftCap \in Nat /\ Len(all) \in Nat
    BY <1>4, DraftsAssumption
  <2> QED
    BY <2>1, MinOfTwo
<1>6. SubSeq(all, 1, n) \in Seq(D) /\ Len(SubSeq(all, 1, n)) = n
  <2>1. \A i \in 1..n : all[i] \in D
    BY <1>4, <1>5
  <2>2. /\ SubSeq(all, 1, n) \in Seq(D)
        /\ Len(SubSeq(all, 1, n)) = IF 1 <= n THEN n - 1 + 1 ELSE 0
    BY <2>1, SubSeqProperties
  <2> QED
    BY <2>2
<1>7. WithDraft(l, f) = SubSeq(all, 1, n)
  BY <1>5 DEF WithDraft, Capped, all, new
<1> QED
  BY <1>5, <1>6, <1>7 DEF DraftLists, D

LEMMA WithoutTyped ==
  ASSUME NEW l \in DraftLists, NEW d PROVE Without(l, d) \in DraftLists
<1> DEFINE places == {i \in DOMAIN l : l[i].draftId # d}
<1>1. l \in Seq(DraftsOver(Forms)) /\ Len(l) <= DraftCap /\ DraftCap \in Nat
  BY DraftsAssumption DEF DraftLists
<1>2. places \in SUBSET DOMAIN l
  OBVIOUS
<1>3. Without(l, d) = Keep(l, places)
  BY DEF Without
<1> HIDE DEF places
<1>4. /\ Keep(l, places) \in Seq(DraftsOver(Forms))
      /\ Len(Keep(l, places)) = Cardinality(places)
      /\ Cardinality(places) \in 0..Len(l)
  BY <1>1, <1>2, KeepProperties
<1>5. Len(Keep(l, places)) <= DraftCap
  BY <1>1, <1>4
<1> QED
  BY <1>3, <1>4, <1>5 DEF DraftLists

\* What a click in tab t does to the types.
LEMMA ChangeTyped ==
  ASSUME DraftTypes, NEW t \in Tabs, NEW list \in DraftLists, NEW usersList \in DraftLists,
         Change(t, list, usersList), saves' \in 0..MaxDrafts
  PROVE  DraftTypes'
<1>1. wanted' \in DraftLists /\ behind' \subseteq open /\ conflict' \in BOOLEAN
  BY EmptyDraftList DEF Change, Written, DraftTypes
<1>2. /\ drafts' \in [Tabs -> DraftLists] /\ storage' \in DraftLists
      /\ open' = open /\ unwritten' \subseteq open
  BY DEF Change, DraftTypes
<1> QED
  BY <1>1, <1>2 DEF DraftTypes

LEMMA SaveTyped ==
  ASSUME DraftTypes, NEW t \in Tabs, NEW f \in Forms, Save(t, f) PROVE DraftTypes'
<1>1. saves \in 0..MaxDrafts /\ saves < MaxDrafts /\ saves' = saves + 1
  BY DEF Save, DraftTypes
<1>2. WithDraft(drafts[t], f) \in DraftLists /\ WithDraft(wanted, f) \in DraftLists
  BY <1>1, WithDraftTyped DEF DraftTypes
<1>3. saves' \in 0..MaxDrafts
  BY <1>1, DraftsAssumption
<1> QED
  BY <1>2, <1>3, ChangeTyped DEF Save

LEMMA DeleteTyped ==
  ASSUME DraftTypes, NEW t \in Tabs, NEW d, Delete(t, d) PROVE DraftTypes'
<1>1. Without(drafts[t], d) \in DraftLists /\ Without(wanted, d) \in DraftLists
  BY WithoutTyped DEF DraftTypes
<1> QED
  BY <1>1, ChangeTyped DEF Delete, DraftTypes

LEMMA ClearTyped ==
  ASSUME DraftTypes, NEW t \in Tabs, Clear(t) PROVE DraftTypes'
  BY EmptyDraftList, ChangeTyped DEF Clear, DraftTypes

LEMMA OpenTyped ==
  ASSUME DraftTypes, NEW t \in Tabs, Open(t) PROVE DraftTypes'
  BY DEF Open, DraftTypes

LEMMA CloseTyped ==
  ASSUME DraftTypes, NEW t \in Tabs, Close(t) PROVE DraftTypes'
<1>1. drafts' \in [Tabs -> DraftLists]
  BY EmptyDraftList DEF Close, DraftTypes
<1>2. wanted' \in DraftLists /\ conflict' \in BOOLEAN
  BY DEF Close, DraftTypes
<1> QED
  BY <1>1, <1>2 DEF Close, DraftTypes

LEMMA FirstEffectTyped ==
  ASSUME DraftTypes, NEW t \in Tabs, FirstEffect(t) PROVE DraftTypes'
<1>1. wanted' \in DraftLists /\ behind' \subseteq open /\ conflict' \in BOOLEAN
  BY EmptyDraftList DEF FirstEffect, Written, DraftTypes
<1> QED
  BY <1>1 DEF FirstEffect, DraftTypes

LEMMA DraftTypesFrame ==
  ASSUME DraftTypes, UNCHANGED draftVars PROVE DraftTypes'
  BY DEF DraftTypes, draftVars

----------------------------------------------------------------------------
(***************************************************************************)
(* The form is well-formed, and shows the draft or file it was filled from *)
(***************************************************************************)
FieldTypes ==
  /\ form \in Forms
  /\ jsonError \in BOOLEAN
  /\ importing \subseteq [file : Files, type : Templates]
  /\ gestures \in 0..MaxGestures
  /\ loaded \in SUBSET Forms

LoadedIsShown == \A f \in loaded : BatchOf(form) = BatchOf(f)

FieldsInv == FieldTypes /\ LoadedIsShown

LEMMA FirstFormTyped == FirstForm \in Forms
  BY FirstTypeAssumption DEF FirstForm, Template, Templates, Forms, Payloads

\* What loadDraft leaves out or fills in makes no difference to the jobs.
LEMMA FilledFromSame ==
  ASSUME NEW f \in Forms
  PROVE  FilledFrom(f) \in Forms /\ BatchOf(FilledFrom(f)) = BatchOf(f)
<1>1. FilledFrom(f) \in Forms
  BY DEF FilledFrom, Forms, Payloads
<1>2. /\ FilledFrom(f).type = f.type /\ FilledFrom(f).queue = f.queue
      /\ FilledFrom(f).forceFail = f.forceFail
      /\ FilledFrom(f).batchCount = IF f.batchCount = 0 THEN 1 ELSE f.batchCount
      /\ FilledFrom(f).payload = IF f.payload = "" THEN "other" ELSE f.payload
  BY DEF FilledFrom, Forms
<1>3. Count(FilledFrom(f)) = Count(f)
  <2>1. f.batchCount \in {0, 1, 2}
    BY DEF Forms
  <2>2. CASE f.batchCount = 0
    <3>1. FilledFrom(f).batchCount = 1
      BY <1>2, <2>2
    <3>2. Count(FilledFrom(f)) = 1
      BY <3>1 DEF Count
    <3>3. Count(f) = 1
      BY <2>2 DEF Count
    <3> QED
      BY <3>2, <3>3
  <2>3. CASE f.batchCount # 0
    BY <1>2, <2>3 DEF Count
  <2> QED
    BY <2>2, <2>3
<1>4. ASSUME NEW i PROVE Body(FilledFrom(f), i) = Body(f, i)
  BY <1>2, <1>3 DEF Body
<1> QED
  BY <1>1, <1>3, <1>4 DEF BatchOf

LEMMA GestureCounts == ASSUME FieldTypes, Gesture PROVE gestures' \in 0..MaxGestures
  BY ComposerBoundsAssumption DEF Gesture, FieldTypes

\* A file that is a job names a type that has a template, or the type of an older
\* render has one; and a queue, or the template's.
LEMMA NextTyped ==
  ASSUME FieldTypes, NEW i \in importing, i.file # Broken
  PROVE  NextType(i) \in Templates /\ NextQueue(i) \in Types \cup {NoQueue}
<1>1. i.type \in Templates /\ i.file \in JobFiles
  BY FilesAssumption DEF FieldTypes
<1>2. NextType(i) \in Templates
  BY <1>1 DEF NextType
<1>3. Template(NextType(i)).queue \in Types \cup {NoQueue}
  BY DEF Template
<1>4. i.file.queue = Unnamed \/ i.file.queue \in Types
  BY <1>1 DEF JobFiles
<1> QED
  BY <1>2, <1>3, <1>4 DEF NextQueue

LEMMA ImportTyped ==
  ASSUME FieldTypes, NEW i \in importing, i.file # Broken
  PROVE  HalfImported(i) \in Forms /\ Imported(i) \in Forms /\ FileJob(i) \in Forms
<1>1. i.file \in JobFiles
  BY FilesAssumption DEF FieldTypes
<1>2. i.file.payload \in Payloads /\ i.file.batchCount \in {0, 1, 2}
  BY <1>1 DEF JobFiles
<1>3. HalfImported(i) \in Forms
  BY <1>2, NextTyped DEF HalfImported, FieldTypes, Forms
<1>4. Imported(i) \in Forms
  BY <1>2, <1>3 DEF Imported, Forms, Payloads
<1>5. FileJob(i) \in Forms
  BY <1>2, NextTyped DEF FileJob, Forms
<1> QED
  BY <1>3, <1>4, <1>5

\* Every field of the job is set anew, so that nothing of the old form is left.
LEMMA ImportedSame ==
  ASSUME FieldTypes, NEW i \in importing, i.file # Broken
  PROVE  BatchOf(Imported(i)) = BatchOf(FileJob(i))
<1> DEFINE f == Imported(i)
           g == FileJob(i)
<1>1. form \in Forms /\ i.file.batchCount \in {0, 1, 2}
  BY FilesAssumption DEF FieldTypes, JobFiles
<1>2. /\ f.type = NextType(i) /\ f.queue = NextQueue(i)
      /\ f.payload = IF i.file.payload = "" THEN "other" ELSE i.file.payload
      /\ f.forceFail = (i.file.payload = "forced")
      /\ f.batchCount = IF i.file.batchCount = 0 THEN 1 ELSE i.file.batchCount
  BY <1>1 DEF Imported, HalfImported, Forms
<1>3. /\ g.type = NextType(i) /\ g.queue = NextQueue(i) /\ g.payload = i.file.payload
      /\ g.forceFail = FALSE /\ g.batchCount = i.file.batchCount
  BY DEF FileJob
<1> HIDE DEF f, g
<1>4. Count(f) = Count(g)
  <2>1. CASE i.file.batchCount = 0
    <3>1. f.batchCount = 1 /\ g.batchCount = 0
      BY <1>2, <1>3, <2>1
    <3> QED
      BY <3>1 DEF Count
  <2>2. CASE i.file.batchCount # 0
    <3>1. f.batchCount = g.batchCount
      BY <1>2, <1>3, <2>2
    <3> QED
      BY <3>1 DEF Count
  <2> QED
    BY <2>1, <2>2
<1>5. (f.forceFail \/ f.payload = "forced") = (g.forceFail \/ g.payload = "forced")
  BY <1>2, <1>3
<1>6. (IF f.payload = "" THEN "other" ELSE f.payload)
         = (IF g.payload = "" THEN "other" ELSE g.payload)
  BY <1>2, <1>3
<1>7. ASSUME NEW n PROVE Body(f, n) = Body(g, n)
  BY <1>2, <1>3, <1>4, <1>5, <1>6 DEF Body
<1>8. BatchOf(f) = BatchOf(g)
  BY <1>4, <1>7 DEF BatchOf
<1> QED
  BY <1>8 DEF f, g

\* The steps that leave the fields alone, or begin a new form.
LEMMA FieldsFrame ==
  ASSUME FieldsInv, UNCHANGED <<form, loaded>>, jsonError' \in BOOLEAN,
         gestures' \in 0..MaxGestures,
         importing' \subseteq [file : Files, type : Templates]
  PROVE  FieldsInv'
<1>1. FieldTypes'
  BY DEF FieldsInv, FieldTypes
<1>2. LoadedIsShown'
  BY DEF FieldsInv, LoadedIsShown
<1> QED
  BY <1>1, <1>2 DEF FieldsInv

\* The steps that change a field by hand or by a template, and imports that stop half way:
\* what the form shows is no draft and no file any more.
LEMMA FieldsChange ==
  ASSUME FieldsInv, form' \in Forms, loaded' = {}, jsonError' \in BOOLEAN,
         gestures' \in 0..MaxGestures,
         importing' \subseteq [file : Files, type : Templates]
  PROVE  FieldsInv'
  BY DEF FieldsInv, FieldTypes, LoadedIsShown

LEMMA EditFieldKeeps == FieldsInv /\ EditField => FieldsInv'
<1> SUFFICES ASSUME FieldsInv, EditField PROVE FieldsInv'
  OBVIOUS
<1>1. form' \in Forms
  BY DEF EditField, FieldsInv, FieldTypes, Forms, Payloads
<1> QED
  BY <1>1, GestureCounts, FieldsChange DEF EditField, FieldsInv, FieldTypes

LEMMA ChooseTemplateKeeps ==
  ASSUME FieldsInv, NEW t \in Types, ChooseTemplate(t) PROVE FieldsInv'
<1>1. form' \in Forms
  BY DEF ChooseTemplate, Templates, Template, FieldsInv, FieldTypes, Forms, Payloads
<1> QED
  BY <1>1, GestureCounts, FieldsChange DEF ChooseTemplate, FieldsInv, FieldTypes

LEMMA LoadDraftKeeps == DraftTypes /\ FieldsInv /\ LoadDraft => FieldsInv'
<1> SUFFICES ASSUME DraftTypes, FieldsInv, LoadDraft PROVE FieldsInv'
  OBVIOUS
<1>1. PICK d \in Range(drafts[Here]) : form' = FilledFrom(d.form) /\ loaded' = {d.form}
  BY DEF LoadDraft
<1>2. d.form \in Forms
  <2>1. drafts[Here] \in Seq(DraftsOver(Forms))
    BY FirstTypeAssumption DEF DraftTypes, DraftLists
  <2>2. d \in DraftsOver(Forms)
    BY <2>1 DEF Range
  <2> QED
    BY <2>2 DEF DraftsOver
<1>3. form' \in Forms /\ BatchOf(form') = BatchOf(d.form)
  BY <1>1, <1>2, FilledFromSame
<1>4. LoadedIsShown'
  BY <1>1, <1>3 DEF LoadedIsShown
<1> QED
  BY <1>1, <1>2, <1>3, <1>4, GestureCounts DEF LoadDraft, FieldsInv, FieldTypes

LEMMA ImportFileKeeps ==
  ASSUME FieldsInv, NEW i \in importing, ImportFile(i) PROVE FieldsInv'
<1>1. /\ importing' \subseteq [file : Files, type : Templates]
      /\ gestures' \in 0..MaxGestures /\ jsonError' \in BOOLEAN
  BY DEF ImportFile, FieldsInv, FieldTypes
<1>2. CASE i.file = Broken
  BY <1>1, <1>2, FieldsFrame DEF ImportFile
<1>3. CASE i.file # Broken
  <2>1. HalfImported(i) \in Forms /\ Imported(i) \in Forms /\ FileJob(i) \in Forms
    BY <1>3, ImportTyped DEF FieldsInv
  <2>2. CASE i.file.schedule = "number"
    BY <1>1, <1>3, <2>1, <2>2, FieldsChange DEF ImportFile
  <2>3. CASE i.file.schedule # "number"
    <3>1. form' = Imported(i) /\ loaded' = {FileJob(i)}
      BY <1>3, <2>3 DEF ImportFile
    <3>2. BatchOf(form') = BatchOf(FileJob(i))
      BY <1>3, <3>1, ImportedSame DEF FieldsInv
    <3>3. LoadedIsShown'
      BY <3>1, <3>2 DEF LoadedIsShown
    <3>4. FieldTypes'
      BY <1>1, <2>1, <3>1 DEF FieldTypes
    <3> QED
      BY <3>3, <3>4 DEF FieldsInv
  <2> QED
    BY <2>2, <2>3
<1> QED
  BY <1>2, <1>3

LEMMA FieldsStep == DraftTypes /\ FieldsInv /\ [Next]_composerVars => FieldsInv'
<1> SUFFICES ASSUME DraftTypes, FieldsInv, [Next]_composerVars PROVE FieldsInv'
  OBVIOUS
<1>0. FieldTypes
  BY DEF FieldsInv
<1>1. CASE UNCHANGED formVars
  BY <1>0, <1>1, FieldsFrame DEF formVars, FieldTypes
<1>2. CASE CloseComposer
  BY <1>0, <1>2, FirstFormTyped, FieldsChange DEF CloseComposer, FieldTypes
<1>3. CASE EditField
  BY <1>3, EditFieldKeeps
<1>4. ASSUME NEW t \in Types, ChooseTemplate(t) PROVE FieldsInv'
  BY <1>4, ChooseTemplateKeeps
<1>5. CASE SaveDraft
  BY <1>0, <1>5, FieldsFrame DEF SaveDraft, FieldTypes
<1>6. CASE LoadDraft
  BY <1>6, LoadDraftKeeps
<1>7. ASSUME NEW file \in Files, PickFile(file) PROVE FieldsInv'
  <2>1. importing' \subseteq [file : Files, type : Templates]
    <3>1. [file |-> file, type |-> form.type] \in [file : Files, type : Templates]
      BY <1>0 DEF FieldTypes, Forms
    <3> QED
      BY <1>0, <1>7, <3>1 DEF PickFile, FieldTypes
  <2> QED
    BY <1>0, <1>7, <2>1, GestureCounts, FieldsFrame DEF PickFile, FieldTypes
<1>8. ASSUME NEW i \in importing, ImportFile(i) PROVE FieldsInv'
  BY <1>8, ImportFileKeeps
<1>9. CASE Submit
  BY <1>0, <1>9, GestureCounts, FieldsFrame DEF Submit, FieldTypes
<1>10. CASE SubmissionStep
  BY <1>0, <1>10, FieldsFrame DEF SubmissionStep, FieldTypes
<1> QED
  BY <1>1, <1>2, <1>3, <1>4, <1>5, <1>6, <1>7, <1>8, <1>9, <1>10
     DEF Next, OpenComposer, OtherTab, RunEffect, RemoveDrafts, composerVars

----------------------------------------------------------------------------
(***************************************************************************)
(* What is submitted is what was shown                                     *)
(***************************************************************************)
Bodies == [type : Templates, queue : Types \cup {NoQueue}, payload : Payloads,
           forceFail : BOOLEAN, batchIndex : Nat]

SubmissionRecords == [form : Forms, created : Seq(Bodies)]

\* The jobs created so far are the first ones of the batch.
AsShown(s) ==
  /\ Len(s.created) <= Count(s.form)
  /\ \A i \in 1..Len(s.created) : s.created[i] = Body(s.form, i)

SubmissionsInv ==
  /\ submissions \in Seq(SubmissionRecords)
  /\ Len(submissions) <= MaxSubmissions
  /\ \A k \in 1..Len(submissions) : AsShown(submissions[k])

LEMMA BodyTyped ==
  ASSUME NEW f \in Forms, NEW i \in Nat
  PROVE  Count(f) \in Nat /\ Body(f, i) \in Bodies
<1>1. f.batchCount \in {0, 1, 2}
  BY DEF Forms
<1>2. Count(f) \in Nat
  BY <1>1 DEF Count
<1>3. /\ f.type \in Templates /\ f.queue \in Types \cup {NoQueue} /\ f.forceFail \in BOOLEAN
      /\ f.payload \in Payloads /\ "other" \in Payloads
  BY DEF Forms, Payloads
<1>4. (f.forceFail \/ f.payload = "forced") \in BOOLEAN
  OBVIOUS
<1>5. (IF Count(f) = 1 THEN 0 ELSE i) \in Nat
  OBVIOUS
<1>6. (IF f.payload = "" THEN "other" ELSE f.payload) \in Payloads
  BY <1>3
<1> QED
  BY <1>2, <1>3, <1>4, <1>5, <1>6 DEF Body, Bodies

\* The batch, cut after the jobs that are created.
LEMMA AsShownIsPrefix ==
  ASSUME NEW s \in SubmissionRecords, AsShown(s)
  PROVE  s.created = SubSeq(BatchOf(s.form), 1, Len(s.created))
<1> DEFINE b == BatchOf(s.form)
           n == Len(s.created)
<1>1. s.form \in Forms /\ s.created \in Seq(Bodies) /\ n \in Nat
  BY DEF SubmissionRecords
<1>2. Count(s.form) \in Nat /\ n <= Count(s.form)
  BY <1>1, BodyTyped DEF AsShown
<1>3. \A i \in 1..n : b[i] = Body(s.form, i) /\ b[i] \in Bodies
  BY <1>1, <1>2, BodyTyped DEF BatchOf
<1> HIDE DEF b
<1>4. /\ SubSeq(b, 1, n) \in Seq(Bodies)
      /\ Len(SubSeq(b, 1, n)) = IF 1 <= n THEN n - 1 + 1 ELSE 0
      /\ \A i \in 1..(n - 1 + 1) : SubSeq(b, 1, n)[i] = b[1 + i - 1]
  BY <1>1, <1>3, SubSeqProperties
<1>5. Len(SubSeq(b, 1, n)) = n /\ \A i \in 1..n : SubSeq(b, 1, n)[i] = b[i]
  BY <1>1, <1>4
<1>6. \A i \in 1..n : s.created[i] = SubSeq(b, 1, n)[i]
  BY <1>3, <1>5 DEF AsShown
<1> HIDE DEF n
<1>7. Len(s.created) = Len(SubSeq(b, 1, n))
  BY <1>5 DEF n
<1>8. s.created = SubSeq(b, 1, n)
  BY <1>1, <1>4, <1>6, <1>7, SeqEqual DEF n
<1> QED
  BY <1>8 DEF n, b

\* A further job of the batch of submission k, made of the form it was submitted with.
LEMMA PostKeeps ==
  ASSUME SubmissionsInv, NEW k \in DOMAIN submissions, Post(k) PROVE SubmissionsInv'
<1> DEFINE s == submissions[k]
           i == Len(s.created) + 1
           body == Body(s.form, i)
           new == [s EXCEPT !.created = Append(@, body)]
<1>1. k \in 1..Len(submissions) /\ Len(submissions) \in Nat
      /\ submissions \in Seq(SubmissionRecords)
  BY DEF SubmissionsInv
<1>2. s \in SubmissionRecords /\ AsShown(s)
  BY <1>1 DEF SubmissionsInv
<1>3. /\ s.form \in Forms /\ s.created \in Seq(Bodies)
      /\ Len(s.created) \in Nat /\ i \in Nat /\ i <= Count(s.form)
  BY <1>2 DEF SubmissionRecords, Post
<1>4. body \in Bodies
  BY <1>3, BodyTyped
<1>5. submissions' = [submissions EXCEPT ![k] = new]
  BY DEF Post
<1>6. new.form = s.form /\ new.created = Append(s.created, body)
  BY <1>2 DEF SubmissionRecords
<1> HIDE DEF s, body
<1>7. new = [form |-> s.form, created |-> Append(s.created, body)]
  <2>1. s = [form |-> s.form, created |-> s.created]
    BY <1>2 DEF SubmissionRecords
  <2> QED
    BY <2>1
<1> HIDE DEF new
<1>8. /\ Append(s.created, body) \in Seq(Bodies)
      /\ Len(Append(s.created, body)) = i
      /\ \A m \in 1..Len(s.created) : Append(s.created, body)[m] = s.created[m]
      /\ Append(s.created, body)[i] = body
  BY <1>3, <1>4, AppendProperties
<1>9. new \in SubmissionRecords
  BY <1>3, <1>7, <1>8 DEF SubmissionRecords
<1>10. AsShown(new)
  <2>1. \A m \in 1..i : new.created[m] = Body(s.form, m)
    <3> SUFFICES ASSUME NEW m \in 1..i PROVE new.created[m] = Body(s.form, m)
      OBVIOUS
    <3>1. CASE m = i
      BY <1>6, <1>8, <3>1 DEF body
    <3>2. CASE m # i
      <4>1. m \in 1..Len(s.created)
        BY <1>3, <3>2
      <4> QED
        BY <1>2, <1>6, <1>8, <4>1 DEF AsShown
    <3> QED
      BY <3>1, <3>2
  <2> QED
    BY <1>3, <1>6, <1>8, <2>1 DEF AsShown
<1>11. /\ submissions' \in Seq(SubmissionRecords)
       /\ Len(submissions') = Len(submissions)
       /\ \A m \in 1..Len(submissions) :
            submissions'[m] = IF m = k THEN new ELSE submissions[m]
  BY <1>1, <1>5, <1>9, ExceptSeq
<1> QED
  BY <1>10, <1>11 DEF SubmissionsInv

LEMMA EndSubmissionKeeps ==
  ASSUME SubmissionsInv, NEW k \in DOMAIN submissions, EndSubmission(k)
  PROVE  SubmissionsInv'
<1>1. submissions \in Seq(SubmissionRecords) /\ Len(submissions) \in Nat
      /\ k \in 1..Len(submissions)
  BY DEF SubmissionsInv
<1>2. /\ submissions' \in Seq(SubmissionRecords)
      /\ Len(submissions') = Len(submissions) - 1
      /\ \A j \in 1..(Len(submissions) - 1) :
           submissions'[j] = IF j < k THEN submissions[j] ELSE submissions[j + 1]
  BY <1>1, RemoveAtProperties DEF EndSubmission
<1>3. ASSUME NEW j \in 1..Len(submissions') PROVE AsShown(submissions'[j])
  <2>1. j \in 1..Len(submissions) /\ j + 1 \in 1..Len(submissions)
        /\ j \in 1..(Len(submissions) - 1)
    BY <1>1, <1>2
  <2>2. AsShown(submissions[j]) /\ AsShown(submissions[j + 1])
    BY <2>1 DEF SubmissionsInv
  <2> QED
    BY <1>2, <2>1, <2>2
<1>4. Len(submissions') <= MaxSubmissions
  BY <1>1, <1>2, ComposerBoundsAssumption DEF SubmissionsInv
<1> QED
  BY <1>2, <1>3, <1>4 DEF SubmissionsInv

\* A new submission has the form as it is shown, and no job yet.
LEMMA SubmitKeeps == FieldTypes /\ SubmissionsInv /\ Submit => SubmissionsInv'
<1> SUFFICES ASSUME FieldTypes, SubmissionsInv, Submit PROVE SubmissionsInv'
  OBVIOUS
<1> DEFINE new == [form |-> form, created |-> <<>>]
<1>1. CASE form.payload = "broken"
  BY <1>1 DEF Submit, SubmissionsInv
<1>2. CASE form.payload # "broken"
  <2>1. new \in SubmissionRecords
    BY EmptySeq DEF SubmissionRecords, FieldTypes
  <2>2. AsShown(new)
    <3>1. Count(form) \in Nat
      BY BodyTyped DEF FieldTypes
    <3>2. new.created = <<>> /\ new.form = form /\ Len(<<>>) = 0
      OBVIOUS
    <3> HIDE DEF new
    <3> QED
      BY <3>1, <3>2 DEF AsShown
  <2>3. Len(submissions) < MaxSubmissions /\ submissions' = Append(submissions, new)
    BY <1>2 DEF Submit
  <2> HIDE DEF new
  <2>4. /\ submissions' \in Seq(SubmissionRecords)
        /\ Len(submissions') = Len(submissions) + 1
        /\ \A k \in 1..Len(submissions) : submissions'[k] = submissions[k]
        /\ submissions'[Len(submissions) + 1] = new
    BY <2>1, <2>3, AppendProperties DEF SubmissionsInv
  <2>5. Len(submissions) \in Nat /\ MaxSubmissions \in Nat
    BY ComposerBoundsAssumption DEF SubmissionsInv
  <2>6. ASSUME NEW k \in 1..Len(submissions') PROVE AsShown(submissions'[k])
    <3>1. CASE k = Len(submissions) + 1
      BY <2>2, <2>4, <3>1
    <3>2. CASE k # Len(submissions) + 1
      <4>1. k \in 1..Len(submissions)
        BY <2>4, <2>5, <3>2
      <4> QED
        BY <2>4, <4>1 DEF SubmissionsInv
    <3> QED
      BY <3>1, <3>2
  <2>7. Len(submissions') <= MaxSubmissions
    BY <2>3, <2>4, <2>5
  <2> QED
    BY <2>4, <2>6, <2>7 DEF SubmissionsInv
<1> QED
  BY <1>1, <1>2

LEMMA SubmissionsFrame ==
  ASSUME SubmissionsInv, UNCHANGED submissions PROVE SubmissionsInv'
  BY DEF SubmissionsInv

LEMMA SubmissionsStep == FieldTypes /\ SubmissionsInv /\ [Next]_composerVars => SubmissionsInv'
<1> SUFFICES ASSUME FieldTypes, SubmissionsInv, [Next]_composerVars PROVE SubmissionsInv'
  OBVIOUS
<1>1. CASE Submit
  BY <1>1, SubmitKeeps
<1>2. CASE SubmissionStep
  BY <1>2, PostKeeps, EndSubmissionKeeps DEF SubmissionStep
<1>3. CASE ~(Submit \/ SubmissionStep)
  <2>1. UNCHANGED submissions
    BY <1>3 DEF Next, OpenComposer, CloseComposer, OtherTab, RunEffect, EditField,
                ChooseTemplate, SaveDraft, LoadDraft, RemoveDrafts, PickFile, ImportFile,
                formVars, composerVars
  <2> QED
    BY <2>1, SubmissionsFrame
<1> QED
  BY <1>1, <1>2, <1>3

----------------------------------------------------------------------------
(***************************************************************************)
(* The theorems                                                            *)
(***************************************************************************)
LEMMA DraftTypesStep == DraftTypes /\ FieldTypes /\ [Next]_composerVars => DraftTypes'
<1> SUFFICES ASSUME DraftTypes, FieldTypes, [Next]_composerVars PROVE DraftTypes'
  OBVIOUS
<1> USE FirstTypeAssumption
<1>1. CASE OpenComposer
  BY <1>1, OpenTyped DEF OpenComposer
<1>2. CASE CloseComposer
  BY <1>2, CloseTyped DEF CloseComposer
<1>3. ASSUME NEW t \in Tabs, OtherTab(t) PROVE DraftTypes'
  BY <1>3, OpenTyped, CloseTyped, SaveTyped, ClearTyped, DeleteTyped, FirstFormTyped
     DEF OtherTab
<1>4. ASSUME NEW t \in Tabs, RunEffect(t) PROVE DraftTypes'
  BY <1>4, FirstEffectTyped DEF RunEffect
<1>5. CASE SaveDraft
  BY <1>5, SaveTyped, DraftTypesFrame DEF SaveDraft, FieldTypes
<1>6. CASE RemoveDrafts
  BY <1>6, ClearTyped, DeleteTyped DEF RemoveDrafts
<1>7. CASE \/ EditField \/ LoadDraft \/ Submit \/ SubmissionStep
           \/ \E t \in Types : ChooseTemplate(t)
           \/ \E file \in Files : PickFile(file)
           \/ \E i \in importing : ImportFile(i)
           \/ UNCHANGED composerVars
  <2>1. UNCHANGED draftVars
    BY <1>7 DEF EditField, LoadDraft, Submit, SubmissionStep, ChooseTemplate,
                PickFile, ImportFile, composerVars
  <2> QED
    BY <2>1, DraftTypesFrame
<1> QED
  BY <1>1, <1>2, <1>3, <1>4, <1>5, <1>6, <1>7 DEF Next

\* The three parts together are inductive.
ComposerInv == DraftTypes /\ FieldsInv /\ SubmissionsInv

LEMMA ComposerInit == Init => ComposerInv
<1> SUFFICES ASSUME Init PROVE ComposerInv
  OBVIOUS
<1>1. DraftTypes
  <2>1. 0 \in 0..MaxDrafts
    BY DraftsAssumption
  <2>2. drafts \in [Tabs -> DraftLists]
    BY EmptyDraftList DEF Init, DraftsInit
  <2> QED
    BY <2>1, <2>2, EmptyDraftList DEF Init, DraftsInit, DraftTypes
<1>2. FieldsInv
  <2>1. 0 \in 0..MaxGestures
    BY ComposerBoundsAssumption
  <2>2. FieldTypes
    BY <2>1, FirstFormTyped DEF Init, FieldTypes
  <2> QED
    BY <2>2 DEF Init, FieldsInv, LoadedIsShown
<1>3. SubmissionsInv
  BY ComposerBoundsAssumption DEF Init, SubmissionsInv
<1> QED
  BY <1>1, <1>2, <1>3 DEF ComposerInv

LEMMA ComposerStep == ComposerInv /\ [Next]_composerVars => ComposerInv'
  BY DraftTypesStep, FieldsStep, SubmissionsStep DEF ComposerInv, FieldsInv

\* Whatever is edited, chosen, loaded, imported or saved, in any number of tabs and with
\* any files: the form and the lists of drafts are well-formed, and a form that shows a
\* draft or an imported file creates the jobs of the form that was saved, or of the file
\* (JobComposer.jsx, useJobDrafts.js).
THEOREM FormCorrect == Spec => []FormInv
<1>1. ComposerInv => FormInv
  <2> SUFFICES ASSUME ComposerInv PROVE FormInv
    OBVIOUS
  <2>1. ASSUME NEW list \in DraftLists
        PROVE  Range(list) \subseteq DraftsOver(Forms) /\ Len(list) <= DraftCap
    BY DEF DraftLists, Range
  <2>2. DraftsTypeOK(Forms)
    BY <2>1 DEF ComposerInv, DraftTypes, DraftsTypeOK
  <2> QED
    BY <2>2 DEF ComposerInv, FieldsInv, FieldTypes, LoadedIsShown, SubmissionsInv,
                FormInv, TypeOK
<1> QED
  BY <1>1, ComposerInit, ComposerStep, PTL DEF Spec

\* Whatever happens to the form, the view and the drafts while a batch is under way, and
\* however many batches are: its jobs are those of the form that was shown when the
\* button was pressed, in their order and without a gap (submit, createJobs).
THEOREM SubmittedCorrect == Spec => []SubmittedAsShown
<1>1. ComposerInv => SubmittedAsShown
  <2> SUFFICES ASSUME ComposerInv, NEW k \in DOMAIN submissions
               PROVE  submissions[k].created
                        = SubSeq(BatchOf(submissions[k].form), 1, Len(submissions[k].created))
    BY DEF SubmittedAsShown
  <2>1. submissions[k] \in SubmissionRecords /\ AsShown(submissions[k])
    BY DEF ComposerInv, SubmissionsInv
  <2> QED
    BY <2>1, AsShownIsPrefix
<1> QED
  BY <1>1, ComposerInit, ComposerStep, PTL DEF Spec
=============================================================================
