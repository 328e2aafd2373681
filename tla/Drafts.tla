------------------------------- MODULE Drafts -------------------------------
(***************************************************************************)
(* The saved drafts of the composer (web/src/hooks/useJobDrafts.js and     *)
(* components/JobDraftsPanel.jsx): every open composer keeps a copy of the *)
(* list and writes it as a whole to the localStorage all tabs share.       *)
(* A composer opens with its view and closes with it.                      *)
(***************************************************************************)
EXTENDS Integers, SequencesExt, Lists

CONSTANTS
  Tabs,      \* browser tabs of one user
  DraftCap,  \* drafts kept (8)
  MaxDrafts  \* bound on the drafts ever saved

ASSUME DraftsAssumption == DraftCap \in Nat \ {0} /\ MaxDrafts \in Nat

VARIABLES
  storage,    \* localStorage: the list under jobflow_job_drafts
  open,       \* tabs whose composer is mounted
  drafts,     \* the drafts state of each tab
  unwritten,  \* tabs whose first effect has not run yet
  saves,      \* number of drafts saved; a draft is known by its number
  \* history
  conflict,   \* a tab that had missed a change has written its list
  wanted,     \* until then, the list the user has made, in whatever tab
  behind      \* until then, the tabs that have missed a change made elsewhere

draftVars == <<storage, open, drafts, unwritten, saves, wanted, behind, conflict>>

DraftsInit ==
  /\ storage = <<>>
  /\ open = {}
  /\ drafts = [t \in Tabs |-> <<>>]
  /\ unwritten = {}
  /\ saves = 0
  /\ wanted = <<>>
  /\ behind = {}
  /\ conflict = FALSE

\* Mutant: the list is not read again when a composer opens.
OpenWithOldList(t) ==
  /\ t \notin open
  /\ open' = open \cup {t}
  /\ unwritten' = unwritten \cup {t}
  /\ behind' = behind \ {t}
  /\ UNCHANGED <<storage, drafts, saves, wanted, conflict>>

\* A composer is mounted: readDrafts gives the state its first value.
Open(t) ==
  /\ t \notin open
  /\ open' = open \cup {t}
  /\ drafts' = [drafts EXCEPT ![t] = storage]
  /\ unwritten' = unwritten \cup {t}
  /\ behind' = behind \ {t}
  /\ UNCHANGED <<storage, saves, wanted, conflict>>

\* Tab t has written its list; if it was not behind, the user's list is now w and
\* the tabs in b have missed something.
Written(t, w, b) ==
  IF conflict \/ t \in behind
    THEN conflict' = TRUE /\ wanted' = <<>> /\ behind' = {}
    ELSE wanted' = w /\ behind' = b /\ UNCHANGED conflict

\* The effect runs after the first render, too: it writes back what was read.
FirstEffect(t) ==
  /\ t \in unwritten
  /\ unwritten' = unwritten \ {t}
  /\ storage' = drafts[t]
  /\ Written(t, wanted, behind)
  /\ UNCHANGED <<open, drafts, saves>>

\* The composer is unmounted, or its tab closed.  When no composer is left, what
\* the users have is what they will find.
Close(t) ==
  /\ t \in open
  /\ open' = open \ {t}
  /\ drafts' = [drafts EXCEPT ![t] = <<>>]
  /\ unwritten' = unwritten \ {t}
  /\ behind' = behind \ {t}
  /\ IF open = {t} THEN wanted' = storage /\ conflict' = FALSE
                   ELSE UNCHANGED <<wanted, conflict>>
  /\ UNCHANGED <<storage, saves>>

Capped(list) == SubSeq(list, 1, Min({DraftCap, Len(list)}))

\* What the clicks make of a list.
WithDraft(list, form) ==
  Capped(<<[draftId |-> saves + 1, form |-> form]>> \o list)

Without(list, draftId) == Keep(list, {i \in DOMAIN list : list[i].draftId # draftId})

\* A click in tab t: a new state, rendered and written before the next event.
\* The user's own list changes alike.
Change(t, list, usersList) ==
  /\ t \in open
  /\ drafts' = [drafts EXCEPT ![t] = list]
  /\ storage' = list
  /\ unwritten' = unwritten \ {t}
  /\ Written(t, usersList, open \ {t})
  /\ UNCHANGED open

Save(t, form) ==
  /\ saves < MaxDrafts
  /\ saves' = saves + 1
  /\ Change(t, WithDraft(drafts[t], form), WithDraft(wanted, form))

Delete(t, draftId) ==
  /\ draftId \in {d.draftId : d \in Range(drafts[t])}
  /\ Change(t, Without(drafts[t], draftId), Without(wanted, draftId))
  /\ UNCHANGED saves

\* The button is disabled while there are no drafts.
Clear(t) ==
  /\ drafts[t] # <<>>
  /\ Change(t, <<>>, <<>>)
  /\ UNCHANGED saves

----------------------------------------------------------------------------
DraftsOver(forms) == [draftId : 1..MaxDrafts, form : forms]

DraftsTypeOK(forms) ==
  /\ \A list \in {storage, wanted} \cup {drafts[t] : t \in Tabs} :
       Range(list) \subseteq DraftsOver(forms) /\ Len(list) <= DraftCap
  /\ DOMAIN drafts = Tabs
  /\ open \in SUBSET Tabs
  /\ unwritten \cup behind \subseteq open
  /\ saves \in 0..MaxDrafts
  /\ conflict \in BOOLEAN

\* Drafts outlive views, reloads and tabs: unless a composer that had missed a
\* change made elsewhere has written its own list over it, the shared list is
\* the newest drafts saved and not removed in any tab, and every composer that
\* has missed nothing shows it.  (useJobDrafts.js does not listen to changes of
\* other tabs, so two composers open at once do overwrite each other.)
DraftsSurvive ==
  ~conflict =>
    /\ storage = wanted
    /\ \A t \in open \ behind : drafts[t] = wanted
=============================================================================
