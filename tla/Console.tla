------------------------------ MODULE Console ------------------------------
(***************************************************************************)
(* The page around the list of jobs (web/src/App.jsx, JobTable.jsx,        *)
(* ConfirmDialog.jsx, AuthScreen.jsx, views/useJobFilters.js): the filtered *)
(* and paged table, its check boxes, the bulk actions, the one dialog that *)
(* confirms, and signing in and out.                                       *)
(*                                                                         *)
(* The list changes under the user's hands, since every event refreshes    *)
(* it; an action that runs job by job keeps the jobs of the render it was  *)
(* started in.  How refreshes overtake each other is the matter of         *)
(* Dashboard: here a refresh copies the jobs of the server in one step.    *)
(***************************************************************************)
EXTENDS Integers, SequencesExt, Lists

CONSTANTS
  MaxJobs,     \* bound on the jobs of the user, numbered in the order of creation
  PageSizes,   \* rows of a page to choose from
  FirstPageSize,
  Views,       \* entries of the sidebar
  TableViews,  \* those with a table
  FilterStatuses,  \* entries of the status filter
  MaxRetries   \* bound on the retries under way

ASSUME ConsoleAssumption ==
  /\ MaxJobs \in Nat \ {0}
  /\ PageSizes \subseteq Nat \ {0} /\ FirstPageSize \in PageSizes
  /\ TableViews \subseteq Views
  /\ FilterStatuses \subseteq {"all", "queued", "dead_letter"}

JobIds == 1..MaxJobs

\* The statuses a retry tells apart; and a job that is not in the list yet.
Statuses == {"queued", "dead_letter"}
Absent == "absent"
AllJobs == "all"

VARIABLES
  status,       \* the jobs at the server
  jobs,         \* the jobs state: the list as last read
  authed,       \* there is a token
  auth,         \* the sign-in form: its mode, busy, and the mode of its request
  view,         \* activeView
  filters,      \* of the mounted table
  ticked,       \* selectedIds of the mounted table
  confirm,      \* the dialog: its action, its jobs, and whether their table is there
  confirmBusy,
  runs          \* retries and cancellations under way, in the order of their start

tableVars == <<filters, ticked>>
dialogVars == <<confirm, confirmBusy>>
consoleVars == <<status, jobs, authed, auth, view, tableVars, dialogVars, runs>>

FirstFilters == [status |-> AllJobs, page |-> 1, pageSize |-> FirstPageSize]
NoDialog == [action |-> "none", jobs |-> <<>>, mounted |-> FALSE]
NoRequest == "none"
FirstAuth == [mode |-> "login", busy |-> FALSE, request |-> NoRequest]

Init ==
  /\ status = [j \in JobIds |-> "queued"]
  /\ jobs = [j \in JobIds |-> Absent]
  /\ authed = FALSE
  /\ auth = FirstAuth
  /\ view \in TableViews
  /\ filters = FirstFilters
  /\ ticked = {}
  /\ confirm = NoDialog
  /\ confirmBusy = FALSE
  /\ runs = <<>>

----------------------------------------------------------------------------
(***************************************************************************)
(* What is shown                                                           *)
(***************************************************************************)
TableShown == authed /\ view \in TableViews

Matches(j) == /\ jobs[j] # Absent
              /\ filters.status \in {AllJobs, jobs[j]}

\* allFilteredJobs: the matching jobs, newest first; the other orders are left out.
NewestFirst == [i \in JobIds |-> MaxJobs + 1 - i]

SortedJobs == Keep(NewestFirst, {i \in JobIds : Matches(NewestFirst[i])})

PageSize == filters.pageSize

\* Math.ceil; an empty list has one empty page.
PageCount == Max({1, (Len(SortedJobs) + PageSize - 1) \div PageSize})

\* Mutant: the page is not kept within the pages there are.
PageUnclamped == filters.page

\* The page shown: the chosen one, or the last one while there are fewer.
Page == Min({filters.page, PageCount})

\* The rows of page p; and filteredJobs, the rows shown.
RowsOf(p) ==
  LET list == SortedJobs
  IN  SubSeq(list, (p - 1) * PageSize + 1, Min({p * PageSize, Len(list)}))

Rows == RowsOf(Page)

\* selectedJobs: ticked jobs that match, on whatever page; others keep their tick.
SelectedJobs ==
  LET list == SortedJobs
  IN  Keep(list, {i \in DOMAIN list : list[i] \in ticked})

----------------------------------------------------------------------------
(***************************************************************************)
(* The server, and refreshes                                               *)
(***************************************************************************)
\* A job fails for good, or is put back in the queue by other means: in another
\* tab, or with the icon of its row, which touches nothing here but the list.
JobChanges(j) ==
  /\ status' = [status EXCEPT ![j] = IF @ = "queued" THEN "dead_letter" ELSE "queued"]
  /\ UNCHANGED <<jobs, authed, auth, view, tableVars, dialogVars, runs>>

\* An event, a button or the sign-in refreshes the list.
Refresh ==
  /\ authed
  /\ jobs' = status
  /\ UNCHANGED <<status, authed, auth, view, tableVars, dialogVars, runs>>

----------------------------------------------------------------------------
(***************************************************************************)
(* AuthScreen                                                              *)
(***************************************************************************)
\* The two buttons, also while a request is under way.
ChooseMode(mode) ==
  /\ ~authed
  /\ auth' = [auth EXCEPT !.mode = mode]
  /\ UNCHANGED <<status, jobs, authed, view, tableVars, dialogVars, runs>>

\* submit: a registration with two different passwords is not sent.
SubmitAuth(passwordsMatch) ==
  /\ ~authed /\ ~auth.busy
  /\ auth' = IF auth.mode = "register" /\ ~passwordsMatch
               THEN [auth EXCEPT !.busy = FALSE]
               ELSE [auth EXCEPT !.busy = TRUE, !.request = auth.mode]
  /\ UNCHANGED <<status, jobs, authed, view, tableVars, dialogVars, runs>>

\* The table goes: the next one starts with no filter and no tick, and what is
\* under way has no table any more.
Unmount ==
  /\ filters' = FirstFilters
  /\ ticked' = {}
  /\ runs' = [k \in DOMAIN runs |-> [runs[k] EXCEPT !.mounted = FALSE]]

\* The request is answered: the page appears, in the view it was left in; or an
\* error is shown.
AuthAnswered ==
  /\ auth.request # NoRequest
  /\ \/ authed' = TRUE /\ auth' = FirstAuth
     \/ authed' = FALSE /\ auth' = [auth EXCEPT !.busy = FALSE, !.request = NoRequest]
  /\ UNCHANGED <<status, jobs, view, tableVars, dialogVars, runs>>

----------------------------------------------------------------------------
(***************************************************************************)
(* Views, filters, pages and check boxes                                   *)
(***************************************************************************)
\* The sidebar.  What is still to be confirmed has no table any more, either.
Navigate(v) ==
  /\ authed /\ v # view
  /\ view' = v
  /\ Unmount
  /\ confirm' = [confirm EXCEPT !.mounted = FALSE]
  /\ UNCHANGED <<status, jobs, authed, auth, confirmBusy>>

\* The filters a change starts from; and the hook's setter.
ShownFilters == [filters EXCEPT !.page = Page]

UpdateFilters(next) ==
  /\ TableShown
  /\ filters' = next
  /\ UNCHANGED <<status, jobs, authed, auth, view, ticked, dialogVars, runs>>

\* A filter keeps the page; the search box and the queue are alike.
ChangeFilter ==
  LET shown == ShownFilters
  IN  \E s \in FilterStatuses : UpdateFilters([shown EXCEPT !.status = s])

\* Another size begins with the first page.
ChangePageSize ==
  \E n \in PageSizes : UpdateFilters([filters EXCEPT !.pageSize = n, !.page = 1])

TurnPage ==
  LET shown == ShownFilters
  IN  \/ /\ shown.page < PageCount
         /\ UpdateFilters([shown EXCEPT !.page = @ + 1])
      \/ /\ shown.page > 1
         /\ UpdateFilters([shown EXCEPT !.page = @ - 1])

Tick(ticks) ==
  /\ ticked' = ticks
  /\ UNCHANGED <<status, jobs, authed, auth, view, filters, dialogVars, runs>>

\* The box of a row.
ToggleJob ==
  /\ TableShown
  /\ \E j \in Range(Rows) : Tick(IF j \in ticked THEN ticked \ {j} ELSE ticked \cup {j})

AllSelected(rows) == rows # {} /\ rows \subseteq ticked

\* The box in the head ticks the rows of the page, or unticks them if all are.
TogglePage ==
  LET rows == Range(Rows)
  IN  /\ TableShown
      /\ Tick(IF AllSelected(rows) THEN ticked \ rows ELSE ticked \cup rows)

----------------------------------------------------------------------------
(***************************************************************************)
(* Actions that run job by job                                             *)
(***************************************************************************)
Start(action, from, list, mounted) ==
  runs' = Append(runs, [action |-> action, from |-> from, jobs |-> list,
                        left |-> list, done |-> {}, answer |-> "waiting",
                        mounted |-> mounted])

\* bulkRetry, which is not disabled while it runs.
PressRetry ==
  /\ TableShown
  /\ Cardinality({k \in DOMAIN runs : runs[k].action = "retry"}) < MaxRetries
  /\ LET list == SelectedJobs IN list # <<>> /\ Start("retry", "bulk", list, TRUE)
  /\ UNCHANGED <<status, jobs, authed, auth, view, tableVars, dialogVars>>

\* POST /:id/retry takes a job that has failed for good; DELETE /:id/cancel, which
\* the dashboard calls to cancel, is no route of the API.
Accepted(run) ==
  run.action = "retry" /\ status[Head(run.left)] = "dead_letter"

\* Mutant: a call that is refused is passed over.
ServeLeniently(k) ==
  /\ runs[k].answer = "waiting"
  /\ runs' = [runs EXCEPT ![k].answer = "accepted"]
  /\ UNCHANGED <<status, jobs, authed, auth, view, tableVars, dialogVars>>

\* The server handles the call for the next job.
Serve(k) ==
  LET j == Head(runs[k].left)
  IN  /\ runs[k].answer = "waiting" /\ Accepted(runs[k])
      /\ status' = [status EXCEPT ![j] = "queued"]
      /\ runs' = [runs EXCEPT ![k].answer = "accepted", ![k].done = @ \cup {j}]
      /\ UNCHANGED <<jobs, authed, auth, view, tableVars, dialogVars>>

\* The refresh that follows is awaited, and may fail; the loop goes on.
NextOfRun(k) ==
  /\ runs[k].answer = "accepted" /\ Len(runs[k].left) > 1
  /\ jobs' \in {jobs, status}
  /\ runs' = [runs EXCEPT ![k].left = Tail(@), ![k].answer = "waiting"]
  /\ UNCHANGED <<status, authed, auth, view, tableVars, dialogVars>>

\* What the end of a completed action does to the ticks.
TicksAfter(run) ==
  IF ~run.mounted THEN ticked
  ELSE IF run.from = "job" THEN ticked \ Range(run.jobs) ELSE {}

\* After the last job; the dialog an action was confirmed in goes.
RunSucceeds(k) ==
  /\ runs[k].answer = "accepted" /\ Len(runs[k].left) = 1
  /\ jobs' \in {jobs, status}
  /\ runs' = RemoveAt(runs, k)
  /\ ticked' = TicksAfter(runs[k])
  /\ IF runs[k].action = "cancel" THEN confirm' = NoDialog /\ confirmBusy' = FALSE
                                  ELSE UNCHANGED dialogVars
  /\ UNCHANGED <<status, authed, auth, view, filters>>

\* Mutant: the busy flag is reset after a success only.
RunFailsBusy(k) ==
  /\ runs' = RemoveAt(runs, k)
  /\ UNCHANGED <<status, jobs, authed, auth, view, tableVars, dialogVars>>

\* The call for the next job throws, refused for a job in another status, a route
\* there is not, an error of the server or an expired token, or its reply is lost:
\* the rest is skipped, ticks and dialog stay.
RunFails(k) ==
  /\ runs' = RemoveAt(runs, k)
  /\ confirmBusy' = (confirmBusy /\ runs[k].action # "cancel")
  /\ UNCHANGED <<status, jobs, authed, auth, view, tableVars, confirm>>

RunStep(k) == Serve(k) \/ NextOfRun(k) \/ RunSucceeds(k) \/ RunFails(k)

----------------------------------------------------------------------------
(***************************************************************************)
(* The dialog.  It covers the page, but the focus stays where it was: with *)
(* the keyboard every button behind it can still be pressed.               *)
(***************************************************************************)
\* requestConfirm: another dialog is replaced.
RequestConfirm(action, list) ==
  /\ confirm' = [action |-> action, jobs |-> list, mounted |-> action # "sign_out"]
  /\ UNCHANGED <<status, jobs, authed, auth, view, tableVars, confirmBusy, runs>>

\* bulkCancel, or the icon of a row (confirmCancel).
AskToCancel ==
  /\ TableShown
  /\ \/ LET list == SelectedJobs IN list # <<>> /\ RequestConfirm("cancel", list)
     \/ \E j \in Range(Rows) : RequestConfirm("cancel_job", <<j>>)

\* confirmSignOut.
AskToSignOut == authed /\ RequestConfirm("sign_out", <<>>)

\* Mutant: the dialog can be closed while its action runs.
CloseConfirmAnyway ==
  /\ authed /\ confirm # NoDialog
  /\ confirm' = NoDialog
  /\ UNCHANGED <<status, jobs, authed, auth, view, tableVars, confirmBusy, runs>>

\* closeConfirm: Escape, the overlay, the cross or Cancel.
CloseConfirm ==
  /\ authed /\ confirm # NoDialog /\ ~confirmBusy
  /\ confirm' = NoDialog
  /\ UNCHANGED <<status, jobs, authed, auth, view, tableVars, confirmBusy, runs>>

\* runConfirmAction with a cancellation.
ConfirmCancel ==
  /\ authed /\ confirm.action \in {"cancel", "cancel_job"} /\ ~confirmBusy
  /\ confirmBusy' = TRUE
  /\ Start("cancel", IF confirm.action = "cancel" THEN "bulk" ELSE "job",
           confirm.jobs, confirm.mounted)
  /\ UNCHANGED <<status, jobs, authed, auth, view, tableVars, confirm>>

\* runConfirmAction with signOut, which returns at once; the page is replaced by
\* the sign-in form, and keeps its view for the next session.
ConfirmSignOut ==
  /\ authed /\ confirm.action = "sign_out" /\ ~confirmBusy
  /\ authed' = FALSE
  /\ jobs' = [j \in JobIds |-> Absent]
  /\ auth' = FirstAuth
  /\ Unmount
  /\ confirm' = NoDialog
  /\ UNCHANGED <<status, view, confirmBusy>>

----------------------------------------------------------------------------
Next ==
  \/ \E j \in JobIds : JobChanges(j)
  \/ Refresh
  \/ \E m \in {"login", "register"} : ChooseMode(m)
  \/ \E match \in BOOLEAN : SubmitAuth(match)
  \/ AuthAnswered
  \/ \E v \in Views : Navigate(v)
  \/ ChangeFilter \/ ChangePageSize \/ TurnPage \/ ToggleJob \/ TogglePage
  \/ PressRetry \/ \E k \in DOMAIN runs : RunStep(k)
  \/ AskToCancel \/ AskToSignOut \/ CloseConfirm \/ ConfirmCancel \/ ConfirmSignOut

Spec == Init /\ [][Next]_consoleVars

----------------------------------------------------------------------------
(***************************************************************************)
(* Properties                                                              *)
(***************************************************************************)
TypeOK ==
  /\ status \in [JobIds -> Statuses]
  /\ jobs \in [JobIds -> Statuses \cup {Absent}]
  /\ authed \in BOOLEAN
  /\ auth \in [mode : {"login", "register"}, busy : BOOLEAN,
               request : {"login", "register", NoRequest}]
  /\ view \in Views
  /\ filters \in [status : FilterStatuses \cup {AllJobs}, page : 1..MaxJobs,
                  pageSize : PageSizes]
  /\ ticked \in SUBSET JobIds
  /\ confirm.action \in {"none", "cancel", "cancel_job", "sign_out"}
  /\ Range(confirm.jobs) \subseteq JobIds /\ confirm.mounted \in BOOLEAN
  /\ confirmBusy \in BOOLEAN
  /\ \A r \in Range(runs) :
       /\ r.action \in {"retry", "cancel"} /\ r.from \in {"job", "bulk"}
       /\ Range(r.left) \cup r.done \subseteq Range(r.jobs)
       /\ r.jobs # <<>> /\ IsInjective(r.jobs) /\ Range(r.jobs) \subseteq JobIds
       /\ r.answer \in {"waiting", "accepted"} /\ r.mounted \in BOOLEAN

\* While a confirmed action runs its dialog stays open and no second one starts,
\* and afterwards the page is usable again, whatever dialogs were asked for and
\* whatever failed in between; the same for the button of the sign-in form.
BusyMeansRunning ==
  /\ TypeOK
  /\ Cardinality({k \in DOMAIN runs : runs[k].action = "cancel"})
       = IF confirmBusy THEN 1 ELSE 0
  /\ confirmBusy => authed /\ confirm # NoDialog
  /\ auth.busy <=> auth.request # NoRequest

\* However the list and the filters change under the chosen page: each matching
\* job is on one of the pages one can turn to, and the page shown has a row if
\* any job matches.
PagesCover ==
  TableShown =>
    /\ \A j \in JobIds :
         Cardinality({p \in 1..PageCount : j \in Range(RowsOf(p))})
           = IF Matches(j) THEN 1 ELSE 0
    /\ Page \in 1..PageCount
    /\ (\E j \in JobIds : Matches(j)) => Rows # <<>>

\* Ticks are cleared by a bulk action only when the server has done it for all
\* of its jobs: after a refusal the user finds them ticked.
ClearedMeansDone ==
  [][ticked' # ticked =>
       \A k \in DOMAIN runs : runs' = RemoveAt(runs, k) =>
         runs[k].done = Range(runs[k].jobs)]_consoleVars
=============================================================================
