----------------------------- MODULE Dashboard -----------------------------
(***************************************************************************)
(* The state of one browser tab (web/src/hooks/useJobFlow.js, App.jsx,     *)
(* JobTable.jsx) against the API: sessions, refreshes that overlap, the    *)
(* event stream, and the operations that end in a refresh.                 *)
(*                                                                         *)
(* The code between two awaits runs as one step.  A function keeps the     *)
(* token of the render it was made in, whatever happens while it waits.    *)
(* The server is abstracted to a count of committed changes; the list of a *)
(* user's jobs is known by the number of the last change it contains and   *)
(* by how many jobs had been made.  Every change is committed first and    *)
(* announced later, as JobFlow shows; every stream hears every event.      *)
(***************************************************************************)
EXTENDS Integers, SequencesExt, Accounts

CONSTANTS
  ListLimit,     \* jobs per list (limit=100)
  MaxBatch,      \* bound on the jobs one operation is about
  MaxChanges,    \* bound on the changes at the server
  MaxRefreshes,  \* refreshes at a time: a browser has few connections per host
  FaultKinds,    \* which of "call", "read", "stream" and "token" may fail
  MaxFaults      \* bound on these faults

ASSUME ListLimitAssumption == ListLimit \in Nat \ {0}
ASSUME BoundsAssumption == {MaxBatch, MaxChanges, MaxRefreshes, MaxFaults} \subseteq Nat

Nothing == [owner |-> NoUser, last |-> 0, made |-> 0]
Unread == -1
NoJobSelected == <<NoUser, 0>>

VARIABLES
  \* the server
  changes,    \* number of committed changes
  last,       \* per user, the number of the last change of one of its jobs
  made,       \* per user, the number of jobs
  outbox,     \* changes whose event has not been published yet
  \* between server and tab
  stream,     \* the EventSource: "closed", "connecting" or "open"
  inflow,     \* events on their way to the tab
  refreshes,  \* refreshes under way, in the order they were started
  op,         \* the operation under way
  \* the tab
  token,        \* the token state; localStorage holds the same
  effectToken,  \* the token the effects have last run for
  jobs,         \* the jobs state
  stats,        \* the stats state
  selected,     \* selectedJob
  loading,
  \* history
  stale,       \* what is shown came with an answer that others had overtaken
  missed,      \* an event was lost since the last refresh was sent
  faultsLeft

serverVars == <<accounts, changes, last, made, outbox>>
sessionVars == <<token, effectToken>>
shownVars == <<jobs, stats, selected, stale>>
dashboardVars == <<serverVars, stream, inflow, refreshes, op, sessionVars,
                   shownVars, loading, missed, faultsLeft>>

Lists == [owner : Users \cup {NoUser}, last : 0..MaxChanges, made : 0..MaxChanges]

TypeOK ==
  /\ accounts \in SUBSET Users
  /\ changes \in 0..MaxChanges
  /\ last \in [Users -> 0..MaxChanges]
  /\ made \in [Users -> 0..MaxChanges]
  /\ outbox \in 0..MaxChanges
  /\ stream \in {"closed", "connecting", "open"}
  /\ inflow \in 0..MaxChanges
  /\ Len(refreshes) <= MaxRefreshes
  /\ \A r \in Range(refreshes) :
       /\ r.token \in Tokens \ {NoToken}
       /\ r.jobs \in Lists
       /\ r.stats \in Unread..MaxChanges
       /\ {r.read, r.overtaken, r.awaited} \subseteq BOOLEAN
  /\ op \in [kind : {"none", "create", "retry", "cancel"}, token : Tokens, left : 0..MaxBatch,
             pc : {"idle", "sent", "answered", "refused", "refreshing"}]
  /\ {token, effectToken} \subseteq Tokens
  /\ jobs \in Lists
  /\ stats \in Unread..MaxChanges
  /\ selected \in (Users \X (1..MaxChanges)) \cup {NoJobSelected}
  /\ {loading, stale, missed} \subseteq BOOLEAN
  /\ faultsLeft \in 0..MaxFaults

NoOp == [kind |-> "none", token |-> NoToken, left |-> 0, pc |-> "idle"]

Init ==
  /\ AccountsInit
  /\ changes = 0
  /\ last = [u \in Users |-> 0]
  /\ made = [u \in Users |-> 0]
  /\ outbox = 0
  /\ stream = "closed"
  /\ inflow = 0
  /\ refreshes = <<>>
  /\ op = NoOp
  /\ token = NoToken
  /\ effectToken = NoToken
  /\ jobs = Nothing
  /\ stats = Unread
  /\ selected = NoJobSelected
  /\ loading = FALSE
  /\ stale = FALSE
  /\ missed = FALSE
  /\ faultsLeft = MaxFaults

Fault(kind) ==
  /\ kind \in FaultKinds
  /\ faultsLeft > 0
  /\ faultsLeft' = faultsLeft - 1

----------------------------------------------------------------------------
(***************************************************************************)
(* The server                                                              *)
(***************************************************************************)
\* A change of one of user u's jobs; created is 1 if it is a new job.
Commit(u, created) ==
  /\ u \in accounts
  /\ changes < MaxChanges
  /\ changes' = changes + 1
  /\ last' = [last EXCEPT ![u] = changes + 1]
  /\ made' = [made EXCEPT ![u] = @ + created]
  /\ outbox' = outbox + 1
  /\ UNCHANGED accounts

\* Workers, the scheduler and other tabs change jobs too.
OthersChange(u) ==
  /\ \/ made[u] > 0 /\ Commit(u, 0)
     \/ Commit(u, 1)
  /\ UNCHANGED <<stream, inflow, refreshes, op, sessionVars, shownVars, loading, missed, faultsLeft>>

\* An event is published; it is lost on a tab whose stream is not open.
Announce ==
  /\ outbox > 0
  /\ outbox' = outbox - 1
  /\ IF stream = "open"
       THEN inflow' = inflow + 1 /\ UNCHANGED missed
       ELSE missed' = TRUE /\ UNCHANGED inflow
  /\ UNCHANGED <<accounts, changes, last, made, stream, refreshes, op, sessionVars,
                 shownVars, loading, faultsLeft>>

\* The API has registered the stream.
StreamOpens ==
  /\ stream = "connecting"
  /\ stream' = "open"
  /\ UNCHANGED <<serverVars, inflow, refreshes, op, sessionVars, shownVars,
                 loading, missed, faultsLeft>>

\* The connection breaks; EventSource connects again by itself.
StreamBreaks ==
  /\ Fault("stream")
  /\ stream = "open"
  /\ stream' = "connecting"
  /\ inflow' = 0
  /\ missed' = (missed \/ inflow > 0)
  /\ UNCHANGED <<serverVars, refreshes, op, sessionVars, shownVars, loading>>

----------------------------------------------------------------------------
(***************************************************************************)
(* refresh                                                                 *)
(***************************************************************************)
NewRefresh(t, awaited) ==
  [token |-> t, read |-> FALSE, jobs |-> Nothing, stats |-> Unread,
   overtaken |-> FALSE, awaited |-> awaited]

\* The synchronous part of refresh, called from a function made with token t.
StartRefresh(t, awaited) ==
  /\ Len(refreshes) < MaxRefreshes
  /\ refreshes' = Append(refreshes, NewRefresh(t, awaited))
  /\ loading' = TRUE
  /\ missed' = (missed /\ t # token)

\* What List reads for user u.
ListNow(u) == [owner |-> u, last |-> last[u], made |-> made[u]]

\* What Dashboard counts, over the jobs of all users.
StatsNow == changes

\* The server answers one of the two requests of Promise.all.
AnswerJobs(i) ==
  /\ ~refreshes[i].read /\ Authorised(refreshes[i].token)
  /\ refreshes' = [refreshes EXCEPT ![i].read = TRUE,
                                   ![i].jobs = ListNow(refreshes[i].token.sub)]

AnswerStats(i) ==
  /\ refreshes[i].stats = Unread /\ Authorised(refreshes[i].token)
  /\ refreshes' = [refreshes EXCEPT ![i].stats = StatsNow]

AnswerRefresh ==
  /\ \E i \in DOMAIN refreshes : AnswerJobs(i) \/ AnswerStats(i)
  /\ UNCHANGED <<serverVars, stream, inflow, op, sessionVars, shownVars,
                 loading, missed, faultsLeft>>

\* The newest jobs of a list, identified by their number.
Listed(list) ==
  {<<list.owner, n>> : n \in {k \in 1..list.made : k > list.made - ListLimit}}

FirstOf(list) ==
  IF list.made = 0 THEN NoJobSelected ELSE <<list.owner, list.made>>

\* Mutant: the selection is kept whatever the new list contains.
KeepSelection(list) ==
  IF selected = NoJobSelected THEN FirstOf(list) ELSE selected

\* The updater given to setSelectedJob.
Reselect(list) ==
  IF selected \in Listed(list) THEN selected ELSE FirstOf(list)

\* Refresh i is over: it leaves the list; on success, those before it are now
\* overtaken.
Without(i, overtakes) ==
  RemoveAt([k \in DOMAIN refreshes |->
              IF k < i /\ overtakes THEN [refreshes[k] EXCEPT !.overtaken = TRUE]
                                    ELSE refreshes[k]], i)

\* An operation that awaited the refresh goes on to its next job, or is done.
Resume(awaited) ==
  op' = IF ~awaited THEN op
        ELSE IF op.kind # "create" /\ op.left > 1
          THEN [op EXCEPT !.left = @ - 1, !.pc = "sent"]
          ELSE NoOp

\* Both answers are there: the state is set in one go.
ApplyRefresh(i) ==
  LET r == refreshes[i]
  IN  /\ r.read /\ r.stats # Unread
      /\ jobs' = r.jobs
      /\ stats' = r.stats
      /\ selected' = Reselect(r.jobs)
      /\ stale' = (r.overtaken \/ r.token # token)
      /\ loading' = FALSE
      /\ refreshes' = Without(i, TRUE)
      /\ Resume(r.awaited)
      /\ UNCHANGED <<serverVars, stream, inflow, sessionVars, missed,
                     faultsLeft>>

\* A request may fail, and is refused if its token has expired.
ReadFails(i) ==
  \/ Fault("read")
  \/ /\ ~Authorised(refreshes[i].token)
     /\ ~refreshes[i].read \/ refreshes[i].stats = Unread
     /\ UNCHANGED faultsLeft

\* Mutant: loading is reset after a success only.
FailRefreshSpinning(i) ==
  /\ ReadFails(i)
  /\ missed' = TRUE
  /\ refreshes' = Without(i, FALSE)
  /\ Resume(refreshes[i].awaited)
  /\ UNCHANGED <<serverVars, stream, inflow, sessionVars, shownVars, loading>>

\* One of the requests fails: the error is shown, the state stays.
FailRefresh(i) ==
  /\ ReadFails(i)
  /\ loading' = FALSE
  /\ missed' = TRUE
  /\ refreshes' = Without(i, FALSE)
  /\ Resume(refreshes[i].awaited)
  /\ UNCHANGED <<serverVars, stream, inflow, sessionVars, shownVars>>

RefreshEnds ==
  \E i \in DOMAIN refreshes : ApplyRefresh(i) \/ FailRefresh(i)

\* The refresh button, or Ctrl+R.
PressRefresh ==
  /\ token # NoToken
  /\ StartRefresh(token, FALSE)
  /\ UNCHANGED <<serverVars, stream, inflow, op, sessionVars, shownVars, faultsLeft>>

----------------------------------------------------------------------------
(***************************************************************************)
(* Effects and events                                                      *)
(***************************************************************************)
\* Mutant: the refresh of the effects belongs to the first render only.
RunEffectsWithoutRefresh ==
  /\ effectToken # token
  /\ effectToken' = token
  /\ inflow' = 0
  /\ stream' = IF token = NoToken THEN "closed" ELSE "connecting"
  /\ UNCHANGED <<serverVars, refreshes, op, token, shownVars, loading, missed,
                 faultsLeft>>

\* React runs the effects that depend on the token, some time after the render
\* that changed it: the old stream is closed; for a token, a refresh is
\* started and a new stream opened.
RunEffects ==
  /\ effectToken # token
  /\ effectToken' = token
  /\ inflow' = 0
  /\ IF token = NoToken
       THEN stream' = "closed" /\ UNCHANGED <<refreshes, loading, missed>>
       ELSE stream' = "connecting" /\ StartRefresh(token, FALSE)
  /\ UNCHANGED <<serverVars, op, token, shownVars,
                 faultsLeft>>

\* Mutant: events are skipped while something is loading.
MessageArrivesUnlessLoading ==
  /\ inflow > 0
  /\ inflow' = inflow - 1
  /\ IF loading THEN UNCHANGED <<refreshes, loading, missed>>
                ELSE StartRefresh(effectToken, FALSE)
  /\ UNCHANGED <<serverVars, stream, op, sessionVars, shownVars, faultsLeft>>

\* source.onmessage, a function made with the token of its effect.
MessageArrives ==
  /\ inflow > 0
  /\ inflow' = inflow - 1
  /\ StartRefresh(effectToken, FALSE)
  /\ UNCHANGED <<serverVars, stream, op, sessionVars, shownVars, faultsLeft>>

----------------------------------------------------------------------------
(***************************************************************************)
(* Sessions                                                                *)
(***************************************************************************)
\* The form of AuthScreen is sent, and authenticate has its answer.  The form
\* is there once a render without a token, and its effects, are over.
SignIn(u) ==
  /\ token = NoToken /\ effectToken = NoToken
  /\ AuthRequest(u, token')
  /\ UNCHANGED <<changes, last, made, outbox, stream, inflow, refreshes, op, effectToken,
                 shownVars, loading, missed, faultsLeft>>

\* signOut, once confirmed.  While a dialog runs a cancellation, it covers the
\* page.
SignOut ==
  /\ token # NoToken
  /\ op.kind # "cancel"
  /\ token' = NoToken
  /\ jobs' = Nothing
  /\ stats' = Unread
  /\ selected' = NoJobSelected
  /\ stale' = FALSE
  /\ UNCHANGED <<serverVars, stream, inflow, refreshes, op, effectToken,
                 loading, missed, faultsLeft>>

\* The token of the session expires, and older ones have done so before.  The
\* page does not notice.
TokenExpires ==
  /\ Fault("token")
  /\ token.live
  /\ token' = Expired(token)
  /\ effectToken' = Expired(effectToken)
  /\ op' = [op EXCEPT !.token = Expired(@)]
  /\ refreshes' = [i \in DOMAIN refreshes |->
                     [refreshes[i] EXCEPT !.token = Expired(@)]]
  /\ UNCHANGED <<serverVars, stream, inflow, shownVars, loading, missed>>

\* The page is loaded again: only the token survives, and what the server has
\* already been asked to do.
Reload ==
  /\ effectToken' = NoToken
  /\ jobs' = Nothing
  /\ stats' = Unread
  /\ selected' = NoJobSelected
  /\ stale' = FALSE
  /\ missed' = FALSE
  /\ stream' = "closed"
  /\ inflow' = 0
  /\ refreshes' = <<>>
  /\ op' = NoOp
  /\ loading' = FALSE
  /\ UNCHANGED <<serverVars, token, faultsLeft>>

----------------------------------------------------------------------------
(***************************************************************************)
(* Operations on jobs                                                      *)
(***************************************************************************)
\* The job routes of the API that change something, and the requests of the
\* dashboard.
Routes ==
  {<<"POST", "/api/jobs">>, <<"DELETE", "/api/jobs/:id">>,
   <<"POST", "/api/jobs/:id/cancel">>, <<"POST", "/api/jobs/:id/retry">>}

RequestOf(kind) ==
  CASE kind = "create" -> <<"POST", "/api/jobs">>
    [] kind = "retry"  -> <<"POST", "/api/jobs/:id/retry">>
    [] kind = "cancel" -> <<"DELETE", "/api/jobs/:id/cancel">>

\* The composer creates a batch of n jobs, or n selected jobs are retried, or
\* cancelled once that is confirmed.
StartOp(kind, n) ==
  /\ token # NoToken
  /\ op.kind = "none"
  /\ kind # "create" => jobs.made >= n
  /\ op' = [kind |-> kind, token |-> token, left |-> n, pc |-> "sent"]
  /\ UNCHANGED <<serverVars, stream, inflow, refreshes, sessionVars, shownVars,
                 loading, missed, faultsLeft>>

\* The request has a route, and a token that is accepted.
Served == RequestOf(op.kind) \in Routes /\ Authorised(op.token)

\* The server handles the request, or refuses it: no such route, an expired
\* token, a job in another status, an error.
ServeOp ==
  /\ op.kind \in {"create", "retry", "cancel"}
  /\ op.pc = "sent"
  /\ \/ /\ Served
        /\ Commit(op.token.sub, IF op.kind = "create" THEN 1 ELSE 0)
        /\ op' = [op EXCEPT !.pc = "answered"]
        /\ UNCHANGED faultsLeft
     \/ /\ IF Served THEN Fault("call") ELSE UNCHANGED faultsLeft
        /\ op' = [op EXCEPT !.pc = "refused"]
        /\ UNCHANGED serverVars
  /\ UNCHANGED <<stream, inflow, refreshes, sessionVars, shownVars, loading, missed>>

\* The loop of createJobs goes on to the next job of the batch.
NextOfBatch ==
  /\ op.pc = "answered"
  /\ op.kind = "create" /\ op.left > 1
  /\ op' = [op EXCEPT !.left = @ - 1, !.pc = "sent"]
  /\ UNCHANGED <<serverVars, stream, inflow, refreshes, sessionVars, shownVars,
                 loading, missed, faultsLeft>>

\* The last call has succeeded: a notice (left out), and an awaited refresh.
OpSucceeds ==
  /\ op.pc = "answered"
  /\ op.kind = "create" => op.left = 1
  /\ op' = [op EXCEPT !.pc = "refreshing"]
  /\ StartRefresh(op.token, TRUE)
  /\ UNCHANGED <<serverVars, stream, inflow, sessionVars, shownVars,
                 faultsLeft>>

\* The call throws: the rest of the operation is skipped, and nothing is shown.
OpFails ==
  /\ op.pc = "refused"
  /\ op' = NoOp
  /\ UNCHANGED <<serverVars, stream, inflow, refreshes, sessionVars, shownVars,
                 loading, missed, faultsLeft>>

\* The user clicks a row of the table.
SelectJob ==
  /\ token # NoToken
  /\ selected' \in Listed(jobs)
  /\ UNCHANGED <<serverVars, stream, inflow, refreshes, op, sessionVars, jobs,
                 stats, stale, loading, missed, faultsLeft>>

----------------------------------------------------------------------------
\* The server and the scripts of the page; no user is needed for these.
ServerStep == Announce \/ StreamOpens \/ AnswerRefresh \/ ServeOp

PageStep ==
  \/ RefreshEnds \/ RunEffects \/ MessageArrives
  \/ NextOfBatch \/ OpSucceeds \/ OpFails

UserStep ==
  \/ \E u \in Users : SignIn(u)
  \/ \E kind \in {"create", "retry", "cancel"}, n \in 1..MaxBatch :
       StartOp(kind, n)
  \/ SignOut \/ Reload \/ PressRefresh \/ SelectJob

Next ==
  \/ ServerStep \/ PageStep \/ UserStep
  \/ StreamBreaks \/ TokenExpires \/ \E u \in Users : OthersChange(u)

Spec == Init /\ [][Next]_dashboardVars

(***************************************************************************)
(* The server answers every request, events and answers are handled by the *)
(* page in the order the browser likes: each answer comes and is applied.  *)
(* Users and other tabs owe nothing.                                       *)
(***************************************************************************)
Fairness ==
  /\ WF_dashboardVars(Announce) /\ WF_dashboardVars(StreamOpens)
  /\ WF_dashboardVars(ServeOp) /\ WF_dashboardVars(AnswerRefresh)
  /\ WF_dashboardVars(RefreshEnds) /\ WF_dashboardVars(RunEffects)
  /\ SF_dashboardVars(MessageArrives)
  /\ WF_dashboardVars(NextOfBatch \/ OpFails) /\ SF_dashboardVars(OpSucceeds)

FairSpec == Spec /\ Fairness

----------------------------------------------------------------------------
(***************************************************************************)
(* Properties                                                              *)
(***************************************************************************)
\* Nothing is left to be fetched for the session.
Settled ==
  /\ token # NoToken /\ effectToken = token
  /\ refreshes = <<>> /\ outbox = 0 /\ inflow = 0

\* Once all refreshes are over and no event is on its way, the page shows what
\* the server has, jobs and numbers alike - unless an older answer came last,
\* an event found no open stream, or a refresh failed.  This needs every event
\* to start a refresh of its own, also while another one is loading.
CurrentUnlessOvertaken ==
  Settled /\ ~stale /\ ~missed =>
    /\ jobs = ListNow(token.sub)
    /\ stats = StatsNow

\* The selected job is one of the jobs shown, also after a refresh that does
\* not list it any more or that belongs to another session.
SelectionIsListed ==
  \/ selected \in Listed(jobs)
  \/ selected = NoJobSelected /\ jobs.made = 0

\* The page shows jobs of its user only, except where an answer came late: one
\* that was on its way when its session was closed fills the page again.
ShownIsOwn == ~stale => jobs.owner \in {token.sub, NoUser}

\* What the page shows belongs together, across sign-out and overlapping answers.
PageInv == TypeOK /\ SelectionIsListed /\ ShownIsOwn

\* A change that is committed while the stream of the session is open is
\* fetched and shown without the user doing anything.
ChangeIsFetched ==
  \A u \in Users, n \in 1..MaxChanges :
    token.sub = u /\ effectToken = token /\ stream = "open" /\ last[u] = n
      /\ outbox > 0
    ~> \/ jobs.owner = u /\ jobs.last >= n
       \/ token.sub # u \/ stream # "open" \/ missed

\* The spinner stops.
SpinnerStops == loading ~> ~loading
=============================================================================
