-------------------------- MODULE DashboardProofs --------------------------
(***************************************************************************)
(* Proofs about Dashboard, for any number of users, changes, refreshes and *)
(* faults: the page is current once all is quiet, and what it shows        *)
(* belongs together.                                                       *)
(***************************************************************************)
EXTENDS Dashboard, SequenceLemmas

\* A token somebody has signed in with.
LiveTokens == [sub : Users, live : BOOLEAN]

\* A list that was read belongs to a user, whatever was read.
ReadLists == [owner : Users, last : 0..MaxChanges, made : 0..MaxChanges] \cup {Nothing}

RefreshRecords ==
  [token : LiveTokens, read : BOOLEAN, jobs : ReadLists,
   stats : Unread..MaxChanges, overtaken : BOOLEAN, awaited : BOOLEAN]

OpRecords ==
  [kind : {"none", "create", "retry", "cancel"}, token : Tokens, left : 0..MaxBatch,
   pc : {"idle", "sent", "answered", "refused", "refreshing"}]

\* The types, with what makes them inductive: no more events than changes, an
\* operation has a token, and the effects lag behind by one render at most.
ServerTypes ==
  /\ accounts \in SUBSET Users
  /\ changes \in 0..MaxChanges
  /\ last \in [Users -> 0..MaxChanges]
  /\ made \in [Users -> 0..MaxChanges]
  /\ \A u \in Users : made[u] <= changes
  /\ outbox \in Nat /\ inflow \in Nat /\ outbox + inflow <= changes
  /\ stream \in {"closed", "connecting", "open"}
  /\ inflow > 0 => stream # "closed"
  /\ faultsLeft \in 0..MaxFaults

SessionTypes ==
  /\ token \in Tokens
  /\ effectToken \in Tokens
  /\ effectToken \in {NoToken, token} \/ token = NoToken
  /\ effectToken = NoToken => stream = "closed"
  /\ op \in OpRecords
  /\ op = NoOp \/ op.token \in LiveTokens

PageTypes ==
  /\ jobs \in ReadLists
  /\ stats \in Unread..MaxChanges
  /\ selected \in (Users \X (1..MaxChanges)) \cup {NoJobSelected}
  /\ loading \in BOOLEAN /\ stale \in BOOLEAN /\ missed \in BOOLEAN

RefreshTypes ==
  /\ refreshes \in Seq(RefreshRecords)
  /\ Len(refreshes) <= MaxRefreshes

Types == ServerTypes /\ SessionTypes /\ PageTypes /\ RefreshTypes

\* A refresh that has read what the server has now.
Fresh(r) ==
  /\ r.read => r.jobs = ListNow(r.token.sub)
  /\ r.stats # Unread => r.stats = StatsNow

\* Every event has reached the page.
AllHeard ==
  /\ token # NoToken /\ effectToken = token
  /\ ~missed /\ outbox = 0 /\ inflow = 0

\* The newest refreshes will show what the server has.
WillBeShown ==
  \E k \in DOMAIN refreshes : \A l \in k..Len(refreshes) : Fresh(refreshes[l])

\* It is shown, and what is still under way does not undo it unnoticed.
IsShown ==
  /\ stale \/ (jobs = ListNow(token.sub) /\ stats = StatsNow)
  /\ \A l \in DOMAIN refreshes : refreshes[l].overtaken \/ Fresh(refreshes[l])

CaughtUp == AllHeard => WillBeShown \/ IsShown

\* An answer is the list of the refresh's user.
ReadIsOwn ==
  \A l \in DOMAIN refreshes : refreshes[l].jobs.owner \in {refreshes[l].token.sub, NoUser}

DashboardInv == Types /\ CaughtUp /\ ReadIsOwn /\ SelectionIsListed /\ ShownIsOwn

----------------------------------------------------------------------------
LEMMA TokenFacts ==
  /\ Tokens = LiveTokens \cup {NoToken}
  /\ NoToken \notin LiveTokens
  /\ NoToken.sub = NoUser
  /\ \A t \in LiveTokens : t.sub \in Users /\ Expired(t) \in LiveTokens
                           /\ Expired(t).sub = t.sub
  /\ Expired(NoToken) = NoToken
<1>1. Tokens = LiveTokens \cup {NoToken} /\ NoToken.sub = NoUser
  BY DEF Tokens, LiveTokens, NoToken
<1>2. NoToken \notin LiveTokens
  BY NoUserAssumption DEF LiveTokens, NoToken
<1>3. ASSUME NEW t \in LiveTokens
      PROVE  t.sub \in Users /\ Expired(t) \in LiveTokens /\ Expired(t).sub = t.sub
  BY DEF LiveTokens, Expired
<1>4. Expired(NoToken) = NoToken
  <2> DEFINE e == [NoToken EXCEPT !.live = FALSE]
  <2>1. NoToken \in [sub : {NoUser}, live : BOOLEAN] /\ NoToken.live = FALSE
    BY DEF NoToken
  <2>2. e = NoToken
    BY <2>1
  <2> QED
    BY <2>2 DEF Expired
<1> QED
  BY <1>1, <1>2, <1>3, <1>4

\* What a refresh starts with; it will show what the server has.
LEMMA StartRefreshKeeps ==
  ASSUME Types, ReadIsOwn, UNCHANGED <<changes, last, made>>,
         NEW t \in LiveTokens, NEW a \in BOOLEAN, StartRefresh(t, a)
  PROVE  /\ RefreshTypes' /\ ReadIsOwn' /\ CaughtUp'
         /\ loading' \in BOOLEAN /\ missed' \in BOOLEAN
<1> PICK new : new = NewRefresh(t, a)
  OBVIOUS
<1> PICK n : n = Len(refreshes)
  OBVIOUS
<1>1. refreshes \in Seq(RefreshRecords) /\ n \in Nat
  BY DEF Types, RefreshTypes
<1>2. new \in RefreshRecords
  BY BoundsAssumption DEF NewRefresh, RefreshRecords, ReadLists, Unread
<1>3. refreshes' = Append(refreshes, new) /\ n < MaxRefreshes
  BY DEF StartRefresh
<1>4. new.jobs.owner = NoUser /\ ~new.read /\ new.stats = Unread
  BY DEF NewRefresh, Nothing
<1>5. /\ refreshes' \in Seq(RefreshRecords) /\ Len(refreshes') = n + 1
      /\ \A l \in 1..n : refreshes'[l] = refreshes[l]
      /\ refreshes'[n + 1] = new
  BY <1>1, <1>2, <1>3, AppendProperties
<1>6. RefreshTypes'
  BY <1>1, <1>3, <1>5, BoundsAssumption DEF RefreshTypes
<1>7. ReadIsOwn'
  <2>1. ASSUME NEW l \in DOMAIN refreshes'
        PROVE  refreshes'[l].jobs.owner \in {refreshes'[l].token.sub, NoUser}
    <3>1. l \in 1..n \/ l = n + 1
      BY <1>1, <1>5
    <3> QED
      BY <1>1, <1>4, <1>5, <3>1 DEF ReadIsOwn
  <2> QED
    BY <2>1 DEF ReadIsOwn
<1>8. WillBeShown'
  <2>1. n + 1 \in DOMAIN refreshes' /\ \A l \in (n + 1)..Len(refreshes') : l = n + 1
    BY <1>1, <1>5
  <2>2. Fresh(new)'
    BY <1>4 DEF Fresh
  <2> QED
    BY <1>5, <2>1, <2>2 DEF WillBeShown
<1> QED
  BY <1>6, <1>7, <1>8 DEF CaughtUp, StartRefresh, Types, PageTypes

\* As long as nothing is committed and no event is heard or lost, ends of a
\* refresh aside, what will be shown stays so.
LEMMA QuietKeeps ==
  ASSUME CaughtUp, AllHeard' => AllHeard,
         UNCHANGED <<changes, last, made, refreshes, jobs, stats, stale>>,
         token'.sub = token.sub
  PROVE  CaughtUp'
  BY DEF CaughtUp, WillBeShown, IsShown, Fresh, ListNow, StatsNow

\* A change of another user, tab or process, or of this one.
LEMMA CommitKeeps ==
  ASSUME Types, NEW u \in Users, NEW created \in {0, 1}, Commit(u, created),
         UNCHANGED <<inflow, stream>>, faultsLeft' \in 0..MaxFaults
  PROVE  ServerTypes' /\ ~AllHeard'
<1> USE BoundsAssumption DEF Commit, Types, ServerTypes
<1>1. changes' \in 0..MaxChanges /\ last' \in [Users -> 0..MaxChanges]
  OBVIOUS
<1>2. ASSUME NEW v \in Users
      PROVE  made'[v] \in 0..MaxChanges /\ made'[v] <= changes'
  OBVIOUS
<1>3. made' \in [Users -> 0..MaxChanges]
  BY <1>2
<1>4. ~AllHeard'
  BY DEF AllHeard
<1> QED
  BY <1>1, <1>2, <1>3, <1>4

----------------------------------------------------------------------------
(***************************************************************************)
(* The end of a refresh                                                    *)
(***************************************************************************)
\* What Without leaves of the other refreshes: all but the mark.
LEMMA WithoutProperties ==
  ASSUME Types, NEW i \in DOMAIN refreshes, NEW overtakes \in BOOLEAN,
         refreshes' = Without(i, overtakes)
  PROVE  /\ refreshes' \in Seq(RefreshRecords)
         /\ Len(refreshes') = Len(refreshes) - 1
         /\ \A l \in DOMAIN refreshes' :
              \E m \in DOMAIN refreshes :
                /\ m = IF l < i THEN l ELSE l + 1
                /\ refreshes'[l].token = refreshes[m].token
                /\ refreshes'[l].read = refreshes[m].read
                /\ refreshes'[l].jobs = refreshes[m].jobs
                /\ refreshes'[l].stats = refreshes[m].stats
                /\ refreshes'[l].overtaken = (refreshes[m].overtaken \/ (overtakes /\ m < i))
<1> PICK marked : marked = [k \in DOMAIN refreshes |->
                              IF k < i /\ overtakes
                                THEN [refreshes[k] EXCEPT !.overtaken = TRUE]
                                ELSE refreshes[k]]
  OBVIOUS
<1>1. /\ refreshes \in Seq(RefreshRecords) /\ Len(refreshes) \in Nat
      /\ DOMAIN refreshes = 1..Len(refreshes)
  BY DEF Types, RefreshTypes
<1>2. ASSUME NEW k \in DOMAIN refreshes
      PROVE  /\ marked[k] \in RefreshRecords
             /\ marked[k].token = refreshes[k].token
             /\ marked[k].read = refreshes[k].read
             /\ marked[k].jobs = refreshes[k].jobs
             /\ marked[k].stats = refreshes[k].stats
             /\ marked[k].overtaken = (refreshes[k].overtaken \/ (overtakes /\ k < i))
  <2>1. refreshes[k] \in RefreshRecords
    BY <1>1
  <2>2. CASE k < i /\ overtakes
    BY <2>1, <2>2 DEF RefreshRecords
  <2>3. CASE ~(k < i /\ overtakes)
    <3>1. marked[k] = refreshes[k]
      BY <2>3
    <3> QED
      BY <2>1, <2>3, <3>1 DEF RefreshRecords
  <2> QED
    BY <2>2, <2>3
<1>3. PICK n \in Nat : n = Len(refreshes)
  BY <1>1
<1>4. marked \in Seq(RefreshRecords) /\ DOMAIN marked = DOMAIN refreshes
      /\ Len(marked) = n
  <2>1. marked \in [1..n -> RefreshRecords]
    BY <1>1, <1>2, <1>3
  <2>2. marked \in Seq(RefreshRecords)
    BY <2>1, SeqDef
  <2> QED
    BY <1>1, <1>3, <2>1, <2>2
<1>5. refreshes' = RemoveAt(marked, i)
  BY DEF Without
<1>6. i \in DOMAIN marked /\ i \in 1..n
  BY <1>1, <1>3, <1>4
<1>7. /\ refreshes' \in Seq(RefreshRecords)
      /\ Len(refreshes') = n - 1
      /\ \A l \in 1..(n - 1) :
           refreshes'[l] = IF l < i THEN marked[l] ELSE marked[l + 1]
  <2>1. /\ RemoveAt(marked, i) \in Seq(RefreshRecords)
        /\ Len(RemoveAt(marked, i)) = Len(marked) - 1
        /\ \A j \in 1..(Len(marked) - 1) :
             RemoveAt(marked, i)[j] = IF j < i THEN marked[j] ELSE marked[j + 1]
    BY <1>4, <1>6, RemoveAtProperties
  <2> QED
    BY <1>4, <1>5, <2>1
<1>8. ASSUME NEW l \in DOMAIN refreshes'
      PROVE  \E m \in DOMAIN refreshes :
               m = (IF l < i THEN l ELSE l + 1) /\ refreshes'[l] = marked[m]
  <2>1. l \in 1..(n - 1)
    BY <1>3, <1>7, <1>8
  <2>2. CASE l < i
    <3>1. l \in DOMAIN refreshes
      BY <1>1, <1>3, <2>1
    <3> QED
      BY <1>6, <1>7, <2>1, <2>2, <3>1
  <2>3. CASE ~(l < i)
    <3>1. l + 1 \in DOMAIN refreshes
      BY <1>1, <1>3, <2>1
    <3> QED
      BY <1>6, <1>7, <2>1, <2>3, <3>1
  <2> QED
    BY <2>2, <2>3
<1>9. ASSUME NEW l \in DOMAIN refreshes'
      PROVE  \E m \in DOMAIN refreshes :
               /\ m = IF l < i THEN l ELSE l + 1
               /\ refreshes'[l].token = refreshes[m].token
               /\ refreshes'[l].read = refreshes[m].read
               /\ refreshes'[l].jobs = refreshes[m].jobs
               /\ refreshes'[l].stats = refreshes[m].stats
               /\ refreshes'[l].overtaken = (refreshes[m].overtaken \/ (overtakes /\ m < i))
  <2>1. PICK m \in DOMAIN refreshes :
          m = (IF l < i THEN l ELSE l + 1) /\ refreshes'[l] = marked[m]
    BY <1>8
  <2> QED
    BY <1>2, <2>1
<1> QED
  BY <1>3, <1>7, <1>9

\* Types, owners and the operation, whether the refresh has succeeded or not.
LEMMA EndRefreshKeeps ==
  ASSUME DashboardInv, NEW i \in DOMAIN refreshes, NEW overtakes \in BOOLEAN,
         refreshes' = Without(i, overtakes)
  PROVE  RefreshTypes' /\ ReadIsOwn'
<1>1. RefreshTypes'
  BY WithoutProperties, BoundsAssumption DEF DashboardInv, Types, RefreshTypes
<1>2. ReadIsOwn'
  BY WithoutProperties DEF DashboardInv, ReadIsOwn
<1> QED
  BY <1>1, <1>2

LEMMA ResumeKeeps ==
  ASSUME Types, NEW awaited \in BOOLEAN, Resume(awaited), UNCHANGED <<sessionVars, stream>>
  PROVE  SessionTypes'
<1>1. CASE op' = op
  BY <1>1 DEF Types, SessionTypes, sessionVars
<1>2. CASE op' = NoOp
  BY <1>2, BoundsAssumption, TokenFacts DEF Types, SessionTypes, sessionVars, NoOp, OpRecords
<1>3. CASE op.left > 1 /\ op' = [op EXCEPT !.left = @ - 1, !.pc = "sent"]
  <2>1. op \in OpRecords /\ op.left \in 0..MaxBatch
    BY DEF Types, SessionTypes, OpRecords
  <2>2. op.token \in LiveTokens
    BY <1>3 DEF NoOp, Types, SessionTypes
  <2>3. op.left - 1 \in 0..MaxBatch
    BY <1>3, <2>1, BoundsAssumption
  <2>4. op' \in OpRecords /\ op'.token = op.token
    BY <1>3, <2>1, <2>3 DEF OpRecords
  <2> QED
    BY <2>2, <2>4 DEF Types, SessionTypes, sessionVars
<1> QED
  BY <1>1, <1>2, <1>3 DEF Resume

\* The new selection is in the new list.
LEMMA ReselectListed ==
  ASSUME Types, NEW list \in ReadLists
  PROVE  /\ Reselect(list) \in (Users \X (1..MaxChanges)) \cup {NoJobSelected}
         /\ \/ Reselect(list) \in Listed(list)
            \/ Reselect(list) = NoJobSelected /\ list.made = 0
<1>1. CASE selected \in Listed(list)
  BY <1>1 DEF Reselect, Types, PageTypes
<1>2. CASE selected \notin Listed(list) /\ list.made = 0
  BY <1>2 DEF Reselect, FirstOf
<1>3. CASE selected \notin Listed(list) /\ list.made # 0
  <2>1. list.owner \in Users /\ list.made \in 1..MaxChanges
    BY <1>3, BoundsAssumption DEF ReadLists, Nothing
  <2>2. list.made \in {k \in 1..list.made : k > list.made - ListLimit}
    BY <2>1, ListLimitAssumption, BoundsAssumption
  <2>3. Reselect(list) = <<list.owner, list.made>>
    BY <1>3 DEF Reselect, FirstOf
  <2> QED
    BY <2>1, <2>2, <2>3 DEF Listed
<1> QED
  BY <1>1, <1>2, <1>3

\* A refresh succeeds: either a newer one will still be shown, or what it shows
\* is what the server has, or it is marked, or of another token.
LEMMA ApplyCatches ==
  ASSUME DashboardInv, NEW i \in DOMAIN refreshes, ApplyRefresh(i), AllHeard'
  PROVE  WillBeShown' \/ IsShown'
<1>1. /\ refreshes' = Without(i, TRUE) /\ jobs' = refreshes[i].jobs
      /\ stats' = refreshes[i].stats
      /\ stale' = (refreshes[i].overtaken \/ refreshes[i].token # token)
      /\ refreshes[i].read /\ refreshes[i].stats # Unread
      /\ UNCHANGED <<changes, last, made, token>>
  BY DEF ApplyRefresh, serverVars, sessionVars
<1>2. AllHeard
  BY DEF ApplyRefresh, AllHeard, serverVars, sessionVars
<1>3. /\ Len(refreshes) \in Nat /\ DOMAIN refreshes = 1..Len(refreshes)
      /\ Len(refreshes') = Len(refreshes) - 1
      /\ DOMAIN refreshes' = 1..(Len(refreshes) - 1)
  <2>1. refreshes \in Seq(RefreshRecords)
    BY DEF DashboardInv, Types, RefreshTypes
  <2>2. refreshes' \in Seq(RefreshRecords) /\ Len(refreshes') = Len(refreshes) - 1
    BY <1>1, WithoutProperties DEF DashboardInv
  <2> QED
    BY <2>1, <2>2
<1>4. ASSUME NEW l \in DOMAIN refreshes'
      PROVE  /\ l < i => refreshes'[l].overtaken
             /\ l >= i => l + 1 \in DOMAIN refreshes
             /\ l >= i /\ Fresh(refreshes[l + 1]) => Fresh(refreshes[l])'
             /\ l >= i /\ refreshes[l + 1].overtaken => refreshes'[l].overtaken
  <2>1. PICK m \in DOMAIN refreshes :
          /\ m = IF l < i THEN l ELSE l + 1
          /\ refreshes'[l].token = refreshes[m].token
          /\ refreshes'[l].read = refreshes[m].read
          /\ refreshes'[l].jobs = refreshes[m].jobs
          /\ refreshes'[l].stats = refreshes[m].stats
          /\ refreshes'[l].overtaken = (refreshes[m].overtaken \/ (TRUE /\ m < i))
    BY <1>1, WithoutProperties DEF DashboardInv
  <2>2. l \in Int /\ i \in Int
    BY <1>3
  <2>3. CASE l < i
    <3>1. m < i /\ ~(l >= i)
      BY <2>1, <2>2, <2>3
    <3>2. refreshes'[l].overtaken
      BY <2>1, <3>1, Zenon
    <3> QED
      BY <3>1, <3>2
  <2>4. CASE l >= i
    <3>1. ~(l < i) /\ m = l + 1
      BY <2>1, <2>2, <2>4
    <3>2. Fresh(refreshes[m]) => Fresh(refreshes[l])'
      BY <1>1, <2>1 DEF Fresh, ListNow, StatsNow
    <3> QED
      BY <2>1, <2>2, <2>4, <3>1, <3>2
  <2> QED
    BY <2>2, <2>3, <2>4
<1>5. Fresh(refreshes[i]) \/ refreshes[i].overtaken
        => stale' \/ (jobs' = ListNow(token.sub)' /\ stats' = StatsNow')
  BY <1>1 DEF Fresh, ListNow, StatsNow
<1>6. CASE IsShown
  <2>1. \A l \in DOMAIN refreshes' : refreshes'[l].overtaken \/ Fresh(refreshes[l])'
    BY <1>3, <1>4, <1>6 DEF IsShown
  <2> QED
    BY <1>5, <1>6, <2>1 DEF IsShown
<1>7. ASSUME NEW k \in DOMAIN refreshes, \A l \in k..Len(refreshes) : Fresh(refreshes[l])
      PROVE  WillBeShown' \/ IsShown'
  <2>1. CASE i < k
    <3>1. k - 1 \in DOMAIN refreshes'
      BY <1>3, <2>1
    <3>2. ASSUME NEW l \in (k - 1)..Len(refreshes') PROVE Fresh(refreshes[l])'
      BY <1>3, <1>4, <1>7, <2>1
    <3> QED
      BY <3>1, <3>2 DEF WillBeShown
  <2>2. CASE i >= k
    <3>1. Fresh(refreshes[i])
      BY <1>3, <1>7, <2>2
    <3>2. \A l \in DOMAIN refreshes' : refreshes'[l].overtaken \/ Fresh(refreshes[l])'
      BY <1>3, <1>4, <1>7, <2>2
    <3> QED
      BY <1>5, <3>1, <3>2 DEF IsShown
  <2> QED
    BY <1>3, <2>1, <2>2
<1> QED
  BY <1>2, <1>6, <1>7 DEF DashboardInv, CaughtUp, WillBeShown

LEMMA ApplyKeeps ==
  ASSUME DashboardInv, NEW i \in DOMAIN refreshes, ApplyRefresh(i)
  PROVE  DashboardInv'
<1>1. refreshes[i] \in RefreshRecords /\ refreshes' = Without(i, TRUE)
  BY DEF DashboardInv, Types, RefreshTypes, ApplyRefresh
<1>2. /\ refreshes[i].jobs \in ReadLists /\ refreshes[i].stats \in Unread..MaxChanges
      /\ refreshes[i].overtaken \in BOOLEAN /\ refreshes[i].awaited \in BOOLEAN
      /\ refreshes[i].jobs.owner \in {refreshes[i].token.sub, NoUser}
  BY <1>1 DEF RefreshRecords, DashboardInv, ReadIsOwn
<1>3. RefreshTypes' /\ ReadIsOwn'
  BY <1>1, EndRefreshKeeps
<1>4. ServerTypes'
  BY DEF ApplyRefresh, DashboardInv, Types, ServerTypes, serverVars
<1>5. SessionTypes'
  BY <1>2, ResumeKeeps DEF ApplyRefresh, DashboardInv
<1>6. PageTypes' /\ SelectionIsListed'
  BY <1>2, ReselectListed
  DEF ApplyRefresh, DashboardInv, Types, PageTypes, SelectionIsListed, Listed
<1>7. ShownIsOwn'
  BY <1>2 DEF ApplyRefresh, ShownIsOwn, sessionVars
<1>8. CaughtUp'
  BY ApplyCatches DEF CaughtUp
<1> QED
  BY <1>3, <1>4, <1>5, <1>6, <1>7, <1>8 DEF DashboardInv, Types

LEMMA FailKeeps ==
  ASSUME DashboardInv, NEW i \in DOMAIN refreshes, FailRefresh(i)
  PROVE  DashboardInv'
<1>1. refreshes[i] \in RefreshRecords /\ refreshes' = Without(i, FALSE)
  BY DEF DashboardInv, Types, RefreshTypes, FailRefresh
<1>2. RefreshTypes' /\ ReadIsOwn'
  BY <1>1, EndRefreshKeeps
<1>3. ServerTypes'
  BY BoundsAssumption
  DEF FailRefresh, ReadFails, Fault, DashboardInv, Types, ServerTypes, serverVars
<1>4. SessionTypes'
  BY <1>1, ResumeKeeps DEF FailRefresh, DashboardInv, RefreshRecords
<1>5. PageTypes' /\ SelectionIsListed' /\ ShownIsOwn'
  BY DEF FailRefresh, DashboardInv, Types, PageTypes, SelectionIsListed, ShownIsOwn,
         Listed, shownVars, sessionVars
<1>6. CaughtUp'
  BY DEF FailRefresh, CaughtUp, AllHeard
<1> QED
  BY <1>2, <1>3, <1>4, <1>5, <1>6 DEF DashboardInv, Types

\* An answer: what it brings is what the server has now.
LEMMA AnswerKeeps ==
  ASSUME DashboardInv, AnswerRefresh
  PROVE  DashboardInv'
<1>1. PICK i \in DOMAIN refreshes : AnswerJobs(i) \/ AnswerStats(i)
  BY DEF AnswerRefresh
<1>2. refreshes \in Seq(RefreshRecords) /\ refreshes[i] \in RefreshRecords
  BY DEF DashboardInv, Types, RefreshTypes
<1>3. UNCHANGED <<changes, last, made>>
  BY DEF AnswerRefresh, serverVars
<1>4. PICK new \in RefreshRecords :
        /\ refreshes' = [refreshes EXCEPT ![i] = new]
        /\ new.jobs.owner \in {new.token.sub, NoUser}
        /\ new.overtaken = refreshes[i].overtaken
        /\ Fresh(refreshes[i]) => Fresh(new)
  <2>1. CASE AnswerJobs(i)
    <3>1. ListNow(refreshes[i].token.sub) \in ReadLists
      BY <1>2 DEF RefreshRecords, LiveTokens, ListNow, ReadLists, DashboardInv, Types,
                  ServerTypes
    <3> DEFINE r == [refreshes[i] EXCEPT !.read = TRUE,
                                         !.jobs = ListNow(refreshes[i].token.sub)]
    <3>2. refreshes' = [refreshes EXCEPT ![i] = r]
      BY <1>2, <2>1 DEF AnswerJobs
    <3>3. r \in RefreshRecords
      BY <1>2, <3>1 DEF RefreshRecords
    <3>4. /\ r.token = refreshes[i].token /\ r.overtaken = refreshes[i].overtaken
          /\ r.stats = refreshes[i].stats /\ r.jobs = ListNow(refreshes[i].token.sub)
      BY <1>2 DEF RefreshRecords
    <3>5. r.jobs.owner = r.token.sub
      BY <3>4 DEF ListNow
    <3>6. Fresh(refreshes[i]) => Fresh(r)
      BY <3>4 DEF Fresh
    <3> QED
      BY <3>2, <3>3, <3>4, <3>5, <3>6
  <2>2. CASE AnswerStats(i)
    <3>1. StatsNow \in Unread..MaxChanges
      BY BoundsAssumption DEF StatsNow, DashboardInv, Types, ServerTypes, Unread
    <3> DEFINE r == [refreshes[i] EXCEPT !.stats = StatsNow]
    <3>2. refreshes' = [refreshes EXCEPT ![i] = r]
      BY <1>2, <2>2 DEF AnswerStats
    <3>3. r \in RefreshRecords
      BY <1>2, <3>1 DEF RefreshRecords
    <3>4. /\ r.token = refreshes[i].token /\ r.overtaken = refreshes[i].overtaken
          /\ r.jobs = refreshes[i].jobs /\ r.read = refreshes[i].read
          /\ r.stats = StatsNow
      BY <1>2 DEF RefreshRecords
    <3>5. r.jobs.owner \in {r.token.sub, NoUser}
      BY <3>4 DEF DashboardInv, ReadIsOwn
    <3>6. Fresh(refreshes[i]) => Fresh(r)
      BY <3>4 DEF Fresh
    <3> QED
      BY <3>2, <3>3, <3>4, <3>5, <3>6
  <2> QED
    BY <1>1, <2>1, <2>2
<1>5. /\ refreshes' \in Seq(RefreshRecords) /\ Len(refreshes') = Len(refreshes)
      /\ DOMAIN refreshes' = DOMAIN refreshes
      /\ refreshes'[i] = new
      /\ \A l \in DOMAIN refreshes : l # i => refreshes'[l] = refreshes[l]
  BY <1>2, <1>4
<1>6. \A l \in DOMAIN refreshes :
        /\ Fresh(refreshes[l]) => Fresh(refreshes[l])'
        /\ refreshes[l].overtaken => refreshes'[l].overtaken
        /\ refreshes'[l].jobs.owner \in {refreshes'[l].token.sub, NoUser}
  <2>1. ASSUME NEW l \in DOMAIN refreshes, l # i
        PROVE  /\ Fresh(refreshes[l]) => Fresh(refreshes[l])'
               /\ refreshes[l].overtaken => refreshes'[l].overtaken
               /\ refreshes'[l].jobs.owner \in {refreshes'[l].token.sub, NoUser}
    BY <1>3, <1>5, <2>1 DEF DashboardInv, ReadIsOwn, Fresh, ListNow, StatsNow
  <2>2. Fresh(refreshes[i]) => Fresh(refreshes[i])'
    BY <1>3, <1>4, <1>5 DEF Fresh, ListNow, StatsNow
  <2> QED
    BY <1>4, <1>5, <2>1, <2>2
<1>7. RefreshTypes' /\ ReadIsOwn'
  BY <1>5, <1>6 DEF DashboardInv, Types, RefreshTypes, ReadIsOwn
<1>8. ServerTypes' /\ SessionTypes' /\ PageTypes' /\ SelectionIsListed' /\ ShownIsOwn'
  BY DEF AnswerRefresh, DashboardInv, Types, ServerTypes, SessionTypes, PageTypes,
         SelectionIsListed, ShownIsOwn, Listed, serverVars, sessionVars, shownVars
<1>9. CaughtUp'
  <2> SUFFICES ASSUME AllHeard' PROVE WillBeShown' \/ IsShown'
    BY DEF CaughtUp
  <2>1. AllHeard
    BY DEF AllHeard, AnswerRefresh, serverVars, sessionVars
  <2>2. CASE WillBeShown
    <3>1. PICK k \in DOMAIN refreshes : \A l \in k..Len(refreshes) : Fresh(refreshes[l])
      BY <2>2 DEF WillBeShown
    <3>2. \A l \in k..Len(refreshes') : l \in DOMAIN refreshes
      BY <1>2, <1>5
    <3> QED
      BY <1>5, <1>6, <3>1, <3>2 DEF WillBeShown
  <2>3. CASE IsShown
    BY <1>3, <1>5, <1>6, <2>3
    DEF IsShown, AnswerRefresh, shownVars, sessionVars, ListNow, StatsNow
  <2> QED
    BY <2>1, <2>2, <2>3 DEF DashboardInv, CaughtUp
<1> QED
  BY <1>7, <1>8, <1>9 DEF DashboardInv, Types

----------------------------------------------------------------------------
(***************************************************************************)
(* The other actions                                                       *)
(***************************************************************************)
\* What is shown and who is signed in stay: so does all that is said of them.
LEMMA ShownFrame ==
  ASSUME DashboardInv, UNCHANGED shownVars, token'.sub = token.sub,
         loading' \in BOOLEAN, missed' \in BOOLEAN
  PROVE  PageTypes' /\ SelectionIsListed' /\ ShownIsOwn'
  BY DEF DashboardInv, Types, PageTypes, SelectionIsListed, ShownIsOwn, Listed, shownVars

LEMMA RefreshFrame ==
  ASSUME DashboardInv, UNCHANGED refreshes PROVE RefreshTypes' /\ ReadIsOwn'
  BY DEF DashboardInv, Types, RefreshTypes, ReadIsOwn

\* A commit and an announcement leave something to be heard; a stream that
\* breaks loses what was on its way.
LEMMA ServerKeeps ==
  ASSUME DashboardInv,
         \/ \E u \in Users : OthersChange(u)
         \/ Announce \/ StreamOpens \/ StreamBreaks
  PROVE  DashboardInv'
<1> USE BoundsAssumption
<1>1. RefreshTypes' /\ ReadIsOwn'
  BY RefreshFrame DEF OthersChange, Announce, StreamOpens, StreamBreaks
<1>2. PageTypes' /\ SelectionIsListed' /\ ShownIsOwn'
  <2>1. UNCHANGED shownVars /\ UNCHANGED token /\ loading' = loading
    BY DEF OthersChange, Announce, StreamOpens, StreamBreaks, sessionVars
  <2>2. missed' \in BOOLEAN /\ loading' \in BOOLEAN
    BY <2>1 DEF OthersChange, Announce, StreamOpens, StreamBreaks, DashboardInv, Types, PageTypes
  <2> QED
    BY <2>1, <2>2, ShownFrame
<1>3. ASSUME NEW u \in Users, OthersChange(u) PROVE DashboardInv'
  <2>1. ServerTypes' /\ ~AllHeard'
    BY <1>3, CommitKeeps DEF OthersChange, DashboardInv, Types, ServerTypes
  <2>2. SessionTypes'
    BY <1>3 DEF OthersChange, DashboardInv, Types, SessionTypes, sessionVars
  <2> QED
    BY <1>1, <1>2, <2>1, <2>2 DEF DashboardInv, Types, CaughtUp
<1>4. CASE Announce
  <2>1. ServerTypes'
    BY <1>4 DEF Announce, DashboardInv, Types, ServerTypes
  <2>2. SessionTypes'
    BY <1>4 DEF Announce, DashboardInv, Types, SessionTypes, sessionVars
  <2>3. ~AllHeard'
    BY <1>4 DEF Announce, AllHeard, DashboardInv, Types, ServerTypes
  <2> QED
    BY <1>1, <1>2, <2>1, <2>2, <2>3 DEF DashboardInv, Types, CaughtUp
<1>5. CASE StreamOpens
  <2>1. ServerTypes'
    BY <1>5 DEF StreamOpens, DashboardInv, Types, ServerTypes, serverVars
  <2>2. SessionTypes'
    BY <1>5 DEF StreamOpens, DashboardInv, Types, SessionTypes, sessionVars
  <2>3. CaughtUp'
    BY <1>5, QuietKeeps
    DEF StreamOpens, AllHeard, DashboardInv, serverVars, sessionVars, shownVars
  <2> QED
    BY <1>1, <1>2, <2>1, <2>2, <2>3 DEF DashboardInv, Types
<1>6. CASE StreamBreaks
  <2>1. ServerTypes'
    BY <1>6 DEF StreamBreaks, Fault, DashboardInv, Types, ServerTypes, serverVars
  <2>2. SessionTypes'
    BY <1>6 DEF StreamBreaks, DashboardInv, Types, SessionTypes, sessionVars
  <2>3. AllHeard' => AllHeard
    <3>1. ~missed' => ~missed /\ ~(inflow > 0)
      BY <1>6, Zenon DEF StreamBreaks
    <3>2. ~(inflow > 0) => inflow = 0
      BY DEF DashboardInv, Types, ServerTypes
    <3> QED
      BY <1>6, <3>1, <3>2 DEF StreamBreaks, AllHeard, serverVars, sessionVars
  <2>4. CaughtUp'
    BY <1>6, <2>3, QuietKeeps DEF StreamBreaks, DashboardInv, serverVars, sessionVars, shownVars
  <2> QED
    BY <1>1, <1>2, <2>1, <2>2, <2>4 DEF DashboardInv, Types
<1> QED
  BY <1>3, <1>4, <1>5, <1>6

\* A refresh is started: by the button, an event, the effects or an operation.
LEMMA StartsKeep ==
  ASSUME DashboardInv, PressRefresh \/ MessageArrives \/ RunEffects \/ OpSucceeds
  PROVE  DashboardInv'
<1> USE BoundsAssumption
<1>1. CASE PressRefresh
  <2>1. token \in LiveTokens
    BY <1>1, TokenFacts DEF PressRefresh, DashboardInv, Types, SessionTypes
  <2>2. /\ RefreshTypes' /\ ReadIsOwn' /\ CaughtUp'
        /\ loading' \in BOOLEAN /\ missed' \in BOOLEAN
    BY <1>1, <2>1, StartRefreshKeeps DEF PressRefresh, DashboardInv, serverVars
  <2>3. PageTypes' /\ SelectionIsListed' /\ ShownIsOwn'
    BY <1>1, <2>2, ShownFrame DEF PressRefresh, sessionVars
  <2>4. ServerTypes' /\ SessionTypes'
    BY <1>1 DEF PressRefresh, DashboardInv, Types, ServerTypes, SessionTypes, serverVars, sessionVars
  <2> QED
    BY <2>2, <2>3, <2>4 DEF DashboardInv, Types
<1>2. CASE MessageArrives
  <2>1. effectToken \in LiveTokens
    BY <1>2, TokenFacts DEF MessageArrives, DashboardInv, Types, ServerTypes, SessionTypes
  <2>2. /\ RefreshTypes' /\ ReadIsOwn' /\ CaughtUp'
        /\ loading' \in BOOLEAN /\ missed' \in BOOLEAN
    BY <1>2, <2>1, StartRefreshKeeps DEF MessageArrives, DashboardInv, serverVars
  <2>3. PageTypes' /\ SelectionIsListed' /\ ShownIsOwn'
    BY <1>2, <2>2, ShownFrame DEF MessageArrives, sessionVars
  <2>4. ServerTypes'
    BY <1>2 DEF MessageArrives, DashboardInv, Types, ServerTypes, serverVars
  <2>5. SessionTypes'
    BY <1>2 DEF MessageArrives, DashboardInv, Types, SessionTypes, sessionVars
  <2> QED
    BY <2>2, <2>3, <2>4, <2>5 DEF DashboardInv, Types
<1>3. CASE RunEffects /\ token = NoToken
  <2>1. RefreshTypes' /\ ReadIsOwn'
    BY <1>3, RefreshFrame DEF RunEffects
  <2>2. PageTypes' /\ SelectionIsListed' /\ ShownIsOwn'
    BY <1>3, ShownFrame DEF RunEffects, DashboardInv, Types, PageTypes
  <2>3. ServerTypes'
    BY <1>3 DEF RunEffects, DashboardInv, Types, ServerTypes, serverVars
  <2>4. SessionTypes'
    BY <1>3 DEF RunEffects, DashboardInv, Types, SessionTypes
  <2>5. ~AllHeard'
    BY <1>3 DEF RunEffects, AllHeard
  <2> QED
    BY <2>1, <2>2, <2>3, <2>4, <2>5 DEF DashboardInv, Types, CaughtUp
<1>4. CASE RunEffects /\ token # NoToken
  <2>1. token \in LiveTokens
    BY <1>4, TokenFacts DEF DashboardInv, Types, SessionTypes
  <2>2. /\ RefreshTypes' /\ ReadIsOwn' /\ CaughtUp'
        /\ loading' \in BOOLEAN /\ missed' \in BOOLEAN
    BY <1>4, <2>1, StartRefreshKeeps DEF RunEffects, DashboardInv, serverVars
  <2>3. PageTypes' /\ SelectionIsListed' /\ ShownIsOwn'
    BY <1>4, <2>2, ShownFrame DEF RunEffects
  <2>4. ServerTypes'
    BY <1>4 DEF RunEffects, DashboardInv, Types, ServerTypes, serverVars
  <2>5. SessionTypes'
    BY <1>4 DEF RunEffects, DashboardInv, Types, SessionTypes
  <2> QED
    BY <2>2, <2>3, <2>4, <2>5 DEF DashboardInv, Types
<1>5. CASE OpSucceeds
  <2>1. op \in OpRecords /\ op.token \in LiveTokens
    BY <1>5 DEF OpSucceeds, NoOp, DashboardInv, Types, SessionTypes
  <2>2. /\ RefreshTypes' /\ ReadIsOwn' /\ CaughtUp'
        /\ loading' \in BOOLEAN /\ missed' \in BOOLEAN
    BY <1>5, <2>1, StartRefreshKeeps DEF OpSucceeds, DashboardInv, serverVars
  <2>3. PageTypes' /\ SelectionIsListed' /\ ShownIsOwn'
    BY <1>5, <2>2, ShownFrame DEF OpSucceeds, sessionVars
  <2>4. ServerTypes'
    BY <1>5 DEF OpSucceeds, DashboardInv, Types, ServerTypes, serverVars
  <2>5. op' \in OpRecords /\ op'.token \in LiveTokens
    BY <1>5, <2>1 DEF OpSucceeds, OpRecords
  <2>6. SessionTypes'
    BY <1>5, <2>5 DEF OpSucceeds, DashboardInv, Types, SessionTypes, sessionVars
  <2> QED
    BY <2>2, <2>3, <2>4, <2>6 DEF DashboardInv, Types
<1> QED
  BY <1>1, <1>2, <1>3, <1>4, <1>5

\* Operations up to their refresh.
LEMMA OpsKeep ==
  ASSUME DashboardInv,
         \/ \E kind \in {"create", "retry", "cancel"}, n \in 1..MaxBatch : StartOp(kind, n)
         \/ ServeOp \/ NextOfBatch \/ OpFails \/ SelectJob
  PROVE  DashboardInv'
<1> USE BoundsAssumption
<1>1. op \in OpRecords /\ (op = NoOp \/ op.token \in LiveTokens)
  BY DEF DashboardInv, Types, SessionTypes
<1>2. RefreshTypes' /\ ReadIsOwn'
  BY RefreshFrame DEF StartOp, ServeOp, NextOfBatch, OpFails, SelectJob
<1>3. CASE SelectJob
  <2>1. selected' \in Listed(jobs) /\ jobs' = jobs
    BY <1>3 DEF SelectJob
  <2>2. SelectionIsListed'
    BY <2>1 DEF SelectionIsListed, Listed
  <2>3. selected' \in (Users \X (1..MaxChanges)) \cup {NoJobSelected}
    <3>1. PICK n \in 1..jobs.made : selected' = <<jobs.owner, n>>
      BY <2>1 DEF Listed
    <3>2. jobs.owner \in Users /\ jobs.made \in 0..MaxChanges
      BY <3>1 DEF DashboardInv, Types, PageTypes, ReadLists, Nothing
    <3> QED
      BY <3>1, <3>2
  <2>4. PageTypes' /\ ShownIsOwn'
    BY <1>3, <2>3 DEF SelectJob, DashboardInv, Types, PageTypes, ShownIsOwn, sessionVars
  <2>5. ServerTypes' /\ SessionTypes'
    BY <1>3 DEF SelectJob, DashboardInv, Types, ServerTypes, SessionTypes, serverVars, sessionVars
  <2>6. CaughtUp'
    BY <1>3, QuietKeeps DEF SelectJob, DashboardInv, AllHeard, serverVars, sessionVars
  <2> QED
    BY <1>2, <2>2, <2>4, <2>5, <2>6 DEF DashboardInv, Types
<1>4. ASSUME ~SelectJob,
             NEW o \in OpRecords, op' = o, o = NoOp \/ o.token \in LiveTokens,
             ServerTypes', CaughtUp'
      PROVE  DashboardInv'
  <2>1. UNCHANGED <<shownVars, sessionVars, loading, missed, stream>>
    BY <1>4 DEF StartOp, ServeOp, NextOfBatch, OpFails
  <2>2. PageTypes' /\ SelectionIsListed' /\ ShownIsOwn'
    BY <2>1, ShownFrame DEF sessionVars, DashboardInv, Types, PageTypes
  <2>3. SessionTypes'
    BY <1>4, <2>1 DEF DashboardInv, Types, SessionTypes, sessionVars
  <2> QED
    BY <1>2, <1>4, <2>2, <2>3 DEF DashboardInv, Types
<1>5. ASSUME ~ServeOp, ~SelectJob PROVE ServerTypes' /\ CaughtUp'
  <2>1. UNCHANGED <<serverVars, stream, inflow, faultsLeft, sessionVars, shownVars, missed,
                    refreshes>>
    BY <1>5 DEF StartOp, NextOfBatch, OpFails
  <2>2. ServerTypes'
    BY <2>1 DEF DashboardInv, Types, ServerTypes, serverVars
  <2>3. CaughtUp'
    BY <2>1, QuietKeeps DEF DashboardInv, AllHeard, serverVars, sessionVars, shownVars
  <2> QED
    BY <2>2, <2>3
<1>6. ASSUME NEW kind \in {"create", "retry", "cancel"}, NEW n \in 1..MaxBatch,
             StartOp(kind, n), ~ServeOp, ~SelectJob
      PROVE  DashboardInv'
  <2> DEFINE o == [kind |-> kind, token |-> token, left |-> n, pc |-> "sent"]
  <2>1. token \in LiveTokens /\ token \in Tokens
    BY <1>6, TokenFacts DEF StartOp, DashboardInv, Types, SessionTypes
  <2>2. o \in OpRecords /\ o.token \in LiveTokens /\ op' = o
    BY <1>6, <2>1 DEF OpRecords, StartOp
  <2> QED
    BY <1>4, <1>5, <1>6, <2>2
<1>7. CASE NextOfBatch /\ ~ServeOp /\ ~SelectJob
  <2> DEFINE o == [op EXCEPT !.left = @ - 1, !.pc = "sent"]
  <2>1. op.left - 1 \in 0..MaxBatch /\ op.token \in LiveTokens
    BY <1>1, <1>7 DEF NextOfBatch, OpRecords, NoOp
  <2>2. o \in OpRecords /\ o.token \in LiveTokens /\ op' = o
    BY <1>1, <1>7, <2>1 DEF OpRecords, NextOfBatch
  <2> QED
    BY <1>4, <1>5, <1>7, <2>2
<1>8. CASE OpFails /\ ~ServeOp /\ ~SelectJob
  <2>1. NoOp \in OpRecords
    BY TokenFacts DEF NoOp, OpRecords
  <2>2. op' = NoOp
    BY <1>8 DEF OpFails
  <2> QED
    BY <1>4, <1>5, <1>8, <2>1, <2>2
<1>9. CASE ServeOp /\ ~SelectJob
  <2>1. op.token \in LiveTokens /\ op.token.sub \in Users
    BY <1>1, <1>9, TokenFacts DEF ServeOp, NoOp
  <2>2. PICK pc \in {"answered", "refused"} :
          /\ op' = [op EXCEPT !.pc = pc]
          /\ pc = "answered" => /\ Commit(op.token.sub, IF op.kind = "create" THEN 1 ELSE 0)
                                /\ UNCHANGED faultsLeft
          /\ pc = "refused" => UNCHANGED serverVars /\ faultsLeft' \in 0..MaxFaults
    BY <1>9 DEF ServeOp, Fault, DashboardInv, Types, ServerTypes
  <2>3. [op EXCEPT !.pc = pc] \in OpRecords /\ [op EXCEPT !.pc = pc].token \in LiveTokens
    BY <1>1, <2>1 DEF OpRecords
  <2>4. UNCHANGED <<stream, inflow, sessionVars, shownVars, missed, refreshes>>
    BY <1>9 DEF ServeOp
  <2>5. CASE pc = "answered"
    <3>1. (IF op.kind = "create" THEN 1 ELSE 0) \in {0, 1}
      OBVIOUS
    <3>2. ServerTypes' /\ ~AllHeard'
      BY <2>1, <2>2, <2>4, <2>5, <3>1, CommitKeeps DEF DashboardInv, Types, ServerTypes
    <3> QED
      BY <1>4, <1>9, <2>2, <2>3, <3>2 DEF CaughtUp
  <2>6. CASE pc = "refused"
    <3>1. ServerTypes'
      BY <2>2, <2>4, <2>6 DEF DashboardInv, Types, ServerTypes, serverVars
    <3>2. CaughtUp'
      BY <2>2, <2>4, <2>6, QuietKeeps
      DEF DashboardInv, AllHeard, serverVars, sessionVars, shownVars
    <3> QED
      BY <1>4, <1>9, <2>2, <2>3, <3>1, <3>2
  <2> QED
    BY <2>5, <2>6
<1> QED
  BY <1>3, <1>6, <1>7, <1>8, <1>9

\* The page of nobody.
LEMMA EmptyPage ==
  /\ Nothing \in ReadLists /\ Unread \in Unread..MaxChanges
  /\ NoJobSelected \in (Users \X (1..MaxChanges)) \cup {NoJobSelected}
  /\ Nothing.made = 0 /\ Nothing.owner = NoUser
<1>1. Nothing.made = 0 /\ Nothing.owner = NoUser
  BY DEF Nothing
<1>2. Unread \in Unread..MaxChanges
  BY BoundsAssumption DEF Unread
<1> QED
  BY <1>1, <1>2 DEF ReadLists

LEMMA SignInKeeps ==
  ASSUME DashboardInv, NEW u \in Users, SignIn(u) PROVE DashboardInv'
<1>1. Token(u) \in LiveTokens /\ Token(u) # NoToken /\ Token(u) \in Tokens
  BY TokenFacts DEF Token, LiveTokens
<1>2. token' = Token(u) /\ accounts' \in SUBSET Users
  BY DEF SignIn, AuthRequest, Register, Login, Create, DashboardInv, Types, ServerTypes
<1>3. RefreshTypes' /\ ReadIsOwn'
  BY RefreshFrame DEF SignIn
<1>4. ServerTypes'
  BY <1>2 DEF SignIn, DashboardInv, Types, ServerTypes
<1>5. SessionTypes'
  BY <1>1, <1>2 DEF SignIn, DashboardInv, Types, SessionTypes
<1>6. PageTypes' /\ SelectionIsListed'
  BY DEF SignIn, DashboardInv, Types, PageTypes, SelectionIsListed, Listed, shownVars
<1>7. ShownIsOwn'
  BY TokenFacts DEF SignIn, DashboardInv, ShownIsOwn, shownVars
<1>8. ~AllHeard'
  BY <1>1, <1>2 DEF SignIn, AllHeard
<1> QED
  BY <1>3, <1>4, <1>5, <1>6, <1>7, <1>8 DEF DashboardInv, Types, CaughtUp

\* Sign-out and a reload empty the page; neither leaves a session that has
\* heard everything.
LEMMA LeaveKeeps ==
  ASSUME DashboardInv, SignOut \/ Reload PROVE DashboardInv'
<1>1. NoToken \in Tokens /\ NoToken.sub = NoUser /\ NoOp \in OpRecords
  BY TokenFacts, BoundsAssumption DEF NoOp, OpRecords
<1>2. /\ jobs' = Nothing /\ stats' = Unread /\ selected' = NoJobSelected /\ stale' = FALSE
      /\ loading' \in BOOLEAN /\ missed' \in BOOLEAN
  BY DEF SignOut, Reload, DashboardInv, Types, PageTypes
<1>3. PageTypes' /\ SelectionIsListed' /\ ShownIsOwn'
  BY <1>2, EmptyPage DEF PageTypes, SelectionIsListed, ShownIsOwn
<1>4. RefreshTypes' /\ ReadIsOwn'
  <2>1. CASE SignOut
    BY <2>1, RefreshFrame DEF SignOut
  <2>2. CASE Reload
    BY <2>2, BoundsAssumption DEF Reload, RefreshTypes, ReadIsOwn
  <2> QED
    BY <2>1, <2>2
<1>5. ServerTypes'
  BY DEF SignOut, Reload, DashboardInv, Types, ServerTypes, serverVars
<1>6. SessionTypes'
  BY <1>1 DEF SignOut, Reload, DashboardInv, Types, SessionTypes
<1>7. ~AllHeard'
  BY DEF SignOut, Reload, AllHeard
<1> QED
  BY <1>3, <1>4, <1>5, <1>6, <1>7 DEF DashboardInv, Types, CaughtUp

\* All copies of a token expire together, and stay those of their user.
LEMMA ExpiryKeeps ==
  ASSUME DashboardInv, TokenExpires PROVE DashboardInv'
<1>1. \A s \in Tokens : Expired(s) \in Tokens /\ Expired(s).sub = s.sub
                        /\ (s \in LiveTokens => Expired(s) \in LiveTokens)
                        /\ (Expired(s) = NoToken <=> s = NoToken)
  BY TokenFacts
<1>2. token \in Tokens /\ effectToken \in Tokens /\ token # NoToken
  BY DEF TokenExpires, NoToken, DashboardInv, Types, SessionTypes
<1>3. op' \in OpRecords /\ (op' = NoOp \/ op'.token \in LiveTokens)
  <2>1. CASE op = NoOp
    <3>1. NoOp \in OpRecords /\ NoOp.token = NoToken
      BY TokenFacts, BoundsAssumption DEF NoOp, OpRecords
    <3>2. [NoOp EXCEPT !.token = Expired(@)] = NoOp
      BY <3>1, TokenFacts DEF OpRecords
    <3> QED
      BY <2>1, <3>1, <3>2 DEF TokenExpires
  <2>2. CASE op # NoOp
    <3>1. op \in OpRecords /\ op.token \in LiveTokens /\ op.token \in Tokens
      BY <2>2, TokenFacts DEF DashboardInv, Types, SessionTypes
    <3>2. op' = [op EXCEPT !.token = Expired(op.token)]
      BY DEF TokenExpires
    <3>3. Expired(op.token) \in LiveTokens /\ Expired(op.token) \in Tokens
      BY <1>1, <3>1
    <3> QED
      BY <3>1, <3>2, <3>3 DEF OpRecords
  <2> QED
    BY <2>1, <2>2
<1>4. SessionTypes'
  BY <1>1, <1>2, <1>3 DEF TokenExpires, DashboardInv, Types, SessionTypes
<1>5. ServerTypes'
  BY BoundsAssumption DEF TokenExpires, Fault, DashboardInv, Types, ServerTypes, serverVars
<1>6. PageTypes' /\ SelectionIsListed' /\ ShownIsOwn'
  <2>1. token'.sub = token.sub
    BY <1>1, <1>2 DEF TokenExpires
  <2> QED
    BY <2>1, ShownFrame DEF TokenExpires, DashboardInv, Types, PageTypes
<1>7. /\ refreshes \in Seq(RefreshRecords)
      /\ refreshes' = [i \in DOMAIN refreshes |->
                         [refreshes[i] EXCEPT !.token = Expired(refreshes[i].token)]]
  BY DEF TokenExpires, DashboardInv, Types, RefreshTypes
<1>8. ASSUME NEW l \in DOMAIN refreshes
      PROVE  /\ refreshes'[l] \in RefreshRecords
             /\ refreshes'[l].token.sub = refreshes[l].token.sub
             /\ refreshes'[l].read = refreshes[l].read
             /\ refreshes'[l].jobs = refreshes[l].jobs
             /\ refreshes'[l].stats = refreshes[l].stats
             /\ refreshes'[l].overtaken = refreshes[l].overtaken
  <2>1. refreshes[l] \in RefreshRecords
    BY <1>7
  <2>2. refreshes[l].token \in LiveTokens
    BY <2>1 DEF RefreshRecords
  <2>3. /\ Expired(refreshes[l].token) \in LiveTokens
        /\ Expired(refreshes[l].token).sub = refreshes[l].token.sub
    BY <2>2, TokenFacts
  <2>4. refreshes'[l] = [refreshes[l] EXCEPT !.token = Expired(refreshes[l].token)]
    BY <1>7
  <2> QED
    BY <2>1, <2>3, <2>4 DEF RefreshRecords
<1>9. /\ refreshes' \in Seq(RefreshRecords) /\ Len(refreshes') = Len(refreshes)
      /\ DOMAIN refreshes' = DOMAIN refreshes
  <2>1. Len(refreshes) \in Nat /\ DOMAIN refreshes = 1..Len(refreshes)
    BY <1>7
  <2>2. refreshes' \in [1..Len(refreshes) -> RefreshRecords] /\ Len(refreshes) \in Nat
    BY <1>7, <1>8, <2>1
  <2>3. refreshes' \in Seq(RefreshRecords)
    BY <2>2, SeqDef
  <2> QED
    BY <1>7, <2>2, <2>3
<1>10. RefreshTypes' /\ ReadIsOwn'
  BY <1>8, <1>9 DEF DashboardInv, Types, RefreshTypes, ReadIsOwn
<1>11. CaughtUp'
  <2> SUFFICES ASSUME AllHeard' PROVE WillBeShown' \/ IsShown'
    BY DEF CaughtUp
  <2>1. /\ UNCHANGED <<changes, last, made, outbox, inflow, missed, jobs, stats, stale>>
        /\ token' = Expired(token) /\ effectToken' = Expired(effectToken)
    BY DEF TokenExpires, serverVars, shownVars
  <2>2. effectToken = token
    BY <1>1, <1>2, <2>1 DEF AllHeard, DashboardInv, Types, SessionTypes
  <2>3. AllHeard
    BY <1>2, <2>1, <2>2 DEF AllHeard
  <2>4. \A l \in DOMAIN refreshes : Fresh(refreshes[l]) => Fresh(refreshes[l])'
    BY <1>8, <2>1 DEF Fresh, ListNow, StatsNow
  <2>5. CASE WillBeShown
    <3>1. PICK k \in DOMAIN refreshes : \A l \in k..Len(refreshes) : Fresh(refreshes[l])
      BY <2>5 DEF WillBeShown
    <3>2. \A l \in k..Len(refreshes') : l \in DOMAIN refreshes
      BY <1>7, <1>9
    <3> QED
      BY <1>9, <2>4, <3>1, <3>2 DEF WillBeShown
  <2>6. CASE IsShown
    <3>1. token'.sub = token.sub
      BY <1>1, <1>2, <2>1
    <3>2. ListNow(token.sub)' = ListNow(token.sub) /\ StatsNow' = StatsNow
      BY <2>1, <3>1 DEF ListNow, StatsNow
    <3> QED
      BY <1>8, <1>9, <2>1, <2>4, <2>6, <3>2 DEF IsShown
  <2> QED
    BY <2>3, <2>5, <2>6 DEF DashboardInv, CaughtUp
<1> QED
  BY <1>4, <1>5, <1>6, <1>10, <1>11 DEF DashboardInv, Types

----------------------------------------------------------------------------
(***************************************************************************)
(* Theorems                                                                *)
(***************************************************************************)
\* The invariant joins the page to the server: once every event is heard, what
\* the server has is shown or will be, by the newest refreshes under way.
THEOREM DashboardCorrect == Spec => []DashboardInv
<1>1. Init => DashboardInv
  <2> SUFFICES ASSUME Init PROVE DashboardInv
    OBVIOUS
  <2> USE BoundsAssumption DEF Init, AccountsInit
  <2>1. NoToken \in Tokens /\ NoOp \in OpRecords
    BY TokenFacts DEF NoOp, OpRecords
  <2>2. ServerTypes
    BY DEF ServerTypes
  <2>3. SessionTypes /\ RefreshTypes
    BY <2>1 DEF SessionTypes, RefreshTypes
  <2>4. PageTypes /\ SelectionIsListed /\ ShownIsOwn
    BY EmptyPage DEF PageTypes, SelectionIsListed, ShownIsOwn
  <2>5. ReadIsOwn /\ CaughtUp
    BY DEF ReadIsOwn, CaughtUp, AllHeard
  <2> QED
    BY <2>2, <2>3, <2>4, <2>5 DEF DashboardInv, Types
<1>2. DashboardInv /\ [Next]_dashboardVars => DashboardInv'
  <2> SUFFICES ASSUME DashboardInv, [Next]_dashboardVars PROVE DashboardInv'
    OBVIOUS
  <2>1. CASE ServerStep
    BY <2>1, ServerKeeps, AnswerKeeps, OpsKeep DEF ServerStep
  <2>2. CASE PageStep
    BY <2>2, ApplyKeeps, FailKeeps, StartsKeep, OpsKeep DEF PageStep, RefreshEnds
  <2>3. CASE UserStep
    BY <2>3, SignInKeeps, OpsKeep, LeaveKeeps, StartsKeep DEF UserStep
  <2>4. CASE StreamBreaks \/ TokenExpires \/ \E u \in Users : OthersChange(u)
    BY <2>4, ServerKeeps, ExpiryKeeps
  <2>5. CASE UNCHANGED dashboardVars
    <3>1. UNCHANGED <<serverVars, stream, inflow, refreshes, op, sessionVars, shownVars,
                      loading, missed, faultsLeft>>
      BY <2>5 DEF dashboardVars
    <3>2. ServerTypes' /\ SessionTypes'
      BY <3>1 DEF DashboardInv, Types, ServerTypes, SessionTypes, serverVars, sessionVars
    <3>3. PageTypes' /\ SelectionIsListed' /\ ShownIsOwn'
      BY <3>1, ShownFrame DEF DashboardInv, Types, PageTypes, sessionVars
    <3>4. CaughtUp'
      BY <3>1, QuietKeeps DEF DashboardInv, AllHeard, serverVars, sessionVars, shownVars
    <3> QED
      BY <3>1, <3>2, <3>3, <3>4, RefreshFrame DEF DashboardInv, Types
  <2> QED
    BY <2>1, <2>2, <2>3, <2>4, <2>5 DEF Next
<1> QED
  BY <1>1, <1>2, PTL DEF Spec

\* The page shows what the server has once all is quiet, unless an older answer
\* came last, an event found no stream or a refresh failed, for any number of
\* overlapping refreshes, sessions and changes (useJobFlow.js, refresh).
THEOREM CurrentCorrect == Spec => []CurrentUnlessOvertaken
<1>1. DashboardInv => CurrentUnlessOvertaken
  BY DEF DashboardInv, CurrentUnlessOvertaken, Settled, CaughtUp, AllHeard, WillBeShown, IsShown
<1> QED
  BY <1>1, DashboardCorrect, PTL

\* What the page shows belongs together: the selected job is in the list, and the
\* list is the signed-in user's unless it came late (useJobFlow.js, refresh and
\* signOut).
THEOREM PageCorrect == Spec => []PageInv
<1>1. DashboardInv => TypeOK
  <2> SUFFICES ASSUME DashboardInv PROVE TypeOK
    OBVIOUS
  <2>1. /\ accounts \in SUBSET Users /\ changes \in 0..MaxChanges
        /\ last \in [Users -> 0..MaxChanges] /\ made \in [Users -> 0..MaxChanges]
        /\ outbox \in 0..MaxChanges /\ inflow \in 0..MaxChanges
        /\ stream \in {"closed", "connecting", "open"} /\ faultsLeft \in 0..MaxFaults
    BY BoundsAssumption DEF DashboardInv, Types, ServerTypes
  <2>2. ReadLists \subseteq Lists
    BY BoundsAssumption DEF ReadLists, Lists, Nothing
  <2>3. ASSUME NEW r \in Range(refreshes)
        PROVE  /\ r.token \in Tokens \ {NoToken}
               /\ r.jobs \in Lists
               /\ r.stats \in Unread..MaxChanges
               /\ {r.read, r.overtaken, r.awaited} \subseteq BOOLEAN
    <3>1. r \in RefreshRecords
      BY <2>3 DEF DashboardInv, Types, RefreshTypes, Range
    <3> QED
      BY <2>2, <3>1, TokenFacts DEF RefreshRecords
  <2>4. /\ Len(refreshes) <= MaxRefreshes /\ op \in OpRecords
        /\ {token, effectToken} \subseteq Tokens
        /\ jobs \in Lists /\ stats \in Unread..MaxChanges
        /\ selected \in (Users \X (1..MaxChanges)) \cup {NoJobSelected}
        /\ {loading, stale, missed} \subseteq BOOLEAN
    BY <2>2 DEF DashboardInv, Types, RefreshTypes, SessionTypes, PageTypes
  <2> QED
    BY <2>1, <2>3, <2>4 DEF TypeOK, OpRecords
<1>2. DashboardInv => PageInv
  BY <1>1 DEF PageInv, DashboardInv
<1> QED
  BY <1>2, DashboardCorrect, PTL
=============================================================================
