---------------------------- MODULE ConsoleProofs ----------------------------
(***************************************************************************)
(* Proofs about Console, for any number of jobs, rows of a page, views and *)
(* retries under way.                                                      *)
(***************************************************************************)
EXTENDS Console, SequenceLemmas

----------------------------------------------------------------------------
(***************************************************************************)
(* The inductive invariant                                                 *)
(***************************************************************************)
\* A list of jobs, none of them twice: the selection an action works on.
JobLists == {l \in Seq(JobIds) : IsInjective(l)}

DialogRecords == [action : {"none", "cancel", "cancel_job", "sign_out"},
                  jobs : JobLists, mounted : BOOLEAN]

RunRecords == [action : {"retry", "cancel"}, from : {"job", "bulk"},
               jobs : JobLists \ {<<>>}, left : Seq(JobIds) \ {<<>>},
               done : SUBSET JobIds, answer : {"waiting", "accepted"},
               mounted : BOOLEAN]

\* A dialog about jobs has some; nothing else is open without being named.
DialogTypes ==
  /\ confirm \in DialogRecords
  /\ confirm.action \in {"cancel", "cancel_job"} => confirm.jobs # <<>>
  /\ confirmBusy \in BOOLEAN

FilterRecords == [status : FilterStatuses \cup {AllJobs}, page : 1..MaxJobs,
                  pageSize : PageSizes]

PageTypes ==
  /\ status \in [JobIds -> Statuses]
  /\ jobs \in [JobIds -> Statuses \cup {Absent}]
  /\ view \in Views
  /\ filters \in FilterRecords
  /\ ticked \in SUBSET JobIds

\* A session has no sign-in request; the button is busy while there is one.
AuthInv ==
  /\ authed \in BOOLEAN
  /\ auth \in [mode : {"login", "register"}, busy : BOOLEAN,
               request : {"login", "register", NoRequest}]
  /\ auth.busy <=> auth.request # NoRequest
  /\ authed => auth.request = NoRequest

\* Every job of an action is done or still to come, and the one whose call has been
\* answered is done.
RunInv(run) ==
  /\ run.done \cup Range(run.left) = Range(run.jobs)
  /\ run.answer = "accepted" => Head(run.left) \in run.done

RunsInv ==
  /\ runs \in Seq(RunRecords)
  /\ \A k \in 1..Len(runs) : RunInv(runs[k])

\* The dialog is busy while there is a cancellation, and there is one at a time.
BusyInv ==
  /\ \A k, l \in 1..Len(runs) :
       runs[k].action = "cancel" /\ runs[l].action = "cancel" => k = l
  /\ confirmBusy <=> \E k \in 1..Len(runs) : runs[k].action = "cancel"
  /\ confirmBusy => authed /\ confirm.action # "none"

ConsoleInv == PageTypes /\ DialogTypes /\ AuthInv /\ RunsInv /\ BusyInv

----------------------------------------------------------------------------
(***************************************************************************)
(* The jobs that match, the selected ones, and the pages                   *)
(***************************************************************************)
LEMMA NewestFirstTyped == NewestFirst \in JobLists /\ Len(NewestFirst) = MaxJobs
<1>1. MaxJobs \in Nat
  BY ConsoleAssumption
<1>2. \A i \in JobIds : MaxJobs + 1 - i \in JobIds
  BY <1>1 DEF JobIds
<1>3. NewestFirst \in [1..MaxJobs -> JobIds]
  BY <1>2 DEF NewestFirst, JobIds
<1>4. NewestFirst \in Seq(JobIds) /\ Len(NewestFirst) = MaxJobs
  BY <1>1, <1>3
<1>5. ASSUME NEW a \in JobIds, NEW b \in JobIds, NewestFirst[a] = NewestFirst[b]
      PROVE  a = b
  <2>1. MaxJobs + 1 - a = MaxJobs + 1 - b
    BY <1>5 DEF NewestFirst
  <2> QED
    BY <1>1, <2>1 DEF JobIds
<1>6. IsInjective(NewestFirst)
  BY <1>3, <1>5 DEF IsInjective, JobIds
<1> QED
  BY <1>4, <1>6 DEF JobLists

\* The table lists each matching job once.
LEMMA SortedProperties ==
  /\ SortedJobs \in JobLists
  /\ Len(SortedJobs) \in 0..MaxJobs
  /\ Range(SortedJobs) = {j \in JobIds : Matches(j)}
<1> DEFINE places == {i \in JobIds : Matches(NewestFirst[i])}
<1>1. /\ NewestFirst \in Seq(JobIds) /\ IsInjective(NewestFirst)
      /\ Len(NewestFirst) = MaxJobs /\ DOMAIN NewestFirst = JobIds
  BY NewestFirstTyped DEF JobLists, JobIds
<1>2. places \in SUBSET DOMAIN NewestFirst
  BY <1>1
<1>3. SortedJobs = Keep(NewestFirst, places)
  BY DEF SortedJobs
<1> HIDE DEF places
<1>4. /\ SortedJobs \in Seq(JobIds)
      /\ Len(SortedJobs) = Cardinality(places)
      /\ Cardinality(places) \in 0..MaxJobs
      /\ Range(SortedJobs) = {NewestFirst[i] : i \in places}
      /\ IsInjective(SortedJobs)
  BY <1>1, <1>2, <1>3, KeepProperties
<1>5. {NewestFirst[i] : i \in places} = {j \in JobIds : Matches(j)}
  <2>1. ASSUME NEW j \in JobIds
        PROVE  MaxJobs + 1 - j \in JobIds /\ NewestFirst[MaxJobs + 1 - j] = j
    <3>1. MaxJobs \in Nat /\ MaxJobs + 1 - j \in JobIds
          /\ MaxJobs + 1 - (MaxJobs + 1 - j) = j
      BY ConsoleAssumption DEF JobIds
    <3> QED
      BY <3>1 DEF NewestFirst
  <2>2. \A i \in JobIds : NewestFirst[i] \in JobIds
    BY <1>1
  <2> QED
    BY <2>1, <2>2 DEF places
<1> QED
  BY <1>4, <1>5 DEF JobLists

LEMMA SelectedTyped == SelectedJobs \in JobLists
<1> DEFINE places == {i \in DOMAIN SortedJobs : SortedJobs[i] \in ticked}
<1>1. SortedJobs \in Seq(JobIds) /\ IsInjective(SortedJobs)
  BY SortedProperties DEF JobLists
<1>2. SelectedJobs = Keep(SortedJobs, places)
  BY DEF SelectedJobs
<1>3. places \in SUBSET DOMAIN SortedJobs
  OBVIOUS
<1> HIDE DEF places
<1>4. Keep(SortedJobs, places) \in Seq(JobIds) /\ IsInjective(Keep(SortedJobs, places))
  BY <1>1, <1>3, KeepProperties
<1> QED
  BY <1>2, <1>4 DEF JobLists

LEMMA PageSizeTyped == PageTypes => PageSize \in Nat \ {0}
  BY ConsoleAssumption DEF PageTypes, FilterRecords, PageSize

\* The last page is the one that reaches the last job, and no page before it does.
LEMMA PageCountProperties ==
  ASSUME PageTypes
  PROVE  /\ PageCount \in 1..MaxJobs
         /\ Len(SortedJobs) > 0 =>
              /\ Len(SortedJobs) <= PageSize * PageCount
              /\ PageSize * PageCount - PageSize < Len(SortedJobs)
<1> DEFINE c == (Len(SortedJobs) + PageSize - 1) \div PageSize
<1>1. PICK n \in Nat, P \in Nat \ {0} :
        n = Len(SortedJobs) /\ P = PageSize /\ n <= MaxJobs
  BY SortedProperties, PageSizeTyped
<1>2. c = (n + P - 1) \div P
  BY <1>1
<1>3. c \in Int /\ P * c <= n + P - 1 /\ n + P - 1 < P * c + P
  BY <1>1, <1>2
<1> HIDE DEF c
<1>4. c >= 0
  <2> SUFFICES ASSUME c + 1 <= 0 PROVE FALSE
    BY <1>3
  <2>1. P * (c + 1) <= 0
    BY <1>3
  <2>2. P * (c + 1) = P * c + P
    BY <1>3
  <2> QED
    BY <1>1, <1>3, <2>1, <2>2
<1>5. PageCount = IF c >= 1 THEN c ELSE 1
  <2>1. PageCount = Max({1, c})
    BY DEF PageCount, c
  <2>2. Max({1, c}) = IF 1 >= c THEN 1 ELSE c
    BY <1>3, MaxOfTwo
  <2> QED
    BY <1>3, <2>1, <2>2
<1>6. n > 0 => c >= 1
  <2> SUFFICES ASSUME n > 0, c = 0 PROVE FALSE
    BY <1>3, <1>4
  <2>1. P * c = 0
    BY <1>1, <2>1
  <2> QED
    BY <1>1, <1>3, <2>1
<1>7. c <= n
  <2> SUFFICES ASSUME c >= n + 1 PROVE FALSE
    BY <1>3
  <2>1. P * c >= P * (n + 1)
    BY <1>1, <1>3
  <2>2. P * (n + 1) = P * n + P
    BY <1>1
  <2>3. P * n >= n
    BY <1>1
  <2> QED
    BY <1>1, <1>3, <2>1, <2>2, <2>3
<1>8. PageCount \in 1..MaxJobs
  BY <1>1, <1>3, <1>5, <1>7, ConsoleAssumption
<1>9. n > 0 => n <= P * PageCount /\ P * PageCount - P < n
  BY <1>1, <1>3, <1>5, <1>6
<1> QED
  BY <1>1, <1>8, <1>9

\* A rank is on one of the pages, and on no other.
LEMMA PageOfRank ==
  ASSUME PageTypes, NEW r \in 1..Len(SortedJobs)
  PROVE  \E q \in 1..PageCount : \A p \in 1..PageCount :
           (p - 1) * PageSize < r /\ r <= p * PageSize <=> p = q
<1> DEFINE d == (r - 1) \div PageSize
<1>1. PICK n \in Nat, P \in Nat \ {0}, N \in Nat \ {0} :
        /\ n = Len(SortedJobs) /\ P = PageSize /\ N = PageCount
        /\ r \in Nat /\ 1 <= r /\ r <= n
        /\ n <= P * N
  BY SortedProperties, PageCountProperties, PageSizeTyped
<1>2. d = (r - 1) \div P
  BY <1>1
<1>3. d \in Int /\ P * d <= r - 1 /\ r - 1 < P * d + P
  BY <1>1, <1>2
<1> HIDE DEF d
<1>4. d >= 0
  <2> SUFFICES ASSUME d + 1 <= 0 PROVE FALSE
    BY <1>3
  <2>1. P * (d + 1) <= 0
    BY <1>3
  <2>2. P * (d + 1) = P * d + P
    BY <1>3
  <2> QED
    BY <1>1, <1>3, <2>1, <2>2
<1>5. d + 1 <= N
  <2> SUFFICES ASSUME d >= N PROVE FALSE
    BY <1>1, <1>3
  <2>1. P * d >= P * N
    BY <1>1, <1>3
  <2> QED
    BY <1>1, <1>3, <2>1
<1>6. d + 1 \in 1..N
  BY <1>1, <1>3, <1>4, <1>5
<1>7. ASSUME NEW p \in 1..N
      PROVE  (p - 1) * P < r /\ r <= p * P <=> p = d + 1
  <2>0. p \in Nat /\ (p - 1) * P = P * p - P /\ p * P = P * p
    BY <1>1
  <2>1. CASE p = d + 1
    <3>1. P * p = P * d + P
      BY <1>1, <1>3, <2>1
    <3> QED
      BY <1>1, <1>3, <2>0, <2>1, <3>1
  <2>2. CASE p <= d
    <3>1. P * p <= P * d
      BY <1>1, <1>3, <2>0, <2>2
    <3> QED
      BY <1>1, <1>3, <2>0, <2>2, <3>1
  <2>3. CASE p >= d + 2
    <3>1. P * p >= P * (d + 2)
      BY <1>1, <1>3, <2>0, <2>3
    <3>2. P * (d + 2) = P * d + P + P
      BY <1>1, <1>3
    <3> QED
      BY <1>1, <1>3, <2>0, <2>3, <3>1, <3>2
  <2> QED
    BY <1>3, <2>0, <2>1, <2>2, <2>3
<1> QED
  BY <1>1, <1>6, <1>7

\* The rows of a page are the jobs of its ranks.
LEMMA RowsProperties ==
  ASSUME PageTypes, NEW p \in 1..PageCount
  PROVE  /\ RowsOf(p) \in Seq(JobIds)
         /\ Range(RowsOf(p)) = {SortedJobs[r] : r \in {r \in 1..Len(SortedJobs) :
                                   (p - 1) * PageSize < r /\ r <= p * PageSize}}
<1> DEFINE s == SortedJobs
           from == (p - 1) * PageSize + 1
           to == Min({p * PageSize, Len(s)})
           ranks == {r \in 1..Len(s) : (p - 1) * PageSize < r /\ r <= p * PageSize}
<1>1. s \in Seq(JobIds) /\ Len(s) \in Nat
  BY SortedProperties DEF JobLists
<1>2. p \in Nat \ {0} /\ PageSize \in Nat \ {0}
  BY PageCountProperties, PageSizeTyped
<1>3. PICK a \in Nat, b \in Nat : a = (p - 1) * PageSize /\ b = p * PageSize
  BY <1>2
<1>4. to = IF b <= Len(s) THEN b ELSE Len(s)
  BY <1>1, <1>3, MinOfTwo
<1>5. from = a + 1 /\ from \in Nat /\ to \in Nat
  BY <1>1, <1>3, <1>4
<1>6. RowsOf(p) = SubSeq(s, from, to)
  BY DEF RowsOf
<1>7. ranks = {r \in 1..Len(s) : a < r /\ r <= b}
  BY <1>3
<1> HIDE DEF s, from, to, ranks
<1>8. \A i \in from..to : s[i] \in JobIds /\ i \in 1..Len(s)
  BY <1>1, <1>4, <1>5
<1>9. /\ SubSeq(s, from, to) \in Seq(JobIds)
      /\ Len(SubSeq(s, from, to)) = IF from <= to THEN to - from + 1 ELSE 0
      /\ \A i \in 1..(to - from + 1) : SubSeq(s, from, to)[i] = s[from + i - 1]
  BY <1>5, <1>8, SubSeqProperties
<1>10. Range(SubSeq(s, from, to)) \subseteq {s[r] : r \in ranks}
  <2> SUFFICES ASSUME NEW i \in 1..Len(SubSeq(s, from, to))
               PROVE  SubSeq(s, from, to)[i] \in {s[r] : r \in ranks}
    BY <1>9 DEF Range
  <2>1. i \in 1..(to - from + 1) /\ from + i - 1 \in from..to
    BY <1>5, <1>9
  <2>2. from + i - 1 \in ranks
    <3>1. PICK m \in Int : m = from + i - 1 /\ from <= m /\ m <= to
      BY <1>5, <2>1
    <3>2. m \in 1..Len(s) /\ a < m /\ m <= b
      BY <1>1, <1>4, <1>5, <3>1
    <3> QED
      BY <1>7, <3>1, <3>2
  <2> QED
    BY <1>9, <2>1, <2>2
<1>11. {s[r] : r \in ranks} \subseteq Range(SubSeq(s, from, to))
  <2> SUFFICES ASSUME NEW r \in ranks PROVE s[r] \in Range(SubSeq(s, from, to))
    OBVIOUS
  <2>1. r \in Nat /\ from <= r /\ r <= to
    BY <1>1, <1>3, <1>4, <1>5, <1>7
  <2>2. r - from + 1 \in 1..(to - from + 1) /\ from + (r - from + 1) - 1 = r
    BY <1>5, <2>1
  <2>3. SubSeq(s, from, to)[r - from + 1] = s[r]
    BY <1>9, <2>2
  <2>4. r - from + 1 \in DOMAIN SubSeq(s, from, to)
    BY <1>5, <1>9, <2>1, <2>2
  <2> QED
    BY <2>3, <2>4 DEF Range
<1> QED
  BY <1>6, <1>9, <1>10, <1>11 DEF s, ranks

LEMMA PageShown ==
  ASSUME PageTypes
  PROVE  /\ Page \in 1..PageCount /\ Page \in 1..MaxJobs
         /\ Page = IF filters.page <= PageCount THEN filters.page ELSE PageCount
<1>1. filters.page \in Nat \ {0} /\ PageCount \in 1..MaxJobs /\ MaxJobs \in Nat
  BY PageCountProperties, ConsoleAssumption DEF PageTypes, FilterRecords
<1>2. Page = IF filters.page <= PageCount THEN filters.page ELSE PageCount
  BY <1>1, MinOfTwo DEF Page
<1> QED
  BY <1>1, <1>2

\* The pages cover the matching jobs, each of them once.
LEMMA PagesOfJob ==
  ASSUME PageTypes, NEW j \in JobIds
  PROVE  Cardinality({p \in 1..PageCount : j \in Range(RowsOf(p))})
           = IF Matches(j) THEN 1 ELSE 0
<1> DEFINE pages == {p \in 1..PageCount : j \in Range(RowsOf(p))}
<1>1. SortedJobs \in Seq(JobIds) /\ IsInjective(SortedJobs)
      /\ Range(SortedJobs) = {i \in JobIds : Matches(i)}
  BY SortedProperties DEF JobLists
<1>2. CASE Matches(j)
  <2>1. PICK r \in 1..Len(SortedJobs) : SortedJobs[r] = j
    BY <1>1, <1>2 DEF Range
  <2>2. PICK q \in 1..PageCount : \A p \in 1..PageCount :
          (p - 1) * PageSize < r /\ r <= p * PageSize <=> p = q
    BY PageOfRank
  <2>3. ASSUME NEW p \in 1..PageCount PROVE j \in Range(RowsOf(p)) <=> p = q
    <3>1. j \in Range(RowsOf(p)) <=> \E i \in 1..Len(SortedJobs) :
            (p - 1) * PageSize < i /\ i <= p * PageSize /\ SortedJobs[i] = j
      BY RowsProperties
    <3>2. \A i \in 1..Len(SortedJobs) : SortedJobs[i] = j <=> i = r
      BY <1>1, <2>1 DEF IsInjective
    <3> QED
      BY <2>2, <3>1, <3>2
  <2>4. pages = {q}
    BY <2>3
  <2> HIDE DEF pages
  <2>5. Cardinality(pages) = 1
    BY <2>4, FS_Singleton
  <2> QED
    BY <1>2, <2>5 DEF pages
<1>3. CASE ~Matches(j)
  <2>1. ASSUME NEW p \in 1..PageCount PROVE j \notin Range(RowsOf(p))
    <3>1. Range(RowsOf(p)) \subseteq Range(SortedJobs)
      BY RowsProperties DEF Range
    <3> QED
      BY <1>1, <1>3, <3>1
  <2>2. pages = {}
    BY <2>1
  <2> HIDE DEF pages
  <2>3. Cardinality(pages) = 0
    BY <2>2, FS_EmptySet
  <2> QED
    BY <1>3, <2>3 DEF pages
<1> QED
  BY <1>2, <1>3

\* A page that is shown has a row, if any job matches.
LEMMA PageHasRow ==
  ASSUME PageTypes, NEW j \in JobIds, Matches(j) PROVE Rows # <<>>
<1>1. SortedJobs \in Seq(JobIds) /\ Len(SortedJobs) \in Nat /\ j \in Range(SortedJobs)
  BY SortedProperties DEF JobLists
<1>2. PICK n \in Nat, P \in Nat \ {0}, N \in Nat \ {0}, p \in Nat \ {0} :
        /\ n = Len(SortedJobs) /\ P = PageSize /\ N = PageCount /\ p = Page
        /\ n > 0 /\ p <= N /\ P * N - P < n
  <2>1. Len(SortedJobs) > 0
    BY <1>1 DEF Range
  <2>2. PageSize \in Nat \ {0} /\ MaxJobs \in Nat
    BY PageSizeTyped, ConsoleAssumption
  <2>3. PageCount \in Nat \ {0} /\ PageSize * PageCount - PageSize < Len(SortedJobs)
    BY <2>1, <2>2, PageCountProperties
  <2>4. Page \in Nat \ {0} /\ Page <= PageCount
    BY <2>3, PageShown
  <2> QED
    BY <1>1, <2>1, <2>2, <2>3, <2>4
<1>3. P * p <= P * N /\ (p - 1) * P = P * p - P /\ p * P = P * p /\ P * p >= P
  BY <1>2
<1>4. P * p - P + 1 \in 1..n /\ (p - 1) * P < P * p - P + 1 /\ P * p - P + 1 <= p * P
  BY <1>2, <1>3
<1>5. SortedJobs[P * p - P + 1] \in Range(RowsOf(p))
  BY <1>2, <1>4, PageShown, RowsProperties
<1>6. Rows = RowsOf(p) /\ RowsOf(p) \in Seq(JobIds)
  BY <1>2, PageShown, RowsProperties DEF Rows
<1> QED
  BY <1>5, <1>6 DEF Range

----------------------------------------------------------------------------
(***************************************************************************)
(* The page, the sign-in form and the dialog, step by step                 *)
(***************************************************************************)
LEMMA RowsAreJobs == PageTypes => Rows \in Seq(JobIds) /\ Range(Rows) \subseteq JobIds
  BY PageShown, RowsProperties DEF Rows, Range

LEMMA FirstFiltersTyped == FirstFilters \in FilterRecords
  BY ConsoleAssumption DEF FirstFilters, FilterRecords

LEMMA EmptyJobList == <<>> \in JobLists
<1>1. <<>> \in Seq(JobIds) /\ Len(<<>>) = 0
  BY EmptySeq
<1>2. IsInjective(<<>>)
  BY <1>1 DEF IsInjective
<1> QED
  BY <1>1, <1>2 DEF JobLists

\* What changes of the filters is a status, a page or a size there is.
LEMMA FiltersTyped ==
  ASSUME PageTypes, ChangeFilter \/ ChangePageSize \/ TurnPage
  PROVE  filters' \in FilterRecords
<1>1. /\ Page \in 1..MaxJobs /\ PageCount \in 1..MaxJobs /\ MaxJobs \in Nat \ {0}
      /\ filters \in FilterRecords
  BY PageShown, PageCountProperties, ConsoleAssumption DEF PageTypes
<1>2. ShownFilters \in FilterRecords /\ ShownFilters.page = Page
  BY <1>1 DEF ShownFilters, FilterRecords
<1>3. ASSUME NEW q \in 1..MaxJobs PROVE [ShownFilters EXCEPT !.page = q] \in FilterRecords
  BY <1>2 DEF FilterRecords
<1>4. CASE ChangeFilter
  BY <1>2, <1>4 DEF ChangeFilter, UpdateFilters, FilterRecords
<1>5. CASE ChangePageSize
  <2>1. PICK n \in PageSizes : filters' = [filters EXCEPT !.pageSize = n, !.page = 1]
    BY <1>5 DEF ChangePageSize, UpdateFilters
  <2>2. 1 \in 1..MaxJobs
    BY <1>1
  <2> QED
    BY <1>1, <2>1, <2>2 DEF FilterRecords
<1>6. CASE TurnPage
  <2>1. CASE /\ ShownFilters.page < PageCount
             /\ UpdateFilters([ShownFilters EXCEPT !.page = @ + 1])
    <3>1. PICK q \in 1..MaxJobs : q = Page + 1
      BY <1>1, <1>2, <2>1
    <3>2. filters' = [ShownFilters EXCEPT !.page = q]
      BY <1>2, <2>1, <3>1 DEF UpdateFilters
    <3> QED
      BY <1>3, <3>2
  <2>2. CASE /\ ShownFilters.page > 1
             /\ UpdateFilters([ShownFilters EXCEPT !.page = @ - 1])
    <3>1. PICK q \in 1..MaxJobs : q = Page - 1
      BY <1>1, <1>2, <2>2
    <3>2. filters' = [ShownFilters EXCEPT !.page = q]
      BY <1>2, <2>2, <3>1 DEF UpdateFilters
    <3> QED
      BY <1>3, <3>2
  <2> QED
    BY <1>6, <2>1, <2>2 DEF TurnPage
<1> QED
  BY <1>4, <1>5, <1>6

LEMMA PageStep == PageTypes /\ [Next]_consoleVars => PageTypes'
<1> SUFFICES ASSUME PageTypes, [Next]_consoleVars PROVE PageTypes'
  OBVIOUS
<1>1. status' \in [JobIds -> Statuses]
  BY DEF PageTypes, Next, consoleVars, JobChanges, ToggleJob, Tick, Refresh, ChooseMode,
         SubmitAuth,
         AuthAnswered, Navigate, ChangeFilter, ChangePageSize, TurnPage, UpdateFilters,
         TogglePage,
         PressRetry, RunStep, Serve, NextOfRun, RunSucceeds, RunFails, AskToCancel,
         AskToSignOut, RequestConfirm, CloseConfirm, ConfirmCancel, ConfirmSignOut, Statuses
<1>2. jobs' \in [JobIds -> Statuses \cup {Absent}]
  BY DEF PageTypes, Next, consoleVars, JobChanges, ToggleJob, Tick, Refresh, ChooseMode,
         SubmitAuth,
         AuthAnswered, Navigate, ChangeFilter, ChangePageSize, TurnPage, UpdateFilters,
         TogglePage,
         PressRetry, RunStep, Serve, NextOfRun, RunSucceeds, RunFails, AskToCancel,
         AskToSignOut, RequestConfirm, CloseConfirm, ConfirmCancel, ConfirmSignOut
<1>3. view' \in Views
  BY DEF PageTypes, Next, consoleVars, JobChanges, ToggleJob, Tick, Refresh, ChooseMode,
         SubmitAuth,
         AuthAnswered, Navigate, ChangeFilter, ChangePageSize, TurnPage, UpdateFilters,
         TogglePage,
         PressRetry, RunStep, Serve, NextOfRun, RunSucceeds, RunFails, AskToCancel,
         AskToSignOut, RequestConfirm, CloseConfirm, ConfirmCancel, ConfirmSignOut
<1>4. filters' \in FilterRecords
  <2>1. CASE ChangeFilter \/ ChangePageSize \/ TurnPage
    BY <2>1, FiltersTyped
  <2>2. CASE ~(ChangeFilter \/ ChangePageSize \/ TurnPage)
    <3>1. filters' = filters \/ filters' = FirstFilters
      BY <2>2 DEF Next, consoleVars, tableVars, JobChanges, ToggleJob, Tick, Refresh,
      ChooseMode,
           SubmitAuth, AuthAnswered, Navigate, Unmount, TogglePage, PressRetry, RunStep,
           Serve,
           NextOfRun, RunSucceeds, RunFails, AskToCancel, AskToSignOut, RequestConfirm,
           CloseConfirm, ConfirmCancel, ConfirmSignOut
    <3> QED
      BY <3>1, FirstFiltersTyped DEF PageTypes
  <2> QED
    BY <2>1, <2>2
<1>5. ticked' \in SUBSET JobIds
  <2>1. CASE ToggleJob
    BY <2>1, RowsAreJobs DEF ToggleJob, Tick, PageTypes
  <2>2. CASE TogglePage
    BY <2>2, RowsAreJobs DEF TogglePage, Tick, PageTypes
  <2>3. ASSUME NEW k \in DOMAIN runs, RunSucceeds(k) PROVE ticked' \in SUBSET JobIds
    BY <2>3 DEF RunSucceeds, TicksAfter, PageTypes
  <2>4. CASE ~(ToggleJob \/ TogglePage \/ \E k \in DOMAIN runs : RunSucceeds(k))
    <3>1. ticked' = ticked \/ ticked' = {}
      BY <2>4 DEF Next, consoleVars, tableVars, JobChanges, Refresh, ChooseMode,
           SubmitAuth, AuthAnswered, Navigate, Unmount, ChangeFilter, ChangePageSize,
           TurnPage, UpdateFilters,
           PressRetry, RunStep, Serve, NextOfRun, RunFails, AskToCancel, AskToSignOut,
           RequestConfirm, CloseConfirm, ConfirmCancel, ConfirmSignOut
    <3> QED
      BY <3>1 DEF PageTypes
  <2> QED
    BY <2>1, <2>2, <2>3, <2>4
<1> QED
  BY <1>1, <1>2, <1>3, <1>4, <1>5 DEF PageTypes

LEMMA AuthStep == AuthInv /\ [Next]_consoleVars => AuthInv'
<1> SUFFICES ASSUME AuthInv, [Next]_consoleVars PROVE AuthInv'
  OBVIOUS
<1>1. ASSUME NEW m \in {"login", "register"}, ChooseMode(m) PROVE AuthInv'
  BY <1>1 DEF ChooseMode, AuthInv
<1>2. ASSUME NEW match \in BOOLEAN, SubmitAuth(match) PROVE AuthInv'
  <2>1. ~authed /\ authed' = authed /\ ~auth.busy /\ auth.request = NoRequest
    BY <1>2 DEF SubmitAuth, AuthInv
  <2>2. CASE auth' = [auth EXCEPT !.busy = FALSE]
    <3>1. auth'.busy = FALSE /\ auth'.request = NoRequest
      BY <2>1, <2>2 DEF AuthInv
    <3>2. auth' \in [mode : {"login", "register"}, busy : BOOLEAN,
                     request : {"login", "register", NoRequest}]
      BY <2>2 DEF AuthInv
    <3> QED
      BY <2>1, <3>1, <3>2 DEF AuthInv
  <2>3. CASE auth' = [auth EXCEPT !.busy = TRUE, !.request = auth.mode]
    <3>1. auth'.busy = TRUE /\ auth'.request # NoRequest
      BY <2>3 DEF AuthInv, NoRequest
    <3>2. auth' \in [mode : {"login", "register"}, busy : BOOLEAN,
                     request : {"login", "register", NoRequest}]
      BY <2>3 DEF AuthInv
    <3> QED
      BY <2>1, <3>1, <3>2 DEF AuthInv
  <2>4. auth' = [auth EXCEPT !.busy = FALSE]
        \/ auth' = [auth EXCEPT !.busy = TRUE, !.request = auth.mode]
    BY <1>2 DEF SubmitAuth
  <2> QED
    BY <2>2, <2>3, <2>4
<1>3. CASE AuthAnswered
  <2>1. CASE authed' = TRUE /\ auth' = FirstAuth
    BY <2>1 DEF AuthInv, FirstAuth
  <2>2. CASE authed' = FALSE /\ auth' = [auth EXCEPT !.busy = FALSE, !.request = NoRequest]
    BY <2>2 DEF AuthInv
  <2> QED
    BY <1>3, <2>1, <2>2 DEF AuthAnswered
<1>4. CASE ConfirmSignOut
  BY <1>4 DEF ConfirmSignOut, AuthInv, FirstAuth, NoRequest
<1>5. CASE UNCHANGED <<authed, auth>>
  BY <1>5 DEF AuthInv
<1>6. \/ UNCHANGED <<authed, auth>> \/ AuthAnswered \/ ConfirmSignOut
      \/ (\E m \in {"login", "register"} : ChooseMode(m))
      \/ \E match \in BOOLEAN : SubmitAuth(match)
  BY DEF Next, consoleVars, JobChanges, ToggleJob, Tick, Refresh, Navigate, ChangeFilter,
         ChangePageSize, TurnPage,
         UpdateFilters, TogglePage, PressRetry, RunStep, Serve, NextOfRun, RunSucceeds,
         RunFails, AskToCancel, AskToSignOut, RequestConfirm, CloseConfirm, ConfirmCancel
<1> QED
  BY <1>1, <1>2, <1>3, <1>4, <1>5, <1>6

\* The lists a dialog is asked for with.
LEMMA AskTyped ==
  ASSUME PageTypes, DialogTypes, AskToCancel \/ AskToSignOut
  PROVE  DialogTypes' /\ confirm'.action # "none"
<1>1. ASSUME NEW action \in {"cancel", "cancel_job", "sign_out"}, NEW list \in JobLists,
             action # "sign_out" => list # <<>>, RequestConfirm(action, list)
      PROVE  DialogTypes' /\ confirm'.action # "none"
  <2>1. confirm' \in DialogRecords
    BY <1>1 DEF RequestConfirm, DialogRecords
  <2> QED
    BY <1>1, <2>1 DEF RequestConfirm, DialogTypes
<1>2. ASSUME NEW j \in Range(Rows) PROVE <<j>> \in JobLists /\ <<j>> # <<>>
  <2>1. j \in JobIds
    BY RowsAreJobs
  <2>2. <<j>> \in Seq(JobIds) /\ Len(<<j>>) = 1 /\ DOMAIN <<j>> = 1..1
    BY <2>1
  <2>3. IsInjective(<<j>>)
    BY <2>2 DEF IsInjective
  <2> QED
    BY <2>2, <2>3, EmptySeq DEF JobLists
<1>3. CASE SelectedJobs # <<>> /\ RequestConfirm("cancel", SelectedJobs)
  BY <1>1, <1>3, SelectedTyped
<1>4. ASSUME NEW j \in Range(Rows), RequestConfirm("cancel_job", <<j>>)
      PROVE  DialogTypes' /\ confirm'.action # "none"
  BY <1>1, <1>2, <1>4
<1>5. CASE AskToSignOut
  BY <1>1, <1>5, EmptyJobList DEF AskToSignOut
<1> QED
  BY <1>3, <1>4, <1>5 DEF AskToCancel

LEMMA NoDialogTyped == NoDialog \in DialogRecords /\ NoDialog.action = "none"
  BY EmptyJobList DEF NoDialog, DialogRecords

LEMMA DialogStep == PageTypes /\ DialogTypes /\ [Next]_consoleVars => DialogTypes'
<1> SUFFICES ASSUME PageTypes, DialogTypes, [Next]_consoleVars PROVE DialogTypes'
  OBVIOUS
<1>1. CASE AskToCancel \/ AskToSignOut
  BY <1>1, AskTyped
<1>2. CASE UNCHANGED dialogVars
  BY <1>2 DEF dialogVars, DialogTypes
<1>3. ASSUME NEW v \in Views, Navigate(v) PROVE DialogTypes'
  BY <1>3 DEF Navigate, DialogTypes, DialogRecords
<1>4. ASSUME NEW k \in DOMAIN runs, RunSucceeds(k) PROVE DialogTypes'
  BY <1>4, NoDialogTyped DEF RunSucceeds, DialogTypes, dialogVars
<1>5. ASSUME NEW k \in DOMAIN runs, RunFails(k) PROVE DialogTypes'
  BY <1>5 DEF RunFails, DialogTypes
<1>6. CASE CloseConfirm \/ ConfirmSignOut
  BY <1>6, NoDialogTyped DEF CloseConfirm, ConfirmSignOut, DialogTypes
<1>7. CASE ConfirmCancel
  BY <1>7 DEF ConfirmCancel, DialogTypes
<1>8. \/ UNCHANGED dialogVars \/ AskToCancel \/ AskToSignOut \/ CloseConfirm
      \/ ConfirmSignOut \/ ConfirmCancel \/ (\E v \in Views : Navigate(v))
      \/ \E k \in DOMAIN runs : RunSucceeds(k) \/ RunFails(k)
  BY DEF Next, consoleVars, JobChanges, ToggleJob, Tick, Refresh, ChooseMode, SubmitAuth,
         AuthAnswered, ChangeFilter, ChangePageSize, TurnPage, UpdateFilters, TogglePage,
         PressRetry, RunStep,
         Serve, NextOfRun
<1> QED
  BY <1>1, <1>2, <1>3, <1>4, <1>5, <1>6, <1>7, <1>8

----------------------------------------------------------------------------
(***************************************************************************)
(* Actions that run job by job, step by step                               *)
(***************************************************************************)
LEMMA RunTyped ==
  ASSUME RunsInv, NEW k \in DOMAIN runs
  PROVE  /\ k \in 1..Len(runs) /\ Len(runs) \in Nat
         /\ runs[k] \in RunRecords /\ RunInv(runs[k])
         /\ runs[k].left \in Seq(JobIds) /\ runs[k].left # <<>>
         /\ runs[k].done \in SUBSET JobIds
<1>1. k \in 1..Len(runs) /\ Len(runs) \in Nat /\ runs[k] \in RunRecords
  BY DEF RunsInv
<1> QED
  BY <1>1 DEF RunsInv, RunRecords

\* A list that is not empty has a head, and its tail has the other elements.
LEMMA HeadAndTail ==
  ASSUME NEW S, NEW s \in Seq(S), s # <<>>
  PROVE  /\ Head(s) \in S /\ Tail(s) \in Seq(S) /\ Len(Tail(s)) = Len(s) - 1
         /\ Range(s) = {Head(s)} \cup Range(Tail(s))
<1>1. Len(s) \in Nat \ {0} /\ Head(s) \in S /\ Tail(s) \in Seq(S)
      /\ Len(Tail(s)) = Len(s) - 1
  BY EmptySeq, HeadTailProperties
<1>2. Head(s) = s[1] /\ \A i \in 1..(Len(s) - 1) : Tail(s)[i] = s[i + 1]
  BY <1>1
<1>3. Range(s) \subseteq {Head(s)} \cup Range(Tail(s))
  <2> SUFFICES ASSUME NEW i \in 1..Len(s), i # 1 PROVE s[i] \in Range(Tail(s))
    BY <1>2 DEF Range
  <2>1. i - 1 \in 1..(Len(s) - 1) /\ (i - 1) + 1 = i
    BY <1>1
  <2>2. Tail(s)[i - 1] = s[(i - 1) + 1]
    BY <1>2, <2>1
  <2>3. i - 1 \in DOMAIN Tail(s) /\ Tail(s)[i - 1] = s[i]
    BY <1>1, <2>1, <2>2
  <2> QED
    BY <2>3 DEF Range
<1>4. {Head(s)} \cup Range(Tail(s)) \subseteq Range(s)
  <2>1. Head(s) \in Range(s)
    BY <1>1, <1>2 DEF Range
  <2>2. ASSUME NEW i \in 1..Len(Tail(s)) PROVE Tail(s)[i] \in Range(s)
    <3>1. i + 1 \in 1..Len(s) /\ Tail(s)[i] = s[i + 1]
      BY <1>1, <1>2
    <3> QED
      BY <3>1 DEF Range
  <2> QED
    BY <1>1, <2>1, <2>2 DEF Range
<1> QED
  BY <1>1, <1>3, <1>4

\* Start: all jobs are still to come.
LEMMA StartKeeps ==
  ASSUME RunsInv, NEW action \in {"retry", "cancel"}, NEW from \in {"job", "bulk"},
         NEW list \in JobLists, list # <<>>, NEW mounted \in BOOLEAN,
         Start(action, from, list, mounted)
  PROVE  /\ RunsInv'
         /\ Len(runs') = Len(runs) + 1
         /\ \A k \in 1..Len(runs) : runs'[k].action = runs[k].action
         /\ runs'[Len(runs) + 1].action = action
<1> DEFINE new == [action |-> action, from |-> from, jobs |-> list, left |-> list,
                   done |-> {}, answer |-> "waiting", mounted |-> mounted]
<1>1. new \in RunRecords /\ RunInv(new) /\ new.action = action
  BY DEF RunRecords, RunInv, JobLists
<1>2. runs' = Append(runs, new)
  BY DEF Start
<1> HIDE DEF new
<1>3. runs \in Seq(RunRecords) /\ Len(runs) \in Nat
  BY DEF RunsInv
<1>4. /\ runs' \in Seq(RunRecords)
      /\ Len(runs') = Len(runs) + 1
      /\ \A k \in 1..Len(runs) : runs'[k] = runs[k]
      /\ runs'[Len(runs) + 1] = new
  BY <1>1, <1>2, <1>3, AppendProperties
<1>5. ASSUME NEW k \in 1..Len(runs') PROVE RunInv(runs'[k])
  <2>1. CASE k = Len(runs) + 1
    BY <1>1, <1>4, <2>1
  <2>2. CASE k # Len(runs) + 1
    <3>1. k \in 1..Len(runs)
      BY <1>3, <1>4, <2>2
    <3> QED
      BY <1>4, <3>1 DEF RunsInv
  <2> QED
    BY <2>1, <2>2
<1> QED
  BY <1>1, <1>4, <1>5 DEF RunsInv

\* A step of one action, which does not change what it does.
LEMMA ReplaceKeeps ==
  ASSUME RunsInv, NEW k \in DOMAIN runs, NEW new \in RunRecords, RunInv(new),
         new.action = runs[k].action, runs' = [runs EXCEPT ![k] = new]
  PROVE  /\ RunsInv'
         /\ Len(runs') = Len(runs)
         /\ \A m \in 1..Len(runs) : runs'[m].action = runs[m].action
<1>1. runs \in Seq(RunRecords) /\ k \in 1..Len(runs)
  BY DEF RunsInv
<1>2. /\ runs' \in Seq(RunRecords)
      /\ Len(runs') = Len(runs)
      /\ \A m \in 1..Len(runs) : runs'[m] = IF m = k THEN new ELSE runs[m]
  BY <1>1, ExceptSeq
<1> QED
  BY <1>2 DEF RunsInv

LEMMA ServeKeeps ==
  ASSUME RunsInv, NEW k \in DOMAIN runs, Serve(k)
  PROVE  /\ RunsInv'
         /\ Len(runs') = Len(runs)
         /\ \A m \in 1..Len(runs) : runs'[m].action = runs[m].action
<1> DEFINE r == runs[k]
           j == Head(r.left)
           new == [r EXCEPT !.answer = "accepted", !.done = @ \cup {j}]
<1>1. r \in RunRecords /\ RunInv(r) /\ r.left \in Seq(JobIds) /\ r.left # <<>>
  BY RunTyped
<1>2. j \in JobIds /\ j \in Range(r.left)
  BY <1>1, HeadAndTail
<1>3. runs' = [runs EXCEPT ![k] = new]
  BY DEF Serve
<1> HIDE DEF r, j
<1>4. new \in RunRecords
  BY <1>1, <1>2 DEF RunRecords
<1>5. /\ new.done = r.done \cup {j} /\ new.left = r.left /\ new.jobs = r.jobs
      /\ new.action = r.action /\ Head(new.left) = j
  BY <1>1 DEF RunRecords, j
<1> HIDE DEF new
<1>6. RunInv(new)
  BY <1>1, <1>2, <1>5 DEF RunInv
<1> QED
  BY <1>3, <1>4, <1>5, <1>6, ReplaceKeeps DEF r

LEMMA NextOfRunKeeps ==
  ASSUME RunsInv, NEW k \in DOMAIN runs, NextOfRun(k)
  PROVE  /\ RunsInv'
         /\ Len(runs') = Len(runs)
         /\ \A m \in 1..Len(runs) : runs'[m].action = runs[m].action
<1> DEFINE r == runs[k]
           new == [r EXCEPT !.left = Tail(@), !.answer = "waiting"]
<1>1. /\ r \in RunRecords /\ RunInv(r) /\ r.left \in Seq(JobIds) /\ r.left # <<>>
      /\ r.answer = "accepted" /\ Len(r.left) > 1
  BY RunTyped DEF NextOfRun
<1>2. /\ Tail(r.left) \in Seq(JobIds) /\ Len(Tail(r.left)) = Len(r.left) - 1
      /\ Range(r.left) = {Head(r.left)} \cup Range(Tail(r.left))
  BY <1>1, HeadAndTail
<1>3. Tail(r.left) # <<>>
  <2> DEFINE n == Len(r.left)
             t == Tail(r.left)
  <2>1. n \in Nat /\ n > 1 /\ Len(t) = n - 1
    BY <1>1, <1>2
  <2> HIDE DEF n, t
  <2>2. Len(t) # 0
    BY <2>1
  <2>3. t = <<>> => Len(t) = 0
    BY EmptySeq, Zenon
  <2>4. t # <<>>
    BY <2>2, <2>3, Zenon
  <2> QED
    BY <2>4, Zenon DEF t
<1>4. runs' = [runs EXCEPT ![k] = new]
  BY DEF NextOfRun
<1> HIDE DEF r
<1>5. new \in RunRecords
  BY <1>1, <1>2, <1>3 DEF RunRecords
<1>6. /\ new.done = r.done /\ new.left = Tail(r.left) /\ new.jobs = r.jobs
      /\ new.action = r.action /\ new.answer = "waiting"
  BY <1>1 DEF RunRecords
<1> HIDE DEF new
<1>7. RunInv(new)
  BY <1>1, <1>2, <1>6 DEF RunInv
<1> QED
  BY <1>4, <1>5, <1>6, <1>7, ReplaceKeeps DEF r

\* An action ends; the others keep their order.
LEMMA RemoveKeeps ==
  ASSUME RunsInv, NEW k \in DOMAIN runs, runs' = RemoveAt(runs, k)
  PROVE  /\ RunsInv'
         /\ Len(runs') = Len(runs) - 1
         /\ \A m \in 1..(Len(runs) - 1) :
              runs'[m] = IF m < k THEN runs[m] ELSE runs[m + 1]
<1>1. runs \in Seq(RunRecords) /\ k \in 1..Len(runs) /\ Len(runs) \in Nat
  BY DEF RunsInv
<1>2. /\ runs' \in Seq(RunRecords)
      /\ Len(runs') = Len(runs) - 1
      /\ \A m \in 1..(Len(runs) - 1) :
           runs'[m] = IF m < k THEN runs[m] ELSE runs[m + 1]
  BY <1>1, RemoveAtProperties
<1>3. ASSUME NEW m \in 1..Len(runs') PROVE RunInv(runs'[m])
  <2>1. m \in 1..(Len(runs) - 1) /\ m \in 1..Len(runs) /\ m + 1 \in 1..Len(runs)
    BY <1>1, <1>2
  <2>2. RunInv(runs[m]) /\ RunInv(runs[m + 1])
    BY <2>1 DEF RunsInv
  <2> QED
    BY <1>2, <2>1, <2>2
<1> QED
  BY <1>2, <1>3 DEF RunsInv

\* The table goes.
LEMMA UnmountKeeps ==
  ASSUME RunsInv, Unmount
  PROVE  /\ RunsInv'
         /\ Len(runs') = Len(runs)
         /\ \A m \in 1..Len(runs) : runs'[m].action = runs[m].action
<1>1. runs \in Seq(RunRecords) /\ Len(runs) \in Nat /\ DOMAIN runs = 1..Len(runs)
  BY DEF RunsInv
<1>2. ASSUME NEW m \in 1..Len(runs)
      PROVE  /\ [runs[m] EXCEPT !.mounted = FALSE] \in RunRecords
             /\ [runs[m] EXCEPT !.mounted = FALSE].action = runs[m].action
             /\ RunInv([runs[m] EXCEPT !.mounted = FALSE])
  <2>1. runs[m] \in RunRecords /\ RunInv(runs[m])
    BY <1>1 DEF RunsInv
  <2> DEFINE r == runs[m]
             new == [r EXCEPT !.mounted = FALSE]
  <2>2. /\ new.done = r.done /\ new.left = r.left /\ new.jobs = r.jobs
        /\ new.action = r.action /\ new.answer = r.answer /\ new \in RunRecords
    BY <2>1 DEF RunRecords
  <2> HIDE DEF new, r
  <2>3. RunInv(new)
    BY <2>1, <2>2 DEF RunInv, r
  <2> QED
    BY <2>2, <2>3 DEF new, r
<1>3. runs' = [m \in 1..Len(runs) |-> [runs[m] EXCEPT !.mounted = FALSE]]
  BY <1>1 DEF Unmount
<1>4. runs' \in [1..Len(runs) -> RunRecords]
  BY <1>2, <1>3
<1>5. runs' \in Seq(RunRecords) /\ Len(runs') = Len(runs)
  BY <1>1, <1>4
<1> QED
  BY <1>2, <1>3, <1>5 DEF RunsInv

----------------------------------------------------------------------------
(***************************************************************************)
(* The dialog is busy just while a cancellation runs                       *)
(***************************************************************************)
\* The actions under way stay what they are.
LEMMA BusyFrame ==
  ASSUME BusyInv, Len(runs') = Len(runs),
         \A m \in 1..Len(runs) : runs'[m].action = runs[m].action,
         confirmBusy' = confirmBusy,
         confirmBusy => authed' /\ confirm'.action # "none"
  PROVE  BusyInv'
  BY DEF BusyInv

LEMMA StartBusy ==
  ASSUME RunsInv, BusyInv, Len(runs') = Len(runs) + 1,
         \A k \in 1..Len(runs) : runs'[k].action = runs[k].action,
         \/ /\ runs'[Len(runs) + 1].action = "retry"
            /\ UNCHANGED <<confirm, confirmBusy, authed>>
         \/ /\ runs'[Len(runs) + 1].action = "cancel"
            /\ ~confirmBusy /\ confirmBusy' /\ authed' /\ confirm'.action # "none"
  PROVE  BusyInv'
<1> DEFINE n == Len(runs)
<1>1. n \in Nat /\ Len(runs') = n + 1 /\ \A k \in 1..n : runs'[k].action = runs[k].action
  BY DEF RunsInv
<1>2. \A k \in 1..(n + 1) : k # n + 1 => k \in 1..n
  BY <1>1
<1>3. n + 1 \in 1..(n + 1) /\ \A k \in 1..n : k \in 1..(n + 1)
  BY <1>1
<1> HIDE DEF n
<1>4. CASE /\ runs'[n + 1].action = "retry" /\ UNCHANGED <<confirm, confirmBusy, authed>>
  <2>1. \A k \in 1..(n + 1) : runs'[k].action = "cancel" =>
           k \in 1..n /\ runs[k].action = "cancel"
    BY <1>1, <1>2, <1>4
  <2> QED
    BY <1>1, <1>3, <1>4, <2>1 DEF BusyInv, n
<1>5. CASE /\ runs'[n + 1].action = "cancel" /\ ~confirmBusy
           /\ confirmBusy' /\ authed' /\ confirm'.action # "none"
  <2>1. \A k \in 1..(n + 1) : runs'[k].action = "cancel" => k = n + 1
    BY <1>1, <1>2, <1>5 DEF BusyInv, n
  <2> QED
    BY <1>1, <1>3, <1>5, <2>1 DEF BusyInv
<1> QED
  BY <1>4, <1>5 DEF n

LEMMA RemoveBusy ==
  ASSUME RunsInv, BusyInv, NEW k \in DOMAIN runs, runs' = RemoveAt(runs, k),
         authed' = authed,
         \/ /\ runs[k].action = "cancel"
            /\ ~confirmBusy'
         \/ /\ runs[k].action # "cancel"
            /\ confirmBusy' = confirmBusy /\ confirm' = confirm
  PROVE  BusyInv'
<1> DEFINE n == Len(runs)
           old(m) == IF m < k THEN m ELSE m + 1
<1>1. n \in Nat /\ k \in 1..n
  BY DEF RunsInv
<1>2. Len(runs') = n - 1 /\ \A m \in 1..(n - 1) : runs'[m] = runs[old(m)]
  BY RemoveKeeps
<1>3. \A m \in 1..(n - 1) : old(m) \in 1..n /\ old(m) # k
  BY <1>1
<1>4. \A l, m \in 1..(n - 1) : old(l) = old(m) => l = m
  BY <1>1
<1>5. \A m \in 1..n : m # k => \E l \in 1..(n - 1) : old(l) = m
  <2> SUFFICES ASSUME NEW m \in 1..n, m # k PROVE \E l \in 1..(n - 1) : old(l) = m
    OBVIOUS
  <2>1. CASE m < k
    <3>1. m \in 1..(n - 1) /\ old(m) = m
      BY <1>1, <2>1
    <3> QED
      BY <3>1
  <2>2. CASE m > k
    <3>1. m - 1 \in 1..(n - 1) /\ old(m - 1) = m
      BY <1>1, <2>2
    <3> QED
      BY <3>1
  <2> QED
    BY <1>1, <2>1, <2>2
<1> HIDE DEF old, n
<1>6. \A l, m \in 1..(n - 1) :
        runs'[l].action = "cancel" /\ runs'[m].action = "cancel" => l = m
  BY <1>2, <1>3, <1>4 DEF BusyInv, n
<1>7. CASE runs[k].action = "cancel" /\ ~confirmBusy'
  <2>1. \A m \in 1..(n - 1) : runs'[m].action # "cancel"
    BY <1>1, <1>2, <1>3, <1>7 DEF BusyInv, n
  <2> QED
    BY <1>2, <1>7, <2>1 DEF BusyInv
<1>8. CASE runs[k].action # "cancel" /\ confirmBusy' = confirmBusy /\ confirm' = confirm
  <2>1. (\E m \in 1..n : runs[m].action = "cancel")
          <=> \E m \in 1..(n - 1) : runs'[m].action = "cancel"
    BY <1>2, <1>3, <1>5, <1>8
  <2> QED
    BY <1>2, <1>6, <1>8, <2>1 DEF BusyInv, n
<1> QED
  BY <1>7, <1>8

----------------------------------------------------------------------------
(***************************************************************************)
(* The theorems                                                            *)
(***************************************************************************)
\* The jobs an action is started with: the selection, or those of the dialog.
LEMMA PressRetryKeeps ==
  ASSUME RunsInv, PressRetry
  PROVE  /\ RunsInv' /\ Len(runs') = Len(runs) + 1
         /\ \A k \in 1..Len(runs) : runs'[k].action = runs[k].action
         /\ runs'[Len(runs) + 1].action = "retry"
  BY StartKeeps, SelectedTyped DEF PressRetry

LEMMA ConfirmCancelKeeps ==
  ASSUME DialogTypes, RunsInv, ConfirmCancel
  PROVE  /\ RunsInv' /\ Len(runs') = Len(runs) + 1
         /\ \A k \in 1..Len(runs) : runs'[k].action = runs[k].action
         /\ runs'[Len(runs) + 1].action = "cancel"
<1>1. /\ confirm.jobs \in JobLists /\ confirm.jobs # <<>> /\ confirm.mounted \in BOOLEAN
  BY DEF ConfirmCancel, DialogTypes, DialogRecords
<1>2. PICK from \in {"job", "bulk"} : Start("cancel", from, confirm.jobs, confirm.mounted)
  BY DEF ConfirmCancel
<1> QED
  BY <1>1, <1>2, StartKeeps

\* Everything but the actions under way and the dialog leaves both alone.
LEMMA QuietSteps ==
  ASSUME [Next]_consoleVars
  PROVE  \/ UNCHANGED <<runs, dialogVars, authed>>
         \/ AuthAnswered \/ PressRetry \/ ConfirmCancel \/ ConfirmSignOut \/ CloseConfirm
         \/ AskToCancel \/ AskToSignOut \/ (\E v \in Views : Navigate(v))
         \/ \E k \in DOMAIN runs : RunStep(k)
  BY DEF Next, consoleVars, JobChanges, ToggleJob, Tick, Refresh, ChooseMode, SubmitAuth,
         ChangeFilter, ChangePageSize, TurnPage, UpdateFilters, TogglePage

LEMMA RunsStep == DialogTypes /\ RunsInv /\ [Next]_consoleVars => RunsInv'
<1> SUFFICES ASSUME DialogTypes, RunsInv, [Next]_consoleVars PROVE RunsInv'
  OBVIOUS
<1>1. CASE UNCHANGED runs
  BY <1>1 DEF RunsInv
<1>2. CASE PressRetry \/ ConfirmCancel
  BY <1>2, PressRetryKeeps, ConfirmCancelKeeps
<1>3. CASE ConfirmSignOut \/ \E v \in Views : Navigate(v)
  BY <1>3, UnmountKeeps DEF ConfirmSignOut, Navigate
<1>4. ASSUME NEW k \in DOMAIN runs, RunStep(k) PROVE RunsInv'
  BY <1>4, ServeKeeps, NextOfRunKeeps, RemoveKeeps DEF RunStep, RunSucceeds, RunFails
<1>5. CASE AuthAnswered \/ CloseConfirm \/ AskToCancel \/ AskToSignOut
  BY <1>1, <1>5 DEF AuthAnswered, CloseConfirm, AskToCancel, AskToSignOut, RequestConfirm
<1> QED
  BY <1>1, <1>2, <1>3, <1>4, <1>5, QuietSteps

LEMMA BusyStep == ConsoleInv /\ [Next]_consoleVars => BusyInv'
<1> SUFFICES ASSUME PageTypes, DialogTypes, AuthInv, RunsInv, BusyInv, [Next]_consoleVars
             PROVE  BusyInv'
  BY DEF ConsoleInv
<1>1. CASE UNCHANGED <<runs, dialogVars, authed>>
  BY <1>1, BusyFrame DEF dialogVars, BusyInv
<1>2. CASE AuthAnswered
  <2>1. ~authed /\ UNCHANGED <<runs, dialogVars>>
    BY <1>2 DEF AuthAnswered, AuthInv
  <2> QED
    BY <2>1, BusyFrame DEF dialogVars, BusyInv
<1>3. CASE PressRetry
  <2>1. UNCHANGED <<confirm, confirmBusy, authed>>
    BY <1>3 DEF PressRetry, dialogVars
  <2> QED
    BY <1>3, <2>1, PressRetryKeeps, StartBusy
<1>4. CASE ConfirmCancel
  <2>1. /\ ~confirmBusy /\ confirmBusy' /\ authed' /\ confirm'.action # "none"
    BY <1>4 DEF ConfirmCancel
  <2> QED
    BY <1>4, <2>1, ConfirmCancelKeeps, StartBusy
<1>5. CASE ConfirmSignOut
  <2>1. ~confirmBusy /\ UNCHANGED confirmBusy /\ Unmount
    BY <1>5 DEF ConfirmSignOut
  <2> QED
    BY <2>1, UnmountKeeps, BusyFrame
<1>6. CASE CloseConfirm
  <2>1. ~confirmBusy /\ UNCHANGED <<runs, confirmBusy>>
    BY <1>6 DEF CloseConfirm
  <2> QED
    BY <2>1, BusyFrame
<1>7. CASE AskToCancel \/ AskToSignOut
  <2>1. UNCHANGED <<runs, confirmBusy, authed>>
    BY <1>7 DEF AskToCancel, AskToSignOut, RequestConfirm
  <2>2. confirm'.action # "none"
    BY <1>7, AskTyped
  <2> QED
    BY <2>1, <2>2, BusyFrame DEF BusyInv
<1>8. ASSUME NEW v \in Views, Navigate(v) PROVE BusyInv'
  <2>1. Unmount /\ UNCHANGED <<confirmBusy, authed>> /\ confirm'.action = confirm.action
    BY <1>8 DEF Navigate, DialogTypes, DialogRecords
  <2> QED
    BY <2>1, UnmountKeeps, BusyFrame DEF BusyInv
<1>9. ASSUME NEW k \in DOMAIN runs, RunStep(k) PROVE BusyInv'
  <2>1. CASE Serve(k)
    BY <2>1, ServeKeeps, BusyFrame DEF Serve, dialogVars, BusyInv
  <2>2. CASE NextOfRun(k)
    BY <2>2, NextOfRunKeeps, BusyFrame DEF NextOfRun, dialogVars, BusyInv
  <2>3. CASE RunSucceeds(k)
    BY <2>3, RemoveBusy DEF RunSucceeds, dialogVars
  <2>4. CASE RunFails(k)
    <3>1. confirmBusy' = (confirmBusy /\ runs[k].action # "cancel") /\ confirm' = confirm
          /\ authed' = authed /\ runs' = RemoveAt(runs, k) /\ confirmBusy \in BOOLEAN
      BY <2>4 DEF RunFails, DialogTypes
    <3>2. CASE runs[k].action = "cancel"
      <4>1. ~confirmBusy'
        BY <3>1, <3>2
      <4> QED
        BY <3>1, <3>2, <4>1, RemoveBusy
    <3>3. CASE runs[k].action # "cancel"
      <4>1. confirmBusy' = confirmBusy
        BY <3>1, <3>3
      <4> QED
        BY <3>1, <3>3, <4>1, RemoveBusy
    <3> QED
      BY <3>2, <3>3
  <2> QED
    BY <1>9, <2>1, <2>2, <2>3, <2>4 DEF RunStep
<1> QED
  BY <1>1, <1>2, <1>3, <1>4, <1>5, <1>6, <1>7, <1>8, <1>9, QuietSteps

LEMMA ConsoleInit == Init => ConsoleInv
<1> SUFFICES ASSUME Init PROVE ConsoleInv
  OBVIOUS
<1>1. PageTypes
  BY FirstFiltersTyped, ConsoleAssumption DEF Init, PageTypes, Statuses
<1>2. DialogTypes
  BY NoDialogTyped DEF Init, DialogTypes, NoDialog
<1>3. AuthInv
  BY DEF Init, AuthInv, FirstAuth, NoRequest
<1>4. RunsInv /\ BusyInv
  <2>1. runs = <<>> /\ <<>> \in Seq(RunRecords) /\ Len(<<>>) = 0 /\ confirmBusy = FALSE
    BY EmptySeq DEF Init
  <2> QED
    BY <2>1 DEF RunsInv, BusyInv
<1> QED
  BY <1>1, <1>2, <1>3, <1>4 DEF ConsoleInv

LEMMA ConsoleStep == ConsoleInv /\ [Next]_consoleVars => ConsoleInv'
  BY PageStep, DialogStep, AuthStep, RunsStep, BusyStep DEF ConsoleInv

\* The inductive invariant holds in every reachable state: what every action under way has
\* done and still has to do, and whose cancellation the busy dialog waits for.
THEOREM ConsoleCorrect == Spec => []ConsoleInv
  BY ConsoleInit, ConsoleStep, PTL DEF Spec

\* However many dialogs are asked for, views changed and calls refused: a busy dialog is
\* open and has one cancellation, an idle one none (App.jsx, ConfirmDialog.jsx), and the
\* sign-in button is busy just while its request is (AuthScreen.jsx).
THEOREM BusyCorrect == Spec => []BusyMeansRunning
<1>1. ConsoleInv => BusyMeansRunning
  <2> SUFFICES ASSUME ConsoleInv PROVE BusyMeansRunning
    OBVIOUS
  <2> DEFINE cancels == {k \in DOMAIN runs : runs[k].action = "cancel"}
  <2>1. DOMAIN runs = 1..Len(runs) /\ confirmBusy \in BOOLEAN
    BY DEF ConsoleInv, RunsInv, DialogTypes
  <2>2. Cardinality(cancels) = IF confirmBusy THEN 1 ELSE 0
    <3>1. CASE confirmBusy
      <4>1. PICK k \in 1..Len(runs) : runs[k].action = "cancel"
        BY <3>1 DEF ConsoleInv, BusyInv
      <4>2. cancels = {k}
        BY <2>1, <4>1 DEF ConsoleInv, BusyInv
      <4> HIDE DEF cancels
      <4> QED
        BY <3>1, <4>2, FS_Singleton
    <3>2. CASE ~confirmBusy
      <4>1. cancels = {}
        BY <2>1, <3>2 DEF ConsoleInv, BusyInv
      <4> HIDE DEF cancels
      <4> QED
        BY <3>2, <4>1, FS_EmptySet
    <3> QED
      BY <3>1, <3>2
  <2>3. ASSUME NEW r \in Range(runs)
        PROVE  /\ r.action \in {"retry", "cancel"} /\ r.from \in {"job", "bulk"}
               /\ Range(r.left) \cup r.done \subseteq Range(r.jobs)
               /\ r.jobs # <<>> /\ IsInjective(r.jobs) /\ Range(r.jobs) \subseteq JobIds
               /\ r.answer \in {"waiting", "accepted"} /\ r.mounted \in BOOLEAN
    <3>1. r \in RunRecords /\ RunInv(r)
      BY DEF ConsoleInv, RunsInv, Range
    <3>2. Range(r.left) \cup r.done \subseteq Range(r.jobs)
      BY <3>1 DEF RunInv
    <3>3. r.jobs \in JobLists /\ r.jobs # <<>>
      BY <3>1 DEF RunRecords
    <3>4. IsInjective(r.jobs) /\ Range(r.jobs) \subseteq JobIds
      BY <3>3 DEF JobLists, Range
    <3> QED
      BY <3>1, <3>2, <3>3, <3>4 DEF RunRecords
  <2>4. /\ confirm.action \in {"none", "cancel", "cancel_job", "sign_out"}
        /\ Range(confirm.jobs) \subseteq JobIds /\ confirm.mounted \in BOOLEAN
    BY DEF ConsoleInv, DialogTypes, DialogRecords, JobLists, Range
  <2>5. TypeOK
    BY <2>1, <2>3, <2>4 DEF ConsoleInv, PageTypes, FilterRecords, AuthInv, TypeOK
  <2>6. confirm # NoDialog \/ confirm.action = "none"
    BY DEF NoDialog
  <2> QED
    BY <2>2, <2>5, <2>6 DEF BusyMeansRunning, ConsoleInv, AuthInv, BusyInv, NoDialog
<1> QED
  BY <1>1, ConsoleCorrect, PTL

\* For any number of jobs and rows: every matching job is on one page, the page shown is
\* one of them, and it has a row if any job matches (useJobFilters.js, JobsView.jsx).
THEOREM PagesCorrect == Spec => []PagesCover
<1>1. ConsoleInv => PagesCover
  BY PagesOfJob, PageShown, PageHasRow DEF ConsoleInv, PagesCover
<1> QED
  BY <1>1, ConsoleCorrect, PTL

\* An action that ends with its ticks cleared has been carried out for all of its jobs,
\* whichever of several equal ones is taken to have ended (JobTable.jsx, bulkRetry).
THEOREM ClearedCorrect == Spec => ClearedMeansDone
<1> DEFINE Done == \A k \in DOMAIN runs :
             runs' = RemoveAt(runs, k) => runs[k].done = Range(runs[k].jobs)
<1>1. ConsoleInv /\ [Next]_consoleVars => [ticked' # ticked => Done]_consoleVars
  <2> SUFFICES ASSUME ConsoleInv, [Next]_consoleVars, NEW k \in DOMAIN runs,
                      runs' = RemoveAt(runs, k), ticked' # ticked
               PROVE  runs[k].done = Range(runs[k].jobs)
    OBVIOUS
  <2>1. RunsInv /\ runs \in Seq(RunRecords) /\ Len(runs) \in Nat
    BY DEF ConsoleInv, RunsInv
  <2>2. Len(runs') # Len(runs)
    <3>1. Len(runs') = Len(runs) - 1
      BY <2>1, RemoveKeeps
    <3> QED
      BY <2>1, <3>1
  <2>3. PICK m \in DOMAIN runs : RunSucceeds(m)
    <3>1. ~Unmount
      BY <2>1, <2>2, UnmountKeeps
    <3>2. runs' # runs
      BY <2>2
    <3> QED
      BY <3>1, <3>2 DEF Next, consoleVars, tableVars, JobChanges, ToggleJob, Tick, Refresh,
           ChooseMode, SubmitAuth, AuthAnswered, Navigate, ChangeFilter, ChangePageSize,
           TurnPage,
           UpdateFilters, TogglePage, PressRetry, RunStep, Serve, NextOfRun, RunFails,
           AskToCancel, AskToSignOut, RequestConfirm, CloseConfirm, ConfirmCancel,
           ConfirmSignOut
  <2>4. /\ runs[m].answer = "accepted" /\ Len(runs[m].left) = 1
        /\ runs' = RemoveAt(runs, m)
    BY <2>3 DEF RunSucceeds
  <2>5. runs[m].done = Range(runs[m].jobs)
    <3>1. /\ RunInv(runs[m]) /\ runs[m].left \in Seq(JobIds)
          /\ runs[m].left # <<>>
      BY <2>1, RunTyped
    <3>2. Range(runs[m].left) = {Head(runs[m].left)}
      <4>1. DOMAIN runs[m].left = 1..1 /\ Head(runs[m].left) = runs[m].left[1]
        BY <2>4, <3>1
      <4> QED
        BY <4>1 DEF Range
    <3> QED
      BY <2>4, <3>1, <3>2 DEF RunInv
  <2>6. runs[k] = runs[m]
    <3>1. k \in Int /\ m \in Int
      BY <2>1
    <3>2. CASE k < m
      BY <2>1, <2>4, <3>2, RemoveAtEither
    <3>3. CASE m < k
      BY <2>1, <2>4, <3>3, RemoveAtEither
    <3> QED
      BY <3>1, <3>2, <3>3
  <2> QED
    BY <2>5, <2>6
<1> QED
  BY <1>1, ConsoleCorrect, PTL DEF Spec, ClearedMeansDone
=============================================================================
