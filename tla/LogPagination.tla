--------------------------- MODULE LogPagination ---------------------------
(***************************************************************************)
(* The log list of the viewer (src/app/static/js/logs.js): the module     *)
(* globals currentOffset, currentLimit and lastFetchedCount, the search    *)
(* and pagination handlers, and fetchLogs, whose request is answered       *)
(* asynchronously by the backend.  One step is one task of the browser's   *)
(* event loop: a handler runs to its first await, and the code after the   *)
(* await of fetch() runs later as a step of its own (LogsOk / LogsFail).   *)
(*                                                                         *)
(* The filter bar (dates, endpoint, method, status, user) is one value of *)
(* Filters; a row is <<filter, position>>, position 1 being the newest row *)
(* of that filter's list.  The grid is abstracted to the set of rows it    *)
(* displays, and the "Showing a-b" label to the set of positions a..b it   *)
(* announces ("No results" and an empty label are the empty set).          *)
(***************************************************************************)
EXTENDS Integers, FiniteSets, FiniteSetsExt

CONSTANTS
    Total,          \* rows the backend holds for the (fixed) filter
    LimitInputs,    \* values the user can type into #filter-limit
    NaN,            \* what parseInt yields for non-numeric input
    MaxFetches,     \* bound on the number of fetchLogs calls
    ServerMayFail,  \* the network or the backend may fail a request
    UserWaits,      \* the user clicks only when no fetch is in flight
    Filters,        \* values the filter bar can hold
    SearchAfterEdit,\* the user presses Search after editing a filter
    InitialDisabled \* disabled states #btn-prev/#btn-next may start in

ASSUME Total \in Nat /\ MaxFetches \in Nat \ {0}
ASSUME LimitInputs \subseteq (Int \cup {NaN}) /\ LimitInputs # {}
ASSUME ServerMayFail \in BOOLEAN /\ UserWaits \in BOOLEAN
ASSUME SearchAfterEdit \in BOOLEAN /\ Filters # {}
ASSUME InitialDisabled \subseteq BOOLEAN /\ InitialDisabled # {}

VARIABLES
    currentOffset,     \* let currentOffset
    currentLimit,      \* let currentLimit
    lastFetchedCount,  \* let lastFetchedCount
    limitInput,        \* value of the #filter-limit input
    filterInput,       \* values of the other inputs of the filter bar
    lastFilter,        \* history: the filter of the last request sent
    inflight,          \* fetchLogs requests whose response has not run
    fetches,           \* number of fetchLogs calls so far (request ids)
    rowData,           \* row positions the grid displays
    pageInfo,          \* row positions the #page-info label announces
    prevDisabled,      \* #btn-prev.disabled
    nextDisabled,      \* #btn-next.disabled
    seen,              \* history: every row position ever displayed
    failed             \* history: some fetchLogs request has failed

vars == <<currentOffset, currentLimit, lastFetchedCount, limitInput,
          filterInput, lastFilter, inflight, fetches, rowData, pageInfo, prevDisabled, nextDisabled,
          seen, failed>>

\* The `|| 200` fallback of fetchLogs.
DefaultLimit == 200

Request == [id : 1..MaxFetches, offset : Int, limit : Int, filter : Filters]

(***************************************************************************)
(* Backend contract of GET /logs (the server is not in this repository):  *)
(* the rows of the filter's list at positions offset+1 .. offset+limit,   *)
(* newest first, with count equal to the number of items returned.        *)
(***************************************************************************)
Page(f, offset, limit) ==
    {<<f, i>> : i \in {j \in 1..Total : offset < j /\ j <= offset + limit}}

Positions(rows) == {row[2] : row \in rows}

\* A request with a negative offset or a limit below 1 is outside what the
\* backend is known to accept: it may answer it with an error.
MayReject(r) == ServerMayFail \/ r.offset < 0 \/ r.limit < 1

\* Mutation: `parseInt(limit, 10) ?? 200`, which keeps a typed 0.
ParseLimitKeepsZero(v) == IF v = NaN THEN DefaultLimit ELSE v

\* parseInt(limit, 10) || 200: NaN and 0 are falsy, any other integer,
\* negative ones included, is kept.
ParseLimit(v) == IF v = NaN \/ v = 0 THEN DefaultLimit ELSE v

\* The synchronous part of fetchLogs, up to the await of fetch(): re-read
\* every input of the filter bar and the limit, store the limit in
\* currentLimit and send the request with the offset the caller has set.
FetchLogs(offset) ==
    LET lim == ParseLimit(limitInput) IN
    /\ fetches < MaxFetches
    /\ currentLimit' = lim
    /\ inflight' = inflight \cup
                   {[id |-> fetches + 1, offset |-> offset, limit |-> lim,
                     filter |-> filterInput]}
    /\ fetches' = fetches + 1
    /\ lastFilter' = filterInput

\* A click is possible only when the user does not wait for the previous
\* response, or when there is none.
UserMayClick == ~UserWaits \/ inflight = {}

\* Prev and Next are clicked only when the user, after editing a filter,
\* has pressed Search, or does not care to.
PagingAllowed == ~SearchAfterEdit \/ filterInput = lastFilter

UIUnchanged == UNCHANGED <<lastFetchedCount, rowData, pageInfo,
                           prevDisabled, nextDisabled, seen, failed>>

(***************************************************************************)
(* Page load: the module globals, then the DOMContentLoaded handler, which *)
(* ends with the initial fetchLogs().  The initial limit input and button  *)
(* states come from the HTML page, which is not in this repository: the   *)
(* input starts at some positive page size, the buttons in either state;  *)
(* setDefaultDates has filled in the dates, the filter is any value.      *)
(***************************************************************************)
Init ==
    /\ limitInput \in {v \in LimitInputs : v \in Nat \ {0}}
    /\ currentOffset = 0
    /\ currentLimit = ParseLimit(limitInput)
    /\ lastFetchedCount = 0
    /\ filterInput \in Filters
    /\ lastFilter = filterInput
    /\ inflight = {[id |-> 1, offset |-> 0, limit |-> currentLimit,
                    filter |-> filterInput]}
    /\ fetches = 1
    /\ rowData = {}
    /\ pageInfo = {}
    /\ prevDisabled \in InitialDisabled
    /\ nextDisabled \in InitialDisabled
    /\ seen = {}
    /\ failed = FALSE

\* resetPagination()
ResetPagination == currentOffset' = 0

\* The search button and Enter in a filter input: resetPagination();
\* fetchLogs().
Search ==
    /\ UserMayClick
    /\ ResetPagination
    /\ FetchLogs(0)
    /\ UNCHANGED <<limitInput, filterInput>>
    /\ UIUnchanged

\* Mutation: nextPage steps by the limit input as typed now, instead of
\* by the limit of the page on screen.
NextPageByInput ==
    /\ ~nextDisabled
    /\ UserMayClick
    /\ PagingAllowed
    /\ currentOffset' = currentOffset + ParseLimit(limitInput)
    /\ FetchLogs(currentOffset + ParseLimit(limitInput))
    /\ UNCHANGED <<limitInput, filterInput>>
    /\ UIUnchanged

\* nextPage: currentOffset += currentLimit; fetchLogs().
NextPage ==
    /\ ~nextDisabled
    /\ UserMayClick
    /\ PagingAllowed
    /\ currentOffset' = currentOffset + currentLimit
    /\ FetchLogs(currentOffset + currentLimit)
    /\ UNCHANGED <<limitInput, filterInput>>
    /\ UIUnchanged

\* Mutation: prevPage without the Math.max clamp.
PrevPageNoClamp ==
    /\ ~prevDisabled
    /\ UserMayClick
    /\ PagingAllowed
    /\ currentOffset' = currentOffset - currentLimit
    /\ FetchLogs(currentOffset - currentLimit)
    /\ UNCHANGED <<limitInput, filterInput>>
    /\ UIUnchanged

\* prevPage: currentOffset = Math.max(0, currentOffset - currentLimit).
PrevPage ==
    /\ ~prevDisabled
    /\ UserMayClick
    /\ PagingAllowed
    /\ currentOffset' = Max({0, currentOffset - currentLimit})
    /\ FetchLogs(Max({0, currentOffset - currentLimit}))
    /\ UNCHANGED <<limitInput, filterInput>>
    /\ UIUnchanged

\* The user edits the limit input without searching.
EditLimit(v) ==
    /\ v # limitInput
    /\ limitInput' = v
    /\ UNCHANGED <<currentOffset, currentLimit, inflight, fetches,
                   filterInput, lastFilter>>
    /\ UIUnchanged

\* The user edits the filter bar without searching.
EditFilter(f) ==
    /\ f # filterInput
    /\ filterInput' = f
    /\ UNCHANGED <<currentOffset, currentLimit, limitInput, inflight, fetches,
                   lastFilter>>
    /\ UIUnchanged

\* updatePagination's label: "Showing a-b" with a = currentOffset + 1 and
\* b = currentOffset + lastFetchedCount, or "No results".
PageInfo(offset, count) ==
    IF count > 0 THEN offset + 1 .. offset + count ELSE {}

\* The rest of fetchLogs after a response with !resp.ok, or a network error:
\* console.error and return; nothing else changes.
LogsFail(r) ==
    /\ MayReject(r)
    /\ inflight' = inflight \ {r}
    /\ failed' = TRUE
    /\ UNCHANGED <<currentOffset, currentLimit, limitInput, filterInput,
                   lastFilter, fetches>>
    /\ UNCHANGED <<lastFetchedCount, rowData, pageInfo, prevDisabled,
                   nextDisabled, seen>>

\* Mutation: Next disabled only by an empty page (count === 0).
LogsOkNextOnEmpty(r) ==
    LET items == Page(r.filter, r.offset, r.limit)
        count == Cardinality(items)
    IN
    /\ inflight' = inflight \ {r}
    /\ lastFetchedCount' = count
    /\ rowData' = items
    /\ prevDisabled' = (currentOffset = 0)
    /\ nextDisabled' = (count = 0)
    /\ pageInfo' = PageInfo(currentOffset, count)
    /\ seen' = seen \cup items
    /\ UNCHANGED <<currentOffset, currentLimit, limitInput, filterInput,
                   lastFilter, fetches, failed>>

\* Mutation: the label's end computed as currentOffset + currentLimit.
LogsOkLabelByLimit(r) ==
    LET items == Page(r.filter, r.offset, r.limit)
        count == Cardinality(items)
    IN
    /\ inflight' = inflight \ {r}
    /\ lastFetchedCount' = count
    /\ rowData' = items
    /\ prevDisabled' = (currentOffset = 0)
    /\ nextDisabled' = (count < currentLimit)
    /\ pageInfo' = IF count > 0
                   THEN currentOffset + 1 .. currentOffset + currentLimit
                   ELSE {}
    /\ seen' = seen \cup items
    /\ UNCHANGED <<currentOffset, currentLimit, limitInput, filterInput,
                   lastFilter, fetches, failed>>

\* The rest of fetchLogs after a successful response: set lastFetchedCount
\* and the grid rows, then updatePagination() and updateResultCount(),
\* which read the globals as they are now, not as they were when the
\* request was sent.  (The result-count text is a function of
\* lastFetchedCount and is not kept separately.)
LogsOk(r) ==
    LET items == Page(r.filter, r.offset, r.limit)
        count == Cardinality(items)
    IN
    /\ inflight' = inflight \ {r}
    /\ lastFetchedCount' = count
    /\ rowData' = items
    /\ prevDisabled' = (currentOffset = 0)
    /\ nextDisabled' = (count < currentLimit)
    /\ pageInfo' = PageInfo(currentOffset, count)
    /\ seen' = seen \cup items
    /\ UNCHANGED <<currentOffset, currentLimit, limitInput, filterInput,
                   lastFilter, fetches, failed>>

Next ==
    \/ Search
    \/ NextPage
    \/ PrevPage
    \/ \E v \in LimitInputs : EditLimit(v)
    \/ \E f \in Filters : EditFilter(f)
    \/ \E r \in inflight : LogsOk(r) \/ LogsFail(r)

Spec == Init /\ [][Next]_vars

-----------------------------------------------------------------------------
TypeOK ==
    /\ currentOffset \in Int
    /\ currentLimit \in Int \ {0}
    /\ lastFetchedCount \in 0..Total
    /\ limitInput \in LimitInputs
    /\ filterInput \in Filters /\ lastFilter \in Filters
    /\ inflight \subseteq Request
    /\ fetches \in 1..MaxFetches
    /\ rowData \subseteq Filters \X (1..Total)
    /\ pageInfo \subseteq Int
    /\ prevDisabled \in BOOLEAN
    /\ nextDisabled \in BOOLEAN
    /\ seen \subseteq Filters \X (1..Total)
    /\ failed \in BOOLEAN

\* The "Showing a-b" label announces exactly the rows the grid displays.
\* fetchLogs computes the label from the globals at response time while the
\* rows come from the request, so a response that arrives after a later
\* click labels its rows with the later offset.
PageLabelMatchesRows == pageInfo = Positions(rowData)

\* Paging never jumps over rows: every row of a filter's list above the
\* furthest one ever displayed has been displayed.  nextPage advances
\* currentOffset before the request and nothing rolls it back when
\* fetchLogs fails.
NoRowSkipped == \A row \in seen : \A j \in 1..row[2] : <<row[1], j>> \in seen

\* As long as no request has failed, paging never jumps over rows, whatever
\* page sizes the user types between clicks: nextPage steps by the limit of
\* the page on screen.
SkipOnlyAfterFailure == ~failed => NoRowSkipped

\* Next never leads further than one empty page past the end of the log:
\* as long as no request has failed, the offset stays within the log.
\* updatePagination disables Next only when a page comes back shorter than
\* currentLimit, so a last page that is exactly full leaves it enabled,
\* and Next then reaches offset = Total ("No results"), but not beyond.
OffsetWithinLog == ~failed => currentOffset <= Total

\* A request whose filter differs from the previous request's asks for the
\* first page (spec: the offset is reset to 0 whenever the filter
\* changes).  nextPage and prevPage keep currentOffset, but fetchLogs
\* re-reads every input of the filter bar, edited or not.
FilterChangeResetsOffset ==
    [][fetches' > fetches /\ lastFilter' # lastFilter => currentOffset' = 0]_vars

\* The offset sent to the backend is never negative (spec: offset >= 0).
\* prevPage clamps at 0; nextPage adds whatever parseInt made of the limit.
OffsetNonNegative == currentOffset >= 0
=============================================================================
