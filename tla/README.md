# TLA+ models of the API log viewer

The repository's client code is one file, `src/app/static/js/logs.js`. It is a
browser page that lists API request logs from a backend in a grid with
pagination, and shows one log in a detail drawer. The drawer loads that
request's database-call logs lazily, opens popups, and copies text (SQL, JSON,
a cURL command) to the clipboard. Everything runs on the browser's single UI
thread. Concurrency comes from the event loop: handlers run up to an `await`,
and other clicks, network answers and timers can run before the rest of the
handler resumes. The models treat each such run-to-the-next-await segment as
one atomic step.

## 1. Inventory

| Component | Code | State it keeps | Operations | Interacts with |
|---|---|---|---|---|
| Pagination controller | `nextPage`, `prevPage`, `resetPagination`, `updatePagination`, `updateResultCount` (250-284) | globals `currentOffset`, `currentLimit`, `lastFetchedCount`; the disabled state of `#btn-prev`/`#btn-next`; the `#page-info` label; the filter bar's inputs, which every `fetchLogs` re-reads | Next, Prev, Search/Enter, editing a filter or the page size | calls `fetchLogs`; `fetchLogs` calls back into `updatePagination` when a response arrives |
| API client | `fetchLogs` (196-233), `fetchDbLogs` (235-247), `resolveApiBase` (12-21) | requests in flight (implicit in pending promises) | GET `/logs`, GET `/logs/db` | backend; writes grid rows and globals after its `await` |
| Grid controller | `columnDefs`, `gridOptions` (106-193), `rowStyleForStatus` | AG Grid's row data | row click, DB-button click, client-side column sort | opens the drawer |
| Formatters | `statusClass`, `markDayBoundaries`, renderers, `escapeHtml`, `formatJson*`, `truncate` | none (pure) | — | used by grid, drawer, popup |
| Detail drawer | `openDrawer`, `closeDrawer`, `buildDrawerContent`, `loadDbLogs` (287-322, 374-560) | `open` class; `#drawer-body` content, rebuilt on every open; the `#db-logs-content` element of each build | open (row / DB button), close (button, overlay, Escape), DB-log answer | `fetchDbLogs`; opens popups; copy buttons |
| cURL builder | `buildCurlCommand` (589-614) | none (pure) | — | clipboard helper |
| Popup | `openPopup`, `closePopup` (325-372) | `.popup`/`.popup-backdrop` elements; a capture-phase `keydown` handler per popup | open (view SQL/JSON), close (button, backdrop, Escape) | competes with the drawer for the Escape key |
| Clipboard helper | `copyToClipboard` (563-587) | the button's label; pending `writeText` promises; 1.5 s restore timers | click, write settles, timer fires | every copy button |
| Page initialisation | DOMContentLoaded handler (667-703), `setDefaultDates` | — | creates the grid, wires listeners, makes the first fetch | everything |
| Backend | not in this repository | the log tables | GET `/logs`, GET `/logs/db` | API client |

**What is hard here.** These behaviours are hard to test and a model checker reaches them:

- Two `fetchLogs` calls can be in flight at once, because the buttons are not disabled while loading. Their answers may arrive in either order.
  - The answer handler reads the globals as they are *when the answer arrives*.
  - The request was sent with the values they had earlier.
- Network failures are swallowed. State changed before the `await` is not rolled back.
- The drawer is rebuilt on every open. A DB-log answer can arrive after the drawer it was meant for is gone.
  - The container element is captured *before* the await.
  - The scroll target is looked up *after* it.
- The popup and the drawer both listen for Escape on `document`. Capture phase and `stopImmediatePropagation` decide which one closes.
- Copy buttons restore their label from a value captured when a write settles. A repeated click captures the temporary label.
- Pure string transforms must be exact: escaping order, shell quoting, day-boundary detection.

**What makes each component correct** (each becomes a property below):

- Pagination: the label announces the rows on screen; paging never skips rows; the offset is never negative; a changed filter starts at its first page.
- Drawer: the DB table shown belongs to the drawer's row; the placeholder is eventually replaced; the drawer scrolls only when asked.
- Popup: there is a single instance with no leaked handlers; Escape closes the topmost layer only.
- Clipboard: the label returns to its original text.
- Formatters: day separators and escaping match their reference definitions.
- Rendering: every field taken from the log reaches the page escaped, showing its text; the list query names exactly the filled-in filters; the default dates are valid inputs of the intended time.
- cURL: a pasted command passes exactly the logged arguments.

## 2. Modules

| Module | Models | State ↔ code | Actions ↔ code |
|---|---|---|---|
| `LogPagination` | pagination controller + `fetchLogs` + grid rows/label | `currentOffset`, `currentLimit`, `lastFetchedCount` are the globals. `limitInput` is `#filter-limit`. `filterInput` is the filter bar, abstracted to one of `Filters`; `lastFilter` is the filter of the latest request sent. `inflight` holds the pending requests (id, offset, limit, filter). `rowData` is the row positions on the grid. `pageInfo` is the positions the label announces. `prevDisabled`/`nextDisabled` are the buttons. `seen` and `failed` are history variables. | `Init` = DOMContentLoaded (the first fetch); `Search`; `NextPage`; `PrevPage`; `EditLimit`, `EditFilter` (the user types); `LogsOk`/`LogsFail` = the code after `await fetch` |
| `LogDrawer` | drawer, `loadDbLogs`, popup, Escape dispatch | `drawerOpen`; `drawers` (one record per `openDrawer`, last = in the document, with its DB section `loading`/`empty`/table-of-row and whether it was scrolled); `dbInflight`; `popups`; `escHandlers` | `RowClick`, `DbButtonClick`, `CloseDrawer`, `OpenPopup`, `ClosePopup`, `KeyEscape`, `DbResolve` (the code after `await fetchDbLogs`) |
| `Formatters` | `statusClass` (translated only), `markDayBoundaries`, `escapeHtml` | one input `x`, fixed | operators checked on every input of a bounded domain |
| `CurlCommand` | `buildCurlCommand` | one logged request `x` (header value, body) | the built command is split into words the way a POSIX shell does |
| `Rendering` | every place a log field is inserted into markup, plus `Formatters` and `CurlCommand` through `INSTANCE` | one input `x`, fixed: a page of days, a text, a logged request, an insertion site with a text, a state of the filter bar, or a local date and time | operators: `MethodRenderer`, `DbLogsCellRenderer`, `DrawerField` (`buildDrawerContent`), `DbLogCell` (a row of `loadDbLogs`), `Truncate`, `OrDash` (`\|\| "—"`), and `Inserted`, which dispatches a site to them; `BuildQuery` (the parameters of `fetchLogs`, `Trim` = `.trim()`); `ToLocal`, `Pad`, `Digits` (`setDefaultDates`) |
| `DrawerView` | what the drawer promises (abstract) | `open`, `row`, `db` (`"none"`, `"loading"`, `"empty"` or a row), `popup` | `Show` (open on a row from the uncovered grid), `Hide`, `Settle` (the DB section, once, to its row or empty), `ViewDetail` (a popup over a DB table), `Dismiss` |
| `CopyButton` | `copyToClipboard` on one button | `label`, `writes`, `timers` (FIFO: every timer has the same 1.5 s delay), `clicks` | `Click`, `CopySettles` (the resolved and fallback paths do the same to the label), `RestoreLabel` |

Each module `M` except the abstract `DrawerView`, which is checked through `LogDrawer`, has an `MCM` module that gives its constants values (model values, small sets) and one or more `.cfg` files.

`LogDrawer` is shown to implement `DrawerView`. `LogDrawer.View` is `INSTANCE DrawerView WITH`:

- `open` is `drawerOpen` and `popup` is `popups > 0`;
- `row` and `db` are those of the last opening (`Current`), or `NoRow` and `"none"` before the first.

`DrawerShowsItsRow == View!DSpec` is a PROPERTY of the drawer run. Scrolling is left out of `DrawerView`: the stale scroll is a finding with its own run.

**Abstractions.**

- Rows are positions in the backend's filtered, newest-first log, paired with the filter: a row is `<<filter, position>>`. A page is a set of them. The six filter inputs are one value from `Filters`; what they send is checked separately by `Rendering`'s `BuildQuery`.
- `SearchAfterEdit` says whether the user always searches after editing a filter. It is TRUE in the passing run, where Next/Prev wait for a search; the filter run sets it FALSE.
- Texts are model values, except where a property is about the text: in `Formatters` and `CurlCommand` they are sequences of one-character strings.
- The backend is not in the repository. Its contract is taken from the spec (`Page`, `MayReject`): `count` is the number of items returned.
  - A request with a negative offset or a limit below 1 may be rejected.
  - Under `ServerMayFail`, any request may fail.
- `fetchDbLogs` returns items or `[]` (on an error too). `DbResolve`'s `found` chooses between them.
- The HTML page is not in the repository. The initial limit input is some positive page size. The buttons' initial `disabled` states are the constant `InitialDisabled`: either value in most runs, and both disabled in the skip run, so that its trace does not depend on the HTML.
- Clicks are limited by the page layout, which is an assumption about the CSS:
  - The grid cannot be clicked while the drawer overlay or a popup backdrop covers it. AG Grid cells take no keyboard focus (`suppressCellFocus`).
  - Buttons inside the drawer stay reachable by keyboard under a popup backdrop.

## 3. Runs

| Run | cfg | Expect | What it shows |
|---|---|---|---|
| pagination_serial | `LogPagination_serial.cfg` | pass | The user waits for each page; any request may fail. The label matches the rows and rows are skipped only after a failed request. The offset stays between 0 and the end of the log: a last page that is exactly full leads to one "No results" page, never further. This holds for page sizes 1, 2, 0 and NaN (both → 200), with two filters edited between requests. |
| pagination_filter | `LogPagination_filter.cfg` | violation | Edit the filter, then click Next without searching: the new filter's list is fetched at offset 1, and its first row is never shown. |
| pagination_race | `LogPagination_race.cfg` | violation | A click before the previous answer arrives: the label announces rows the grid does not show. |
| pagination_skip | `LogPagination_skip.cfg` | violation | Both buttons start disabled. The first page loads, a Next fetch fails, and a second Next shows row 3: row 2 is never shown. |
| pagination_negative_limit | `LogPagination_negative.cfg` | violation | Typing `-1` as the page size drives `currentOffset` to −1. |
| drawer | `LogDrawer.cfg` | pass | The DB table belongs to its drawer's row even when the drawer is reopened while a fetch is pending. There is one popup with one handler. Escape under a popup keeps the drawer open. A fetched placeholder is eventually replaced. The drawer implements `DrawerView`: a late answer for an earlier opening never changes the visible DB section, and Escape or a popup's close never closes the drawer with it. |
| drawer_stale_scroll | `LogDrawer_stalescroll.cfg` | violation | A late answer for a DB-button opening scrolls the next drawer. |
| drawer_no_request_id | `LogDrawer_noid.cfg` | violation | A row without request id: "Loading DB logs…" forever. |
| rendering | `Rendering.cfg` | pass | Day separators match the spec's definition, rows without ts included. `escapeHtml` round-trips and removes markup characters. Bodies with quotes, backslashes, blanks and newlines reach curl intact. Every field the drawer, a DB-log row, the popup or a JSON block escapes shows its text, its dash default or its truncated DB error, and never markup. The list query names exactly the filter inputs holding a non-blank value, trimmed (spec: "omitted when the corresponding UI field is empty"). `toLocal` writes a datetime-local value that parses back to the same date and time. `resolveApiBase` gives the origin and the root path for every root, with or without a trailing slash on the page path, and for a root that itself ends in `/logs/ui`. |
| markup_unescaped | `Rendering_markup.cfg` | violation | The method badge (`<` as a method) and the DB button's `data-rid` insert log values unescaped. |
| curl_header_quote | `CurlCommand_header.cfg` | violation | A `'` in a logged header value breaks the command. |
| copy_label | `CopyButton.cfg` | violation | Two copies within 1.5 s leave the label at "Copied!". Deadlock is not checked here: once the user stops clicking and the timers have fired, the button rests. |

Every property of a passing run has a mutant in `PROJECT.json`: an operator defined just before the definition it replaces, which reproduces a plausible coding error. Examples are `??` instead of `||`, a missing `Math.max`, the popup handler registered in the bubble phase, the container looked up again after the await, `&` escaped last, Next disabled only by an empty page, a failed fetch that clears the grid, a DB error escaped before it is truncated, an input read without `.trim()`, `getMonth()` written without `+ 1`, and the UI route stripped without its optional slash. TLC finds the property violated under each mutant.

**Bounds.**

- **`LogPagination`.**
  - 3 rows: enough for full, partial and empty pages with page sizes 1 and 2.
  - Page sizes {1, 2, 0, NaN}, or {1, −1} for the negative run.
  - 2 filters: enough for a filter change between two requests.
  - At most 5 `fetchLogs` calls: enough for a search, two page moves, a page-size change and one more click. Every trace TLC reports is 3–7 steps.
- **`LogDrawer`.**
  - Rows a (request id and DB logs), b (request id only) and c (neither).
  - 3 openings: open a, close, open b while a's fetch is pending, and once more.
- **`Formatters`** (checked through `Rendering`).
  - Every page of up to 4 rows over 2 days and a missing ts.
  - Every text of up to 4 characters over `& < > " l t ;`. These letters can spell an entity, e.g. a literal `&lt;` in the input.
- **`CurlCommand`.** Every text of up to 3 characters over `a`, quote, backslash, blank and newline.
- **`Rendering`.**
  - The pages, texts and bodies above, checked in one run.
  - Every insertion site with every text of up to 4 characters (2 for the violation run).
  - Every filter bar whose three text inputs hold up to 3 characters over `a` and blank, with each other input empty or set.
  - Root paths of up to two segments over `api`, `logs` and `ui` (13 roots), each served with and without a trailing slash.
  - Local times in 2026 for months 0, 8, 9 and 11 (`+ 1` gains a digit from September to October), days 1, 9, 10, 31, hours 0, 9, 10, 23, minutes and seconds 0 and 59: both sides of every one-/two-digit boundary.
  - The DB error's cut at 80 characters is scaled to 2, so that texts of 3 and 4 characters are cut. `toLowerCase` is the identity on the model's characters, which have no upper case.

**Fairness.**

- `LogDrawer` assumes weak fairness of `DbResolve` only. `fetch` sets no timeout, but the browser's network stack ends every request with an answer or an error.
- No user action is assumed to happen.
- `CopyButton` assumes weak fairness of settling writes and firing timers (`setTimeout`).
- `LogPagination` checks only safety and needs no fairness.

## 4. Findings

The findings are listed in `PROJECT.json`. In short:

1. **Label from the wrong request.** `updatePagination` computes the label and the button states from the globals when the answer arrives (line 228). A double click labels page 1's rows "Showing 201–400".
2. **Skipped page after a failure.** `nextPage` moves the offset before fetching, and a failure does not undo it (line 251).
3. **Negative page size.** A negative value is kept by `parseInt(...) || 200` (line 214), contrary to the spec's `limit > 0`, `offset ≥ 0`.
4. **Stale scroll.** `loadDbLogs` looks up the section to scroll to after its await (line 557).
5. **Endless placeholder.** A drawer for a row without request id never leaves "Loading DB logs…" (line 314).
6. **Paging after a filter edit.** `fetchLogs` re-reads every filter input, but only Search resets the offset (lines 198-204, 250-253). After a filter edit, Next fetches the new filter's list at the old offset, so its first rows are never shown. The spec resets the offset "whenever the filter changes".
7. **Unescaped headers in cURL.** Header values are quoted without escaping (line 599).
8. **Stuck copy label.** A repeated copy leaves "Copied!" on the button (line 567).
9. **Unescaped log values.** `methodRenderer` (line 95) and `dbLogsCellRenderer` (line 102) insert the method and the request id into markup raw, contrary to spec 4.4.
10. **Spec overstates a race.** Spec §5 describes a stale DB-log answer overwriting the new drawer. The code captures the container before the await, so this does not happen (`DbLogsOfOpenRow` holds).

Observed, not model-checked: `statusClass` colours codes from 600 up as 5xx (line 28), where the spec's buckets end at 599. It is one guard with no state behind it, so no run is spent on it.

## 5. Not modelled, and why

- **Date formatting.** `timestampFormatter` and `toLocaleString` only format a date from the browser's clock and locale. No property is about their output. Of `setDefaultDates`, `toLocal` is modelled; the clock (`new Date()`, the 24 h subtraction) and `new Date(from).toISOString()` in `fetchLogs` are not. The latter's time-zone conversion is the browser's. `JSON.stringify`/`JSON.parse` are abstracted to an arbitrary output text.
- **Client-side sorting.** AG Grid sorts the rows; it is not in this repository. Spec §2 says the day markers are correct only in timestamp-descending order, and promises nothing for other sorts.
- **`data.count`.** The model takes `count` as the number of items returned, as the spec says. The backend is not in the repository, so nothing in this code can make it differ.
- **Collapsible toggles.** They only flip CSS classes.
- **Row styling and column definitions.** `rowStyleForStatus` and `statusRenderer` both take their bucket from `statusClass`, so the row colour and the badge agree by construction. Widths, headers and the request-id cell's `substring(0, 8) + "…"` are layout.
- **The backend and the HTML/CSS.** They are not in the repository; what the models assume of them is stated above.
- **Copy buttons inside the drawer.** In `LogDrawer` they change only their own label, which `CopyButton` models.

## 6. Plan

Built so far:

1. `LogPagination`, `LogDrawer`, `Formatters`, `CurlCommand` and `CopyButton` (the core).
2. An abstract `LatestResponseWins` for the list, since removed. With the user waiting for each answer it could only restate `PageLabelMatchesRows`, and with concurrent requests the race run already shows that it fails.
3. `Rendering`: every insertion of a log field into markup, which also puts the pure helpers' passing checks into one run.
4. The filter bar: `EditFilter` in `LogPagination`, and the query and default dates in `Rendering`.
5. `DrawerView` and the refinement of `LogDrawer` into it; `resolveApiBase` in `Rendering`.

The project keeps 12 runs, one per question. New questions go into an existing passing run or replace a weaker run, as the filter run replaced the status-bucket run.

Considered and left out (see also section 5):

1. **A composed `LogViewer`.** The pagination and the drawer share no state in the code. The drawer shows the `event.data` it was opened with, and `fetchLogs` replaces the grid rows without touching the drawer. The only coupling is which clicks the overlay lets through, which is CSS that is not in the repository. A composition would check nothing that the two modules do not already check.
2. **`CopyButton` inside `LogDrawer`.** Every opening rebuilds the drawer, so a pending restore timer writes to a detached button, and the new button starts with its own label. The stuck label of finding 8 therefore lasts as long as that drawer's content. This adds no state beyond what `CopyButton` has.
3. **Liveness of the copy label.** Under the fairness `CopyButton` states, "the label eventually returns" fails on the same two-click trace as `LabelRestored`. It would be a second run for the same finding.
