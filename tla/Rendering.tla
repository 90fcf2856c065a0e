----------------------------- MODULE Rendering -----------------------------
(***************************************************************************)
(* What src/app/static/js/logs.js writes into the page for one logged     *)
(* request: the text helpers of Formatters, the cURL command of            *)
(* CurlCommand, and the places where a field of the log is pasted into    *)
(* markup by a cell renderer, buildDrawerContent, a DB-log row of          *)
(* loadDbLogs or openPopup, each with or without escapeHtml.  Also the    *)
(* texts the page sends or fills in itself: the API base of               *)
(* resolveApiBase, the query string of fetchLogs and the datetime-local   *)
(* values of setDefaultDates.                                              *)
(*                                                                         *)
(* One input is chosen and kept, as in Formatters: a page of days, a text, *)
(* a logged request for the cURL builder, a (site, text) pair, a state of  *)
(* the filter bar, a local date and time, or the page's root path.         *)
(***************************************************************************)
EXTENDS Integers, Sequences, SequencesExt

CONSTANTS
    Days, NoTs, MaxItems, TextChars, MaxText,  \* of Formatters
    HeaderChars, BodyChars, MaxLen,                         \* of CurlCommand
    ErrorMax,    \* truncate(item.error, 80): the 80, scaled down
    QueryChars,  \* characters typed into the filter bar's text inputs
    Dates,       \* local dates and times, as the Date getters return them
    Roots        \* root paths the API may be mounted at

VARIABLE x   \* the input under check: [kind, v]

F == INSTANCE Formatters
C == INSTANCE CurlCommand WITH x <- x.v

Dash     == <<"mdash">>    \* the dash shown for a missing value
Ellipsis == <<"hellip">>  \* the ellipsis truncate appends

\* methodRenderer: the method goes into the badge's class attribute
\* (lower-cased) and its content, unescaped.  The model's characters have
\* no upper case, so toLowerCase leaves them as they are.
MethodRenderer(v) == v

\* dbLogsCellRenderer: data-rid="${rid}", unescaped.
DbLogsCellRenderer(rid) == rid

\* `value || "\u2014"`: an em dash for an empty or missing value.
OrDash(t) == IF t = <<>> THEN Dash ELSE t

\* truncate(str, maxLen)
Truncate(str, maxLen) ==
    IF Len(str) <= maxLen THEN str ELSE SubSeq(str, 1, maxLen) \o Ellipsis

\* The summary fields of buildDrawerContent.
DrawerField(f, t) ==
    CASE f = "method"   -> MethodRenderer(t)
      [] f = "endpoint" -> F!EscapeHtml(t)
      [] OTHER          -> F!EscapeHtml(OrDash(t))

\* Mutation: the error text escaped before it is truncated.
DbLogCellEscapeFirst(f, t) ==
    IF f = "error" THEN OrDash(Truncate(F!EscapeHtml(t), ErrorMax))
    ELSE F!EscapeHtml(OrDash(t))

\* The text cells of one DB-log row in loadDbLogs.
DbLogCell(f, t) ==
    IF f = "error" THEN F!EscapeHtml(OrDash(Truncate(t, ErrorMax)))
    ELSE F!EscapeHtml(OrDash(t))

\* Every place a text field of the log is inserted into markup.  "json"
\* is a collapsible section's block: formatJson and formatJsonOrText
\* escape what JSON.stringify returned, or the raw text; t stands for it.
Sites ==
    {<<"grid", "method">>, <<"grid", "request_id">>,
     <<"drawer", "method">>, <<"drawer", "endpoint">>, <<"drawer", "user_name">>,
     <<"drawer", "client_ip">>, <<"drawer", "request_id">>,
     <<"dbRow", "function_name">>, <<"dbRow", "schema_name">>,
     <<"dbRow", "status">>, <<"dbRow", "error">>,
     <<"popup", "text">>, <<"json", "body">>}

Inserted(s, t) ==
    CASE s = <<"grid", "method">> -> MethodRenderer(t)
      [] s[1] = "grid"            -> DbLogsCellRenderer(t)
      [] s[1] = "drawer"          -> DrawerField(s[2], t)
      [] s[1] = "dbRow"           -> DbLogCell(s[2], t)
      [] OTHER                    -> F!EscapeHtml(t)

\* The text the reader is meant to see at a site.
Intended(s, t) ==
    CASE s = <<"dbRow", "error">>                -> OrDash(Truncate(t, ErrorMax))
      [] s[1] = "dbRow"                          -> OrDash(t)
      [] s[1] = "drawer" /\ s[2] \notin {"method", "endpoint"} -> OrDash(t)
      [] OTHER                                   -> t

(***************************************************************************)
(* resolveApiBase.  A path is a sequence of tokens: "/" and whole path    *)
(* segments; protocol, "//" and host are the one token "origin".           *)
(***************************************************************************)
UiRoute == <<"/", "logs", "/", "ui">>

\* Mutation: the route stripped without its optional trailing slash.
StripUiRouteNoSlash(path) ==
    IF IsSuffix(UiRoute, path) THEN SubSeq(path, 1, Len(path) - 4) ELSE path

\* loc.pathname.replace(/\/logs\/ui\/?$/, "")
StripUiRoute(path) ==
    CASE IsSuffix(UiRoute \o <<"/">>, path) -> SubSeq(path, 1, Len(path) - 5)
      [] IsSuffix(UiRoute, path)            -> SubSeq(path, 1, Len(path) - 4)
      [] OTHER                              -> path

ResolveApiBase(pathname) == <<"origin">> \o StripUiRoute(pathname)

(***************************************************************************)
(* The query string of fetchLogs.  The filter bar is a record of its      *)
(* inputs' values; from/to are a datetime-local value or empty, method a  *)
(* select option or empty.  The value of a parameter is kept as a text;  *)
(* new Date(v).toISOString() is recorded as the tagged pair <<"iso", v>>. *)
(***************************************************************************)
TrimmedKeys == {"endpoint", "status", "user"}
UntrimmedKeys == {"from", "to", "method"}

\* String.prototype.trim, for the blanks an input can hold.
RECURSIVE TrimLeft(_)
TrimLeft(s) == IF s # <<>> /\ Head(s) = " " THEN TrimLeft(Tail(s)) ELSE s

Trim(s) == Reverse(TrimLeft(Reverse(TrimLeft(s))))

\* Mutation: the endpoint input read without .trim().
BuildQueryNoTrim(f) ==
    LET v(k) == IF k \in {"endpoint"} \cup UntrimmedKeys THEN f[k] ELSE Trim(f[k])
        keys == {k \in TrimmedKeys \cup UntrimmedKeys : v(k) # <<>>}
    IN [k \in keys |-> IF k \in {"from", "to"} THEN <<"iso", v(k)>> ELSE v(k)]

\* `if (v) params.set(k, v)` for every filter input, the text inputs
\* trimmed first; limit and offset are always set and not modelled here.
BuildQuery(f) ==
    LET v(k) == IF k \in UntrimmedKeys THEN f[k] ELSE Trim(f[k])
        keys == {k \in TrimmedKeys \cup UntrimmedKeys : v(k) # <<>>}
    IN [k \in keys |-> IF k \in {"from", "to"} THEN <<"iso", v(k)>> ELSE v(k)]

(***************************************************************************)
(* toLocal of setDefaultDates: a Date's local fields (getMonth counts     *)
(* from 0) written as the value of a datetime-local input.                 *)
(***************************************************************************)
DigitChars == <<"0", "1", "2", "3", "4", "5", "6", "7", "8", "9">>

\* String(n) for a non-negative integer.
RECURSIVE Digits(_)
Digits(n) ==
    IF n < 10 THEN <<DigitChars[n + 1]>>
    ELSE Digits(n \div 10) \o <<DigitChars[(n % 10) + 1]>>

\* pad(n): String(n).padStart(2, "0")
Pad(n) == IF n < 10 THEN <<"0">> \o Digits(n) ELSE Digits(n)

\* Mutation: the month written as getMonth() returns it.
ToLocalNoMonthShift(d) ==
    Digits(d.year) \o <<"-">> \o Pad(d.month) \o <<"-">> \o Pad(d.date) \o
    <<"T">> \o Pad(d.hours) \o <<":">> \o Pad(d.minutes) \o <<":">> \o Pad(d.seconds)

ToLocal(d) ==
    Digits(d.year) \o <<"-">> \o Pad(d.month + 1) \o <<"-">> \o Pad(d.date) \o
    <<"T">> \o Pad(d.hours) \o <<":">> \o Pad(d.minutes) \o <<":">> \o Pad(d.seconds)

-----------------------------------------------------------------------------
FilterBars ==
    [endpoint : C!TextsOver(QueryChars), status : C!TextsOver(QueryChars),
     user : C!TextsOver(QueryChars), method : {<<>>, <<"G">>},
     from : {<<>>, <<"d">>}, to : {<<>>, <<"d">>}]

Inputs ==
    F!Inputs \cup
    [kind : {"curl"}, v : [hv : C!TextsOver(HeaderChars),
                           body : C!TextsOver(BodyChars)]] \cup
    [kind : {"field"}, v : [site : Sites, t : F!Texts]] \cup
    [kind : {"query"}, v : FilterBars] \cup
    [kind : {"date"}, v : Dates] \cup
    [kind : {"base"}, v : [root : Roots, slash : BOOLEAN]]

Init == x \in Inputs

\* The helpers are pure: nothing changes once the input is chosen.
Next == UNCHANGED x

Spec == Init /\ [][Next]_x

\* Safe: no character that opens markup or ends an attribute value, and
\* the browser shows the intended text.
ShowsSafely(out, want) ==
    /\ F!Decode(out) = want
    /\ \A i \in DOMAIN out : out[i] \notin {"<", ">", "\""}

\* Day separators sit exactly where the calendar day changes between two
\* consecutive dated rows (markDayBoundaries, see Formatters).
DayBoundariesMatchSpec == F!DayBoundariesMatchSpec

\* escapeHtml output decodes to its input and holds no markup character.
EscapeHtmlRoundTrip == F!EscapeHtmlRoundTrip

\* The copied cURL command passes the logged body to curl intact.
CurlArgumentsIntact == x.kind = "curl" => C!CurlArgumentsIntact

\* Where the drawer, a DB-log row, the popup or a JSON block escapes a
\* field, the reader sees the field (or the dash, or its first ErrorMax
\* characters and "..." for a DB error), never markup: escaping comes after
\* the dash default and after truncate, which cannot cut an entity.
EscapedFieldsShowTheirText ==
    x.kind = "field" /\ x.v.site \notin {<<"grid", "method">>, <<"grid", "request_id">>,
                                         <<"drawer", "method">>} =>
        ShowsSafely(Inserted(x.v.site, x.v.t), Intended(x.v.site, x.v.t))

\* Reference: the inputs the user filled in (not blank), each with the text
\* between its first and last non-blank character.
Filled(f) ==
    LET nb(k) == {i \in DOMAIN f[k] : f[k][i] # " "}
    IN [k \in {k \in TrimmedKeys \cup UntrimmedKeys : nb(k) # {}} |->
          IF k \in {"from", "to"} THEN <<"iso", f[k]>>
          ELSE SubSeq(f[k], Min(nb(k)), Max(nb(k)))]

\* Spec: the list request names exactly the filters that are present, each
\* with its value; an empty or blank input is omitted, never sent empty
\* or as blanks (fetchLogs trims the text inputs and tests each value).
QueryOmitsEmptyFilters == x.kind = "query" => BuildQuery(x.v) = Filled(x.v)

\* Reference: a datetime-local value is YYYY-MM-DDThh:mm:ss, two digits
\* per field after the year; it denotes the month it names, from 1.
DigitValue(c) == CHOOSE i \in 0..9 : DigitChars[i + 1] = c

DigitsValue(s) == FoldLeft(LAMBDA acc, c : 10 * acc + DigitValue(c), 0, s)

ParsesAs(s, d) ==
    /\ Len(s) = 19
    /\ \A i \in {5, 8} : s[i] = "-"
    /\ s[11] = "T" /\ s[14] = ":" /\ s[17] = ":"
    /\ \A i \in DOMAIN s \ {5, 8, 11, 14, 17} : s[i] \in ToSet(DigitChars)
    /\ DigitsValue(SubSeq(s, 1, 4)) = d.year
    /\ DigitsValue(SubSeq(s, 6, 7)) = d.month + 1
    /\ DigitsValue(SubSeq(s, 9, 10)) = d.date
    /\ DigitsValue(SubSeq(s, 12, 13)) = d.hours
    /\ DigitsValue(SubSeq(s, 15, 16)) = d.minutes
    /\ DigitsValue(SubSeq(s, 18, 19)) = d.seconds

\* The default "from" and "to" filled in by setDefaultDates are valid
\* datetime-local values that denote the Date they were written from:
\* month shifted from getMonth's 0-based count, every field two digits.
DefaultDatesRoundTrip == x.kind = "date" => ParsesAs(ToLocal(x.v), x.v)

\* Spec: the UI page is served at <root>/logs/ui (a browser may add a
\* trailing slash), and the API lives under the same <root>.  Whatever the
\* root, even one that itself ends in /logs/ui, resolveApiBase yields the
\* origin followed by exactly that root, so `${API_BASE}/logs` reaches it.
ApiBaseIsRootPath ==
    x.kind = "base" =>
        LET page == x.v.root \o UiRoute \o (IF x.v.slash THEN <<"/">> ELSE <<>>)
        IN ResolveApiBase(page) = <<"origin">> \o x.v.root

\* Spec 4.4: all rendered text taken from the log is HTML-escaped.  The
\* method badge and the DB button's data-rid insert their value raw.
RenderedFieldsEscaped ==
    x.kind = "field" =>
        ShowsSafely(Inserted(x.v.site, x.v.t), Intended(x.v.site, x.v.t))
=============================================================================
