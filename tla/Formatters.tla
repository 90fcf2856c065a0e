----------------------------- MODULE Formatters -----------------------------
(***************************************************************************)
(* The pure helpers of src/app/static/js/logs.js that decide what the grid *)
(* and the drawer show: statusClass (row colour and status badge),         *)
(* markDayBoundaries (the day separator rows) and escapeHtml (every text   *)
(* field of the drawer and the popup).  Each is an operator; the state    *)
(* machine only picks one input and keeps it, so that TLC checks the      *)
(* operator against its reference definition on every input of a bounded  *)
(* domain.  statusClass is only translated: its one disagreement with the *)
(* spec (codes from 600 on) is a single guard, noted in the README.       *)
(***************************************************************************)
EXTENDS Integers, Sequences, SequencesExt

CONSTANTS
    Days,         \* local calendar days (toDateString values)
    NoTs,         \* an item whose ts is missing
    MaxItems,     \* longest page given to markDayBoundaries
    TextChars,    \* characters of the texts given to escapeHtml
    MaxText       \* longest text given to escapeHtml

ASSUME NoTs \notin Days

VARIABLE x   \* the input under check: [kind, v]

(***************************************************************************)
(* statusClass(code)                                                       *)
(***************************************************************************)
StatusClass(code) ==
    CASE code >= 200 /\ code < 300 -> "2xx"
      [] code >= 300 /\ code < 400 -> "3xx"
      [] code >= 400 /\ code < 500 -> "4xx"
      [] code >= 500               -> "5xx"
      [] OTHER                     -> ""

(***************************************************************************)
(* markDayBoundaries(items): the day of each item (NoTs when item.ts is   *)
(* falsy) in page order; the result is the sequence of _isNewDay flags.   *)
(* prevDay starts as null and follows the last item that had a ts.        *)
(***************************************************************************)
NoDay == "null"

RECURSIVE Mark(_, _)
Mark(items, prevDay) ==
    IF items = <<>> THEN <<>>
    ELSE LET day == Head(items) IN
         IF day = NoTs
         THEN <<FALSE>> \o Mark(Tail(items), prevDay)
         ELSE <<prevDay # NoDay /\ day # prevDay>> \o Mark(Tail(items), day)

\* Mutation: without `if (!item.ts) continue`, new Date(undefined) gives
\* the day "Invalid Date", which is compared and remembered like any other.
MarkDayBoundariesNoSkip(items) ==
    LET RECURSIVE M(_, _)
        M(s, prev) ==
            IF s = <<>> THEN <<>>
            ELSE <<prev # NoDay /\ Head(s) # prev>> \o M(Tail(s), Head(s))
    IN M(items, NoDay)

MarkDayBoundaries(items) == Mark(items, NoDay)

(***************************************************************************)
(* escapeHtml(str): four global replacements, applied in this order.      *)
(* Texts are sequences of one-character strings.                          *)
(***************************************************************************)
Amp  == <<"&", "a", "m", "p", ";">>
Lt   == <<"&", "l", "t", ";">>
Gt   == <<"&", "g", "t", ";">>
Quot == <<"&", "q", "u", "o", "t", ";">>

\* str.replace(/c/g, ent)
ReplaceChar(s, c, ent) ==
    FlattenSeq([i \in DOMAIN s |-> IF s[i] = c THEN ent ELSE <<s[i]>>])

\* Mutation: "&" replaced last, so the entities just inserted are escaped
\* a second time.
EscapeHtmlAmpLast(s) ==
    ReplaceChar(ReplaceChar(ReplaceChar(ReplaceChar(s, "<", Lt), ">", Gt),
                            "\"", Quot), "&", Amp)

EscapeHtml(s) ==
    ReplaceChar(ReplaceChar(ReplaceChar(ReplaceChar(s, "&", Amp), "<", Lt),
                            ">", Gt), "\"", Quot)

-----------------------------------------------------------------------------
Texts == UNION {[1..n -> TextChars] : n \in 0..MaxText}

Pages == UNION {[1..n -> Days \cup {NoTs}] : n \in 0..MaxItems}

Inputs ==
    [kind : {"days"}, v : Pages] \cup
    [kind : {"text"}, v : Texts]

Init == x \in Inputs

\* The operators are pure: nothing changes once the input is chosen.
Next == UNCHANGED x

Spec == Init /\ [][Next]_x

(***************************************************************************)
(* Reference definitions, from the spec and the HTML standard.             *)
(***************************************************************************)

\* Spec 8: flagged are exactly the entries whose day differs from the one
\* before them, the first excluded; an item without ts has no day and is
\* neither flagged nor compared with.
SpecDayFlags(days) ==
    [i \in DOMAIN days |-> i > 1 /\ days[i] # days[i - 1]]

Dated(items) == SelectSeq(items, LAMBDA d : d # NoTs)

\* The character references an HTML parser decodes in text content.
RECURSIVE Decode(_)
Decode(s) ==
    IF s = <<>> THEN <<>>
    ELSE CASE IsPrefix(Amp, s)  -> <<"&">>  \o Decode(SubSeq(s, 6, Len(s)))
           [] IsPrefix(Lt, s)   -> <<"<">>  \o Decode(SubSeq(s, 5, Len(s)))
           [] IsPrefix(Gt, s)   -> <<">">>  \o Decode(SubSeq(s, 5, Len(s)))
           [] IsPrefix(Quot, s) -> <<"\"">> \o Decode(SubSeq(s, 7, Len(s)))
           [] OTHER             -> <<Head(s)>> \o Decode(Tail(s))

\* Day separators sit exactly where the calendar day changes between two
\* consecutive dated rows of the page; rows without ts never carry one and
\* do not hide a change between the rows around them.
DayBoundariesMatchSpec ==
    x.kind = "days" =>
        LET flags == MarkDayBoundaries(x.v) IN
        /\ \A i \in DOMAIN x.v : x.v[i] = NoTs => ~flags[i]
        /\ LET datedFlags == [k \in 1..Len(Dated(x.v)) |->
                               flags[CHOOSE i \in DOMAIN x.v :
                                       x.v[i] # NoTs /\
                                       Len(Dated(SubSeq(x.v, 1, i))) = k]]
           IN datedFlags = SpecDayFlags(Dated(x.v))

\* The browser shows escaped text as the original text, and no escaped
\* text contains a character that opens markup or ends an attribute.
EscapeHtmlRoundTrip ==
    x.kind = "text" =>
        LET out == EscapeHtml(x.v) IN
        /\ Decode(out) = x.v
        /\ \A i \in DOMAIN out : out[i] \notin {"<", ">", "\""}
=============================================================================
