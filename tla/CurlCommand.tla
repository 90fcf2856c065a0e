---------------------------- MODULE CurlCommand ----------------------------
(***************************************************************************)
(* buildCurlCommand of src/app/static/js/logs.js: the "Copy cURL" text of *)
(* the drawer.  Texts are sequences of one-character strings.  The check  *)
(* splits the built command into words as a POSIX shell does (single      *)
(* quotes, backslash escapes, backslash-newline continuations) and         *)
(* compares them with the arguments the command is meant to pass.         *)
(*                                                                         *)
(* The method and the URL are fixed one-letter texts; the request header  *)
(* value and the body, both taken from the logged request, range over all *)
(* short texts.  The body stands for the text after the JSON minify step. *)
(***************************************************************************)
EXTENDS Naturals, Sequences, SequencesExt

CONSTANTS
    HeaderChars,  \* characters of the logged header value
    BodyChars,    \* characters of the logged request body
    MaxLen        \* longest header value and body

VARIABLE x   \* the logged request under check: [hv, body]

Q  == "'"
BS == "\\"
NL == "\n"
SP == " "

Method == <<"G">>
Url    == <<"u">>
HKey   == <<"k">>

\* parts[0]: curl -X ${method} '${fullUrl}${qp}'
CurlPart == <<"c", "u", "r", "l", SP, "-", "X", SP>> \o Method \o
            <<SP, Q>> \o Url \o <<Q>>

\*   -H '${k}: ${v}'
HeaderPart(v) == <<SP, SP, "-", "H", SP, Q>> \o HKey \o <<":", SP>> \o v \o <<Q>>

\* Mutation: the quote escaped as \' inside the single-quoted word.
BodyPartBackslash(b) ==
    <<SP, SP, "-", "d", SP, Q>> \o
    FlattenSeq([i \in DOMAIN b |-> IF b[i] = Q THEN <<BS, Q>> ELSE <<b[i]>>]) \o <<Q>>

\*   -d '${body.replace(/'/g, "'\\''")}'
BodyPart(b) ==
    <<SP, SP, "-", "d", SP, Q>> \o
    FlattenSeq([i \in DOMAIN b |-> IF b[i] = Q THEN <<Q, BS, Q, Q>> ELSE <<b[i]>>]) \o <<Q>>

\* parts.join(" \\\n"); the -d part only when request_body is non-empty.
BuildCurlCommand(hv, body) ==
    LET parts == <<CurlPart, HeaderPart(hv)>> \o
                 (IF body # <<>> THEN <<BodyPart(body)>> ELSE <<>>)
        sep == <<SP, BS, NL>>
    IN FlattenSeq([i \in DOMAIN parts |->
                     IF i = 1 THEN parts[i] ELSE sep \o parts[i]])

-----------------------------------------------------------------------------
(***************************************************************************)
(* Word splitting of a POSIX shell, for one command line: outside quotes  *)
(* blanks separate words, a quote opens a single-quoted string, a         *)
(* backslash quotes the next character and removes a following newline,   *)
(* and an unquoted newline ends the command.  Result: [ok, words].         *)
(***************************************************************************)
RECURSIVE Lex(_, _, _, _, _)
Lex(s, quoted, word, started, words) ==
    LET flush == IF started THEN Append(words, word) ELSE words IN
    IF s = <<>>
    THEN [ok |-> ~quoted, words |-> flush]
    ELSE LET ch == Head(s) IN
         IF quoted
         THEN IF ch = Q THEN Lex(Tail(s), FALSE, word, TRUE, words)
              ELSE Lex(Tail(s), TRUE, Append(word, ch), TRUE, words)
         ELSE CASE ch = Q -> Lex(Tail(s), TRUE, word, TRUE, words)
                [] ch = BS /\ Len(s) >= 2 /\ s[2] = NL ->
                       Lex(Tail(Tail(s)), FALSE, word, started, words)
                [] ch = BS /\ Len(s) >= 2 ->
                       Lex(Tail(Tail(s)), FALSE, Append(word, s[2]), TRUE, words)
                [] ch = SP -> Lex(Tail(s), FALSE, <<>>, FALSE, flush)
                [] ch = NL -> [ok |-> FALSE, words |-> flush]
                [] OTHER -> Lex(Tail(s), FALSE, Append(word, ch), TRUE, words)

ShellWords(cmd) == Lex(cmd, FALSE, <<>>, FALSE, <<>>)

\* The arguments the copied command is meant to pass to curl.
Intended(hv, body) ==
    <<<<"c", "u", "r", "l">>, <<"-", "X">>, Method, Url,
      <<"-", "H">>, HKey \o <<":", SP>> \o hv>> \o
    (IF body # <<>> THEN <<<<"-", "d">>, body>> ELSE <<>>)

-----------------------------------------------------------------------------
TextsOver(chars) == UNION {[1..n -> chars] : n \in 0..MaxLen}

Init == x \in [hv : TextsOver(HeaderChars), body : TextsOver(BodyChars)]

\* buildCurlCommand is pure: nothing changes once the request is chosen.
Next == UNCHANGED x

Spec == Init /\ [][Next]_x

\* Pasting the copied command into a shell runs curl with exactly the
\* logged method, URL, header and body: quotes, backslashes, blanks and
\* newlines in the logged texts survive the quoting of buildCurlCommand.
CurlArgumentsIntact ==
    ShellWords(BuildCurlCommand(x.hv, x.body)) = [ok |-> TRUE, words |-> Intended(x.hv, x.body)]
=============================================================================
