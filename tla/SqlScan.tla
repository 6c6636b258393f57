-------------------------------- MODULE SqlScan -------------------------------
(***************************************************************************)
(* How a migration file is cut into statements: a scanner that goes over   *)
(* the characters once, keeping track of literals, comments that nest and  *)
(* dollar quotes, and keeps beside the statements the code outside them,   *)
(* in which the word CONCURRENTLY is looked for. It is compared with a     *)
(* definition by tokens on every text over small alphabets. A character is *)
(* one of the strings below: "q" and "d" are the two quotes, "a" stands    *)
(* for any letter, "n" for the end of a line.                              *)
(***************************************************************************)
EXTENDS Integers, Sequences

CONSTANTS
    SqlTexts   \* the texts that are scanned

VARIABLES
    sqlText,   \* the file
    sqlScan    \* what the scanner made of it, or NoScan

sqlVars == <<sqlText, sqlScan>>
NoScan == [statements |-> <<>>, code |-> {0}]

CharAt(s, i) == IF i <= Len(s) THEN s[i] ELSE "end"
Smallest(S) == CHOOSE x \in S : \A y \in S : x <= y

\* The delimiter that opens at i, as the place of its second dollar sign, or 0.
dollar_quote_delimiter(s, i) ==
    LET ends == {k \in (i + 1) .. Len(s) : s[k] = "$"} IN
    IF ends # {} /\ \A k \in (i + 1) .. (Smallest(ends) - 1) : s[k] = "a" THEN Smallest(ends) ELSE 0

\* The scanner: where it is, its state, where the statement began, the statements and the
\* places of code so far. A statement of which all code is blank is left out.
push_statement(sc, to) ==
    IF \E i \in sc.code : sc.start <= i /\ i <= to THEN Append(sc.statements, <<sc.start, to>>) ELSE sc.statements

Turns(sc, mode, width) == [sc EXCEPT !.mode = mode, !.at = @ + width]

ScanNormal(s, sc) ==
    LET i == sc.at  c == s[i]  following == CharAt(s, i + 1) IN
    IF c = "q" THEN Turns(sc, "single", 1)
    ELSE IF c = "d" THEN Turns(sc, "double", 1)
    ELSE IF c = "-" /\ following = "-" THEN Turns(sc, "line", 2)
    ELSE IF c = "/" /\ following = "*" THEN [Turns(sc, "block", 2) EXCEPT !.depth = 1]
    ELSE IF c = "$" /\ dollar_quote_delimiter(s, i) # 0
         THEN [Turns(sc, "dollar", dollar_quote_delimiter(s, i) - i + 1) EXCEPT
                 !.delimiter = SubSeq(s, i, dollar_quote_delimiter(s, i))]
    ELSE IF c = ";" THEN [Turns(sc, "normal", 1) EXCEPT !.statements = push_statement(sc, i - 1), !.start = i + 1]
    ELSE [Turns(sc, "normal", 1) EXCEPT !.code = IF c = "n" THEN @ ELSE @ \cup {i}]

\* A quote that is doubled stays in the literal.
ScanQuote(s, sc, quote) ==
    IF s[sc.at] # quote THEN Turns(sc, sc.mode, 1)
    ELSE IF CharAt(s, sc.at + 1) = quote THEN Turns(sc, sc.mode, 2)
    ELSE Turns(sc, "normal", 1)

\* Comments nest.
CloseComment(depth) == IF depth = 1 THEN "normal" ELSE "block"

ScanBlock(s, sc) ==
    IF s[sc.at] = "/" /\ CharAt(s, sc.at + 1) = "*" THEN [Turns(sc, "block", 2) EXCEPT !.depth = @ + 1]
    ELSE IF s[sc.at] = "*" /\ CharAt(s, sc.at + 1) = "/"
         THEN [Turns(sc, CloseComment(sc.depth), 2) EXCEPT !.depth = @ - 1]
    ELSE Turns(sc, "block", 1)

StartsWith(s, i, d) == i + Len(d) - 1 <= Len(s) /\ SubSeq(s, i, i + Len(d) - 1) = d

ScanStep(s, sc) ==
    CASE sc.mode = "normal" -> ScanNormal(s, sc)
      [] sc.mode = "single" -> ScanQuote(s, sc, "q")
      [] sc.mode = "double" -> ScanQuote(s, sc, "d")
      [] sc.mode = "line" -> Turns(sc, IF s[sc.at] = "n" THEN "normal" ELSE "line", 1)
      [] sc.mode = "block" -> ScanBlock(s, sc)
      [] OTHER -> IF StartsWith(s, sc.at, sc.delimiter) THEN Turns(sc, "normal", Len(sc.delimiter)) ELSE Turns(sc, "dollar", 1)

RECURSIVE ScanFrom(_, _)
ScanFrom(s, sc) == IF sc.at > Len(s) THEN sc ELSE ScanFrom(s, ScanStep(s, sc))

scan_sql(s) ==
    LET sc == ScanFrom(s, [at |-> 1, mode |-> "normal", depth |-> 0, delimiter |-> <<>>, start |-> 1,
                           statements |-> <<>>, code |-> {}])
    IN [statements |-> push_statement(sc, Len(s)), code |-> sc.code]

SqlInit == sqlText \in SqlTexts /\ sqlScan = NoScan

sql_statements ==
    /\ sqlScan = NoScan
    /\ sqlScan' = scan_sql(sqlText)
    /\ UNCHANGED sqlText

SqlNext == sql_statements

-----------------------------------------------------------------------------
(* The reference: the text is a sequence of tokens, and a statement ends   *)
(* at a token that is a semicolon.                                         *)

\* Where the first of some places is, or the end of the text.
FirstOf(s, S) == IF S = {} THEN Len(s) ELSE Smallest(S)

\* The end of a comment that opened before i and is depth deep there.
RECURSIVE CommentEnd(_, _, _)
CommentEnd(s, i, depth) ==
    LET marks == {j \in i .. (Len(s) - 1) : <<s[j], s[j + 1]>> \in {<<"/", "*">>, <<"*", "/">>}} IN
    IF depth = 0 THEN i - 1
    ELSE IF marks = {} THEN Len(s)
    ELSE CommentEnd(s, Smallest(marks) + 2, IF s[Smallest(marks)] = "/" THEN depth + 1 ELSE depth - 1)

\* The last character of the token that begins at i. A doubled quote is the end of a literal
\* and the beginning of the next.
TokenEnd(s, i) ==
    LET two == <<s[i], CharAt(s, i + 1)>>  k == dollar_quote_delimiter(s, i) IN
    IF s[i] \in {"q", "d"} THEN FirstOf(s, {j \in (i + 1) .. Len(s) : s[j] = s[i]})
    ELSE IF two = <<"-", "-">> THEN FirstOf(s, {j \in (i + 2) .. Len(s) : s[j] = "n"})
    ELSE IF two = <<"/", "*">> THEN CommentEnd(s, i + 2, 1)
    ELSE IF s[i] = "$" /\ k # 0
         THEN FirstOf(s, {j + k - i : j \in {m \in (k + 1) .. Len(s) : StartsWith(s, m, SubSeq(s, i, k))}})
    ELSE i

RECURSIVE TokenStarts(_, _)
TokenStarts(s, i) == IF i > Len(s) THEN {} ELSE {i} \cup TokenStarts(s, TokenEnd(s, i) + 1)

\* The tokens of one character that are neither blank nor quoting.
Plain(s) == {i \in TokenStarts(s, 1) : TokenEnd(s, i) = i /\ s[i] \notin {"n", ";", "q", "d"} /\ <<s[i], CharAt(s, i + 1)>> # <<"-", "-">>}
Terminators(s) == {i \in TokenStarts(s, 1) : s[i] = ";"}

\* The scanner cuts the file at the semicolons that are tokens, leaves out what has no code,
\* and takes for code exactly the characters outside literals and comments.
SplitsAtTerminators ==
    sqlScan # NoScan =>
        LET cuts == {0} \cup Terminators(sqlText) \cup {Len(sqlText) + 1}
            pieces == {<<a + 1, b - 1>> : <<a, b>> \in {x \in cuts \X cuts : x[1] < x[2] /\ \A c \in cuts : ~(x[1] < c /\ c < x[2])}}
            wanted == {p \in pieces : \E i \in Plain(sqlText) : p[1] <= i /\ i <= p[2]}
        IN /\ {sqlScan.statements[i] : i \in DOMAIN sqlScan.statements} = wanted
           /\ \A i, j \in DOMAIN sqlScan.statements : i < j => sqlScan.statements[i][1] < sqlScan.statements[j][1]
           /\ sqlScan.code = Plain(sqlText)
=============================================================================
