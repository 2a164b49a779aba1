------------------------------ MODULE SqlSplit -------------------------------
(***************************************************************************)
(* internal/sqlsplit: how a migration script is cut into statements, and   *)
(* what is refused before it comes to that.  The scanner of the code goes  *)
(* over the text character by character; SQL's own reading of it, in       *)
(* tokens, is stated next to it.                                           *)
(*                                                                         *)
(* A character is one of Quotes, [ ] - / * ; and "nl", " ", "x" for what   *)
(* stands in words, and "BEGIN" for that word.                             *)
(***************************************************************************)
EXTENDS Integers, Sequences, SequencesExt, FiniteSetsExt

Quotes == {"single", "double", "backtick"}
Blank == {" ", "nl"}
WordChars == {"x", "BEGIN"}
Chars == Quotes \cup Blank \cup WordChars \cup {"[", "]", "-", "/", "*", ";"}
CharAt(text, i) == IF i \in DOMAIN text THEN text[i] ELSE "end"

-----------------------------------------------------------------------------
(* The scanner.  A mode is what opened it; "normal" is outside of all.     *)

Scanner == [mode |-> "normal", skip |-> FALSE, cuts |-> {}, kept |-> << >>]

\* The mode a character begins in normal text.
Opened(ch, after) ==
    CASE ch \in Quotes \cup {"["} -> ch
      [] ch = "-" /\ after = "-" -> "--"
      [] ch = "/" /\ after = "*" -> "/*"
      [] OTHER -> "normal"

BugCloser(mode) == IF mode = "[" THEN "]" ELSE mode
\* What ends a mode, but a block comment, which takes two characters.
Closer(mode) == CASE mode = "[" -> "]" [] mode = "--" -> "nl" [] OTHER -> mode

\* A doubled quote stands for itself; two backticks close and open again.
Doubled(mode, ch, after) == mode \in {"single", "double"} /\ ch = mode /\ after = mode

\* One turn of the loops of Statements and of stripComments.  Only the latter
\* takes the two characters that open a comment together.
Scanned(s, ch, after, strip) ==
    LET mode == Opened(ch, after)
        closing == s.mode = "/*" /\ ch = "*" /\ after = "/"
    IN
    CASE s.skip -> [s EXCEPT !.skip = FALSE]
      [] ~s.skip /\ s.mode = "normal" ->
            [s EXCEPT !.mode = mode,
                      !.skip = strip /\ mode \in {"--", "/*"},
                      !.kept = Append(@, IF mode = "normal" THEN ch ELSE " ")]
      [] ~s.skip /\ s.mode # "normal" /\ (closing \/ Doubled(s.mode, ch, after)) ->
            [s EXCEPT !.skip = TRUE, !.mode = IF closing THEN "normal" ELSE @]
      [] OTHER ->
            IF s.mode = "/*" \/ ch # Closer(s.mode) THEN s
            ELSE [s EXCEPT !.mode = "normal",
                           !.kept = IF s.mode = "--" THEN Append(@, "nl") ELSE @]

\* A semicolon in normal text ends a statement.
Cut(s, i, ch) ==
    IF ch = ";" /\ s.mode = "normal" /\ ~s.skip THEN [s EXCEPT !.cuts = @ \cup {i}] ELSE s

Turn(s, text, i, strip) == Scanned(Cut(s, i, text[i]), text[i], CharAt(text, i + 1), strip)
Scan(text, strip) ==
    LET state[i \in 0..Len(text)] ==
            IF i = 0 THEN Scanner ELSE Turn(state[i - 1], text, i, strip)
    IN  state[Len(text)]

StripComments(text) == Scan(text, TRUE).kept

HasExecutableSQL(text) == \E k \in DOMAIN StripComments(text) : StripComments(text)[k] \notin Blank

\* The text between the cut before a place and that place, and such texts in order.
Piece(text, cuts, end) == SubSeq(text, Max({0} \cup {i \in cuts : i < end}) + 1, end - 1)
Pieces(text, cuts, ends) ==
    LET order == SetToSortSeq(ends, <)
    IN  [k \in DOMAIN order |-> Piece(text, cuts, order[k])]

Statements(text) ==
    LET cuts == Scan(text, FALSE).cuts
    IN  Pieces(text, cuts,
               {j \in cuts \cup {Len(text) + 1} : HasExecutableSQL(Piece(text, cuts, j))})

StandsAlone(text, k) ==
    text[k] = "BEGIN" /\ {CharAt(text, k - 1), CharAt(text, k + 1)} \cap WordChars = {}

BareBegin(text) ==
    \E k \in DOMAIN StripComments(text) : StandsAlone(StripComments(text), k)

-----------------------------------------------------------------------------
(* The same as SQL has it.                                                 *)

Count(text, ch, from, to) == Cardinality({k \in from..to : text[k] = ch})

\* The places where the token that begins at i may end.
Ends(text, i) ==
    LET last == Len(text)
        ch == text[i]
        pair == <<ch, CharAt(text, i + 1)>>
    IN
    CASE ch \in Quotes ->
            {j \in i + 1..last : /\ text[j] = ch /\ CharAt(text, j + 1) # ch
                                 /\ Count(text, ch, i, j) % 2 = 0}
      [] ch = "[" -> {j \in i + 1..last : text[j] = "]"}
      [] pair = <<"-", "-">> -> {j \in i + 2..last : text[j] = "nl"}
      [] pair = <<"/", "*">> -> {j \in i + 3..last : text[j] = "/" /\ text[j - 1] = "*"}
      [] OTHER -> {i}

\* A token that is not ended goes on to the end of the text.
EndOf(text, i) == Min(Ends(text, i) \cup {Len(text)})

\* Where the tokens of a text begin.
Tokens(text) ==
    LET upTo[i \in 0..Len(text)] ==
            IF i = 0 THEN {}
            ELSE IF i = 1 \/ \E k \in upTo[i - 1] : EndOf(text, k) = i - 1
                 THEN upTo[i - 1] \cup {i}
                 ELSE upTo[i - 1]
    IN  upTo[Len(text)]

Plain(text, i) == text[i] \notin Quotes \cup {"["} /\ Opened(text[i], CharAt(text, i + 1)) = "normal"

Executable(text) == \E i \in Tokens(text) : Plain(text, i) /\ text[i] \notin Blank

SqlStatements(text) ==
    LET cuts == {i \in Tokens(text) : text[i] = ";"}
    IN  Pieces(text, cuts,
               {j \in cuts \cup {Len(text) + 1} : Executable(Piece(text, cuts, j))})

SqlBegin(text) == \E i \in Tokens(text) : StandsAlone(text, i)

\* Statements takes the star that opens a comment for one that may close it.
ShortComment(text) ==
    \E i \in Tokens(text) :
        text[i] = "/" /\ CharAt(text, i + 1) = "*" /\ CharAt(text, i + 2) = "/"
=============================================================================
