------------------------------ MODULE SqlText ------------------------------
(***************************************************************************)
(* What sql.rs reads from the text of a write: the words of its header,    *)
(* the table they name, the lane of that table, whether the text is one    *)
(* complete statement, and the rates of a match row.  A text is a sequence *)
(* of symbols.  A symbol is a punctuation byte the code looks at, a blank, *)
(* or a piece of a word: two neighbouring pieces make one longer word.     *)
(* The two quotes ' and " are handled alike and share the symbol quote.    *)
(*                                                                         *)
(* The scanners below jump from position to position as the code does.     *)
(* The section "Reading one symbol at a time" is the reference they are    *)
(* compared with: a finite automaton that knows nothing of those jumps.    *)
(***************************************************************************)
EXTENDS Integers, Sequences, SequencesExt, FiniteSetsExt

CONSTANTS
    Pieces,     \* the short texts free text is made of
    MaxPieces,  \* bound on their number
    Statements, \* headers free text is put into: [lead : text, table : word]
    Values,     \* per column of a match row: the value expressions, as texts
    IntOf,      \* the integers: what i64::parse makes of these texts
    MaxRate     \* MAX_LOG_DAMAGE_PER_MINUTE

\* What a text is made of; "end" stands for the place behind its last symbol.
Symbols == STRING \ {"end"}

ASSUME SqlTextAssumption ==
    /\ MaxRate \in Nat /\ MaxPieces \in Nat
    /\ Pieces \subseteq Seq(Symbols)

VARIABLES
    text,   \* free text, placed into statements by the properties
    pieces, \* how many pieces it consists of
    row     \* the columns a match row names so far, with their values

textVars == <<text, pieces, row>>

White == {" ", "nl"}

Punctuation == White \cup {"quote", "backquote", "backslash", "#", "-", "/",
                           "*", "!", ";", ".", ",", "(", ")", "nul"}

At(t, i) == IF i \in DOMAIN t THEN t[i] ELSE "end"

\* The first position from i on that satisfies Test, or the one after the text.
FirstFrom(t, i, Test(_)) == Min({p \in i .. Len(t) : Test(p)} \cup {Len(t) + 1})

----------------------------------------------------------------------------
(* Comments and quotes                                                     *)

\* Defect variant of LineComment: "#" is no comment.
DashesOnly(t, i) ==
    At(t, i) = "-" /\ At(t, i + 1) = "-" /\ At(t, i + 2) \in White

LineComment(t, i) ==
    \/ At(t, i) = "#"
    \/ At(t, i) = "-" /\ At(t, i + 1) = "-" /\ At(t, i + 2) \in White

BlockComment(t, i) == At(t, i) = "/" /\ At(t, i + 1) = "*"

AfterLine(t, i) == FirstFrom(t, i, LAMBDA p : t[p] = "nl")

\* Defect variant of EndOfBlock: the star that opens also closes.
EndOfOverlap(t, i) ==
    FirstFrom(t, i + 1, LAMBDA p : t[p] = "*" /\ At(t, p + 1) = "/")

EndOfBlock(t, i) ==
    FirstFrom(t, i + 2, LAMBDA p : t[p] = "*" /\ At(t, p + 1) = "/")

AfterBlock(t, i) == Min({EndOfBlock(t, i) + 2, Len(t) + 1})

Unclosed(t) == Len(t) + 2

\* The position after the quote that closes the one at i.  A backslash takes
\* the next byte with it (not between backquotes), a doubled quote stays inside.
AfterQuote(t, i) ==
    LET close[p \in 1 .. Len(t) + 1] ==
          CASE p > Len(t)                       -> Unclosed(t)
            [] p <= Len(t) /\ t[p] = "backslash" /\ t[i] # "backquote"
                                                -> close[Min({p + 2, Len(t) + 1})]
            [] p <= Len(t) /\ t[p] = t[i]       ->
                 IF At(t, p + 1) = t[i] THEN close[p + 2] ELSE p + 1
            [] OTHER                            -> close[p + 1]
    IN  close[i + 1]

----------------------------------------------------------------------------
(* The header and the table it names                                       *)

MaxTokens == 32

Literal == <<"<literal>">>

\* head_tokens: words, quoted names, literals and dots up to the first "(".
HeadTokens(t) ==
    LET from[i \in 1 .. Len(t) + 1] ==
          CASE At(t, i) \in {"end", "("} -> <<>>
            [] LineComment(t, i)  -> from[AfterLine(t, i)]
            [] BlockComment(t, i) -> from[AfterBlock(t, i)]
            [] At(t, i) = "quote" ->
                 <<Literal>> \o from[Min({AfterQuote(t, i), Len(t) + 1})]
            [] At(t, i) = "backquote" ->
                 LET close == FirstFrom(t, i + 1, LAMBDA p : t[p] = "backquote")
                 IN  <<SubSeq(t, i + 1, close - 1)>>
                       \o from[Min({close + 1, Len(t) + 1})]
            [] At(t, i) \notin Punctuation \cup {"end"} ->
                 LET end == FirstFrom(t, i, LAMBDA p : t[p] \in Punctuation)
                 IN  <<SubSeq(t, i, end - 1)>> \o from[end]
            [] At(t, i) = "." -> <<<<".">>>> \o from[i + 1]
            [] OTHER -> from[i + 1]
        all == from[1]
    IN  SubSeq(all, 1, Min({MaxTokens, Len(all)}))

NoTable == <<"<none>">>

Word(words, k) == IF k \in DOMAIN words THEN words[k] ELSE NoTable

Position(words, w) == {k \in DOMAIN words : words[k] = <<w>>}

Modifiers == {<<w>> : w \in {"if", "not", "exists", "low_priority", "ignore"}}

\* Where the search for the table begins; 0 when the statement has none.
TableIndex(words) ==
    LET first == Word(words, 1)
        after(w, otherwise) == IF Position(words, w) = {} THEN otherwise
                               ELSE Min(Position(words, w)) + 1
    IN  CASE first \in {<<"insert">>, <<"replace">>} -> after("into", 2)
          [] first = <<"update">> -> 2
          [] first = <<"delete">> -> after("from", 0)
          [] first \in {<<"alter">>, <<"truncate">>} ->
               IF Word(words, 2) = <<"table">> THEN 3 ELSE 2
          [] first \in {<<"create">>, <<"drop">>} -> after("table", after("on", 0))
          [] OTHER -> 0

\* target_table_from_tokens
TargetTable(words) ==
    LET start == TableIndex(words)
        name  == FirstFrom(words, start, LAMBDA k : words[k] \notin Modifiers)
    IN  IF start = 0 THEN NoTable
        ELSE IF Word(words, name + 1) = <<".">> THEN Word(words, name + 2)
        ELSE Word(words, name)

\* Defect variant of LaneForTable: the rows of a match and their marker part.
LaneOfLogsAlone(table) ==
    IF table = <<"whaletracker_logs">> THEN "stats" ELSE "logs"

LaneForTable(table) ==
    IF table \in {<<"whaletracker_online">>, <<"whaletracker_online_meta">>,
                  <<"whaletracker_servers">>} THEN "online"
    ELSE IF table \in {<<"whaletracker">>, <<"whaletracker_points_cache">>,
                       <<"whaletracker_points_cache_state">>,
                       <<"whaletracker_points_cache_build">>} THEN "stats"
    ELSE "logs"

Marker == <<"/", "*", "wt_points_cache_finalize", "*", "/">>

InvalidatesTable(t, table) ==
    /\ Marker \in {SubSeq(t, i, i + Len(Marker) - 1) :
                     i \in {FirstFrom(t, 1, LAMBDA p : t[p] \notin White)}}
    /\ table = <<"whaletracker_logs">>

----------------------------------------------------------------------------
(* One complete statement                                                  *)

\* validate_single_statement: "ok", or what it refuses.
Verdict(t) ==
    LET scan[i \in 1 .. Len(t) + 1] == [ended \in BOOLEAN |->
          CASE At(t, i) = "end"      -> "ok"
            [] At(t, i) = "nul"      -> "nul"
            [] At(t, i) \in White    -> scan[i + 1][ended]
            [] LineComment(t, i)     -> scan[AfterLine(t, i)][ended]
            [] BlockComment(t, i)    ->
                 IF At(t, i + 2) = "!" THEN "executable"
                 ELSE IF EndOfBlock(t, i) > Len(t) THEN "open comment"
                 ELSE scan[AfterBlock(t, i)][ended]
            [] OTHER ->
                 IF ended THEN "two statements"
                 ELSE IF t[i] = ";" THEN scan[i + 1][TRUE]
                 ELSE IF t[i] \notin {"quote", "backquote"} THEN scan[i + 1][FALSE]
                 ELSE IF AfterQuote(t, i) = Unclosed(t) THEN "open quote"
                 ELSE scan[AfterQuote(t, i)][FALSE]]
    IN  scan[1][FALSE]

ScanStatement(t) == Verdict(t) = "ok"

----------------------------------------------------------------------------
(* The rates of a match row                                                *)

\* One symbol of matching_paren and split_list: inside quotes or not, and how
\* deep in parentheses.
Nest(n, c) ==
    IF n.quote
    THEN [n EXCEPT !.escaped = ~n.escaped /\ c = "backslash",
                   !.quote = n.escaped \/ c # "quote"]
    ELSE [n EXCEPT !.quote = c = "quote",
                   !.depth = @ + (IF c = "(" THEN 1 ELSE 0)
                               - (IF c = ")" THEN 1 ELSE 0)]

\* The nesting after each position of t from position start on.
Nesting(t, start) ==
    LET after[p \in start - 1 .. Len(t)] ==
          IF p < start THEN [quote |-> FALSE, escaped |-> FALSE, depth |-> 0]
          ELSE Nest(after[p - 1], t[p])
    IN  after

\* matching_paren; the position after the text when there is none.
MatchingParen(t, open) ==
    LET n == Nesting(t, open)
    IN  FirstFrom(t, open, LAMBDA p : /\ t[p] = ")"
                                      /\ n[p].depth = 0
                                      /\ ~n[p].quote)

\* Defect variant of Cuts: a comma separates wherever it stands.
EveryComma(t) == {p \in DOMAIN t : t[p] = ","}

Cuts(t) ==
    LET n == Nesting(t, 1)
    IN  {p \in DOMAIN t : t[p] = "," /\ n[p].depth = 0 /\ ~n[p].quote}

\* str::trim and trim_matches
Trim(t, S) ==
    LET kept == {p \in DOMAIN t : t[p] \notin S}
    IN  IF kept = {} THEN <<>> ELSE SubSeq(t, Min(kept), Max(kept))

SplitList(t) ==
    LET ends == SetToSortSeq(Cuts(t) \cup {Len(t) + 1}, <)
        start(k) == IF k = 1 THEN 1 ELSE ends[k - 1] + 1
    IN  [k \in DOMAIN ends |-> Trim(SubSeq(t, start(k), ends[k] - 1), White)]

\* parse_insert_columns_values: {} for None, else {<<columns, values>>}.
ParseInsert(t, first) ==
    LET open    == FirstFrom(t, 1, LAMBDA p : t[p] = "(")
        close   == MatchingParen(t, open)
        valuesAt == FirstFrom(t, close + 1, LAMBDA p : t[p] = "values")
        vOpen   == FirstFrom(t, valuesAt, LAMBDA p : t[p] = "(")
        vClose  == MatchingParen(t, vOpen)
        listed  == SplitList(SubSeq(t, open + 1, close - 1))
        columns == [k \in DOMAIN listed |-> Trim(listed[k], White \cup {"backquote"})]
        values  == SplitList(SubSeq(t, vOpen + 1, vClose - 1))
    IN  IF /\ first \in {<<"insert">>, <<"replace">>}
           /\ vClose <= Len(t)
           /\ Len(columns) = Len(values)
        THEN {<<columns, values>>}
        ELSE {}

\* int_column: {} for None.
IntColumn(columns, values, name) ==
    LET at == FirstFrom(columns, 1, LAMBDA k : columns[k] = <<name>>)
    IN  IF at > Len(columns) THEN {}
        ELSE IF values[at] = <<"null">> THEN {0}
        ELSE {IntOf[v] : v \in {Trim(values[at], {"quote"})} \cap DOMAIN IntOf}

\* is_log_rate_plausible, without the division
RatePlausible(amount, playtime) ==
    /\ amount >= 0
    /\ playtime >= 0
    /\ amount = 0 \/ (playtime > 0 /\ amount * 60 <= MaxRate * playtime)

\* validate_log_player_write; TRUE when it returns Ok.
ValidLogPlayer(t, first) ==
    \A parsed \in ParseInsert(t, first) :
      \E damage   \in IntColumn(parsed[1], parsed[2], "damage"),
         taken    \in IntColumn(parsed[1], parsed[2], "damage_taken"),
         playtime \in IntColumn(parsed[1], parsed[2], "playtime") :
        RatePlausible(damage, playtime) /\ RatePlausible(taken, playtime)

----------------------------------------------------------------------------
(* Classification                                                          *)

TemporaryTable(words) ==
    /\ Word(words, 1) \in {<<"create">>, <<"drop">>}
    /\ Word(words, 2) = <<"temporary">>

\* validate_and_classify; TRUE when it returns Ok.
Accepts(t) ==
    LET head  == HeadTokens(t)
        table == TargetTable(head)
    IN  /\ Trim(t, White) # <<>>
        /\ table # NoTable
        /\ ~TemporaryTable(head)
        /\ ScanStatement(t)
        /\ table = <<"whaletracker_log_players">> =>
             ValidLogPlayer(t, Word(head, 1))

LaneFor(t) == LaneForTable(TargetTable(HeadTokens(t)))

InvalidatesPoints(t) == InvalidatesTable(t, TargetTable(HeadTokens(t)))

----------------------------------------------------------------------------
(* The inputs: free text that grows by a piece, or a row that grows by a   *)
(* column.                                                                 *)

TextInit == text = <<>> /\ pieces = 0 /\ row = <<>>

AddPiece(piece) ==
    /\ row = <<>>
    /\ pieces < MaxPieces
    /\ text' = text \o piece
    /\ pieces' = pieces + 1
    /\ UNCHANGED row

NameColumn(c, v) ==
    /\ pieces = 0
    /\ c \notin {pair[1] : pair \in ToSet(row)}
    /\ row' = Append(row, <<c, v>>)
    /\ UNCHANGED <<text, pieces>>

TextNext ==
    \/ \E piece \in Pieces : AddPiece(piece)
    \/ \E c \in DOMAIN Values : \E v \in Values[c] : NameColumn(c, v)

TextSpec == TextInit /\ [][TextNext]_textVars

----------------------------------------------------------------------------
(* Reading one symbol at a time                                            *)

\* What is left of a text when comments become a blank, and what stands
\* between quotes becomes one word: the symbols that are code.
Read(a, c) ==
    LET go(mode)      == [a EXCEPT !.mode = mode]
        emit(x, mode) == [a EXCEPT !.code = Append(@, x), !.mode = mode]
        cut(n, mode)  == [a EXCEPT !.code = SubSeq(@, 1, Len(@) - n) \o <<" ">>,
                                   !.mode = mode]
        last == At(a.code, Len(a.code))
        prev == At(a.code, Len(a.code) - 1)
    IN  CASE a.mode = "line"   -> go(IF c = "nl" THEN "code" ELSE "line")
          [] a.mode = "opened" -> IF c = "!" THEN go("executable")
                                  ELSE go(IF c = "*" THEN "star" ELSE "block")
          [] a.mode = "block"  -> go(IF c = "*" THEN "star" ELSE "block")
          [] a.mode = "star"   -> IF c = "/" THEN go("code")
                                  ELSE go(IF c = "*" THEN "star" ELSE "block")
          [] a.mode = "literal"  -> IF c = "backslash" THEN go("escape")
                                  ELSE go(IF c = "quote" THEN "code" ELSE "literal")
          [] a.mode = "escape" -> go("literal")
          [] a.mode = "name"   -> go(IF c = "backquote" THEN "code" ELSE "name")
          [] a.mode = "executable" -> a
          [] a.mode = "code"   ->
               CASE c = "#" -> cut(0, "line")
                 [] c = "quote" -> emit("<literal>", "literal")
                 [] c = "backquote" -> emit("<name>", "name")
                 [] c = "*" /\ last = "/" -> cut(1, "opened")
                 [] c \in White /\ last = "-" /\ prev = "-" ->
                      cut(2, IF c = "nl" THEN "code" ELSE "line")
                 [] OTHER -> emit(c, "code")

Reading(t) ==
    LET upTo[k \in 0 .. Len(t)] ==
          IF k = 0 THEN [mode |-> "code", code |-> <<>>] ELSE Read(upTo[k - 1], t[k])
    IN  upTo[Len(t)]

FirstCode(t) == At(Trim(Reading(t).code, White), 1)

Blank(t) == Reading(t).mode = "code" /\ FirstCode(t) = "end"

Complete(t) ==
    LET r == Reading(t)
    IN  /\ r.mode \in {"code", "line"}
        /\ \A j \in DOMAIN r.code :
             /\ r.code[j] # "nul"
             /\ \A i \in 1 .. j - 1 : r.code[i] = ";" => r.code[j] \in White

----------------------------------------------------------------------------
(* Properties                                                              *)

\* A text passes exactly when it is one statement whose quotes and comments
\* are closed, with no NUL among its code: a pooled session is never left
\* inside a second statement, and no player name, comment or trailing ";"
\* makes a good write be refused (the test
\* pooled_sessions_reject_transaction_and_session_control).
OneWholeStatement == ScanStatement(text) <=> Complete(text)

\* The table after the verb decides the lane, whatever names stand in
\* comments, in literals or in the rest of the statement ("must not choose a
\* writer lane").
HeaderDecidesLane ==
    \A s \in Statements :
      LET before == s.lead \o <<" ">> \o text \o <<" ", s.table>>
          after  == s.lead \o <<" ", s.table, " ">> \o text
      IN  /\ Blank(text) => Accepts(before) /\ LaneFor(before) = LaneForTable(<<s.table>>)
          /\ Accepts(after) => LaneFor(after) = LaneForTable(<<s.table>>)

\* A write that announces a finished match or round travels in the lane of the
\* rows it announces, behind them: rows of a match go to that lane, and what
\* invalidates the ranking never leaves it.
MarkersFollowTheirRows ==
    \A s \in Statements :
      LET marked == Marker \o s.lead \o <<" ">> \o text \o <<" ", s.table>>
      IN  Accepts(marked) /\ InvalidatesPoints(marked) =>
            LaneFor(marked) = LaneForTable(<<"whaletracker_log_players">>)

RowStatement ==
    LET list(part) ==
          FoldLeft(LAMBDA t, pair : t \o (IF t = <<>> THEN <<>> ELSE <<",", " ">>)
                                      \o (IF part = 1 THEN <<pair[1]>> ELSE pair[2]),
                   <<>>, row)
    IN  <<"insert", " ", "into", " ", "whaletracker_log_players", "(">> \o list(1)
          \o <<")", " ", "values", "(">> \o list(2) \o <<")">>

\* The integer a row itself gives to a column.
Given(c) ==
    UNION {IF pair[2] = <<"null">> THEN {0}
           ELSE {IntOf[v] : v \in {Trim(pair[2], {"quote"})} \cap DOMAIN IntOf} :
             pair \in {q \in ToSet(row) : q[1] = c}}

\* A match row is written exactly when it names its damage, damage taken and
\* time played and neither rate exceeds the limit: a quote, comma, bracket or
\* escape in a value before them never shifts a value to another column.
LogRatesAreChecked ==
    row # <<>> =>
      (Accepts(RowStatement) <=>
         \E d \in Given("damage"), t \in Given("damage_taken"), p \in Given("playtime") :
           /\ d >= 0 /\ t >= 0 /\ p >= 0
           /\ d * 60 <= MaxRate * p
           /\ t * 60 <= MaxRate * p)
=============================================================================
