------------------------------ MODULE Statement ------------------------------
(***************************************************************************)
(* parse_statement, parse_select and parse_page_size of                    *)
(* src/src/redis_service.rs, and what goes back to the host: the texts     *)
(* select_statement and render_command make of an accepted statement.      *)
(*                                                                         *)
(* Letter case is dropped.  A token is a word followed by some semicolons; *)
(* a statement's text is a sequence of tokens, each typed bare or quoted.  *)
(***************************************************************************)
EXTENDS Lists, SequencesExt

CONSTANTS
    PageNumbers, \* numbers that occur in statements, with the 0 of OFFSET 0
    NoLimit      \* SelectKeys without a limit

ASSUME StatementAssumption == PageNumbers \subseteq Nat /\ 0 \in PageNumbers /\ NoLimit \notin Nat

\* A word is a number or something else; a number too large for usize is
\* something else.
Token(w, n) == [word |-> w, number |-> 0, semis |-> n]
Word(w) == Token(w, 0)
Number(n) == [word |-> "number", number |-> n, semis |-> 0]
Glued(t) == [t EXCEPT !.semis = @ + 1]
Semicolon == Token("", 1)
Empty == Word("")
Hash == Word("#")

Select == <<Word("SELECT"), Word("*"), Word("FROM"), Word("keys")>>

\* parse_statement's answers
Redis(tokens) == [kind |-> "redis", tokens |-> tokens]
SelectKeys(o, l) == [kind |-> "select", offset |-> o, limit |-> l]
Invalid == [kind |-> "invalid"]

Has(ts, i) == i \in DOMAIN ts
Is(ts, i, w) == Has(ts, i) /\ ts[i] = Word(w)

-----------------------------------------------------------------------------
(* parse_select                                                             *)

\* One semicolon glued to the last token is the terminator.
Stripped(ts) ==
    IF Last(ts).semis > 0 /\ Last(ts) # Semicolon
    THEN [ts EXCEPT ![Len(ts)].semis = @ - 1]
    ELSE ts

\* parse_page_size: the token is a non-negative integer.
PageSize(ts, i) == Has(ts, i) /\ ts[i].word = "number" /\ ts[i].semis = 0

\* Mutant of SecondClause: a second clause replaces the first.
SecondClauseReplaces(seen, clause) == FALSE

SecondClause(seen, clause) == clause \in seen

\* Where the clause loop is: at token `at`, with the clauses seen so far.
Start == [at |-> 5, page |-> SelectKeys(0, NoLimit), seen |-> {}]

Stopped(s) == [s EXCEPT !.page = Invalid]

Paged(page, clause, n) ==
    IF clause = "LIMIT" THEN [page EXCEPT !.limit = n] ELSE [page EXCEPT !.offset = n]

TakeClause(ts, s) ==
    LET clause == ts[s.at].word
    IN  IF PageSize(ts, s.at + 1) /\ ~SecondClause(s.seen, clause)
        THEN [at |-> s.at + 2, page |-> Paged(s.page, clause, ts[s.at + 1].number),
              seen |-> s.seen \cup {clause}]
        ELSE Stopped(s)

\* One round of the loop, which stops behind the last token and at an error.
NextClause(ts, s) ==
    CASE s.page = Invalid \/ ~Has(ts, s.at) -> s
      [] s.page # Invalid /\ (Is(ts, s.at, "LIMIT") \/ Is(ts, s.at, "OFFSET")) -> TakeClause(ts, s)
      [] s.page # Invalid /\ Has(ts, s.at) /\ ts[s.at] = Semicolon /\ s.at = Len(ts) ->
           [s EXCEPT !.at = @ + 1]
      [] OTHER -> Stopped(s)

\* A round takes at least one token.
ParseClauses(ts) ==
    LET loop[k \in 0..Len(ts)] == IF k = 0 THEN Start ELSE NextClause(ts, loop[k - 1])
    IN  loop[Len(ts)].page

ParseSelect(tokens) ==
    LET ts == Stripped(tokens)
    IN  IF Is(ts, 3, "FROM") /\ Is(ts, 4, "keys")
        THEN ParseClauses(ts)
        ELSE Invalid

\* Only SELECT * is parsed here, everything else is a command for Redis.
ParseTokens(ts) == IF Is(ts, 1, "SELECT") /\ Is(ts, 2, "*") THEN ParseSelect(ts) ELSE Redis(ts)

-----------------------------------------------------------------------------
(* The text of a statement.  shell_words (external) decodes quoted tokens   *)
(* to what they quote; an empty token typed bare is no token at all, and a  *)
(* bare hash begins a comment.                                              *)

Bare(t) == [quoted |-> FALSE, token |-> t]
Quoted(t) == [quoted |-> TRUE, token |-> t]
Typed(tokens) == [i \in DOMAIN tokens |-> Bare(tokens[i])]

Commented(text, i) == \E j \in 1..i : text[j] = Bare(Hash)

Split(text) ==
    Kept([i \in DOMAIN text |-> text[i].token],
         {i \in DOMAIN text : ~Commented(text, i) /\ text[i] # Bare(Empty)})

\* A blank text is refused before it is split.
ParseStatement(text) == IF text = <<>> THEN Invalid ELSE ParseTokens(Split(text))

\* shell_words::quote quotes what the shell would read differently: of our
\* tokens those with semicolons, the star and the hash.  An empty token it
\* leaves bare, as the comment on render_command has it.
Quote(t) == IF t.semis > 0 \/ t.word \in {"*", "#"} THEN Quoted(t) ELSE Bare(t)

\* Mutant of RenderToken: shell_words::quote alone.
RenderTokenQuote(t) == Quote(t)

RenderToken(t) == IF t = Empty THEN Quoted(t) ELSE Quote(t)

RenderCommand(tokens) == [i \in DOMAIN tokens |-> RenderToken(tokens[i])]

Limit(n) == <<Word("LIMIT"), Number(n)>>
Offset(n) == <<Word("OFFSET"), Number(n)>>

LimitClause(l) == IF l = NoLimit THEN <<>> ELSE Limit(l)
OffsetClause(o, l) == IF o > 0 \/ l # NoLimit THEN Offset(o) ELSE <<>>

SelectStatement(o, l) == Typed(Select \o LimitClause(l) \o OffsetClause(o, l))

\* The statement a result reports.
Reported(s) == IF s.kind = "select" THEN SelectStatement(s.offset, s.limit) ELSE RenderCommand(s.tokens)

-----------------------------------------------------------------------------
(* Reference definitions                                                    *)

\* The grammar: the clauses in either order, each at most once, and what
\* they stand for.
Page(clauses, o, l) == [clauses |-> clauses, offset |-> o, limit |-> l]

Pages ==
    {Page(<<>>, 0, NoLimit)}
      \cup {Page(Limit(n), 0, n) : n \in PageNumbers}
      \cup {Page(Offset(n), n, NoLimit) : n \in PageNumbers}
      \cup {Page(Limit(p[2]) \o Offset(p[1]), p[1], p[2]) : p \in PageNumbers \X PageNumbers}
      \cup {Page(Offset(p[1]) \o Limit(p[2]), p[1], p[2]) : p \in PageNumbers \X PageNumbers}

\* Nothing, a separate semicolon, or one glued to the last token.
Terminated(s) ==
    {s, Append(s, Semicolon), [s EXCEPT ![Len(s)] = Glued(@)]}

\* The code also takes two semicolons that form a token of their own.
TerminatedTwice(s) == {Append(s, Glued(Semicolon))}

Accepted(p) ==
    LET s == Select \o p.clauses IN Terminated(s) \cup TerminatedTwice(s)
=============================================================================
