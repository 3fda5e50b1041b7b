----------------------------- MODULE Conversions -----------------------------
(***************************************************************************)
(* The sequential computations around the Redis commands, each run on one  *)
(* input and checked against a reference definition, together with those   *)
(* of module Requests.  A behaviour picks an input and takes one step, the *)
(* call.                                                                   *)
(***************************************************************************)
EXTENDS Requests, Statement, Commands, Preview

CONSTANTS
    MaxTail,    \* bound on the tokens behind SELECT * FROM keys
    MaxMember,  \* members, fields and values of collections are 1..MaxMember
    MaxString   \* bound on the characters of a string value

ASSUME ConversionsAssumption ==
    /\ MaxMember \in Nat /\ 1..MaxMember \subseteq Texts
    /\ 1..3 \subseteq Texts /\ Texts \subseteq Nat /\ MaxDepth >= 2

-----------------------------------------------------------------------------
(* Statements                                                               *)

ClausePieces ==
    {Word("LIMIT"), Word("OFFSET"), Word("other"), Semicolon, Glued(Semicolon)}
      \cup UNION {{Number(n), Glued(Number(n))} : n \in PageNumbers}

BrokenHeads ==
    {SubSeq(Select, 1, n) : n \in 1..3}
      \cup {<<Word("SELECT"), Number(n)>> : n \in PageNumbers}
      \cup {<<Word("SELECT"), Word("*"), Word("other"), Word("keys")>>,
            <<Word("SELECT"), Word("*"), Word("FROM"), Word("other")>>,
            <<Word("SELECT"), Word("*"), Word("FROM"), Glued(Word("keys"))>>}

NativePieces ==
    {Bare(Word("SELECT")), Bare(Word("other")), Quoted(Word("other")), Quoted(Word("*")),
     Bare(Empty), Quoted(Empty), Bare(Hash), Quoted(Hash), Quoted(Semicolon)}

StatementTexts ==
    {Typed(Select \o t) : t \in BoundedSeq(ClausePieces, MaxTail)}
      \cup {Typed(h \o t) : h \in BrokenHeads, t \in BoundedSeq(ClausePieces, 1)}
      \cup BoundedSeq(NativePieces, 3)

ParsesText == case.op = "statement" /\ Call(ParseStatement(case.text))

\* parse_select accepts the sentences of the grammar with the offset and the
\* limit they name, and nothing else: no clause is ignored, none repeated
\* and nothing hides behind a terminator.
GrammarExact ==
    Returned("statement") =>
        LET ts == Split(case.text)
        IN  /\ answer.kind = "select" =>
                 \E p \in Pages : /\ answer.offset = p.offset /\ answer.limit = p.limit
                                  /\ ts \in Accepted(p)
            /\ answer.kind = "invalid" => \A p \in Pages : ts \notin Accepted(p)

\* The statement a result reports, for a browse or for a native command,
\* parses back to what was executed: empty arguments, comment signs and
\* semicolons in them included.
StatementReplays ==
    Returned("statement") /\ answer.kind # "invalid" /\ answer # Redis(<<>>) =>
        ParseStatement(Reported(answer)) = answer

-----------------------------------------------------------------------------
(* Commands                                                                 *)

Classifies == case.op = "command" /\ Call(CommandMetadata(case.verb, case.args))

\* A statement that goes to the host's log is either replayable or
\* sensitive.  It is sensitive as soon as it carries a stored value or a
\* message, by the advertised usage of its command, and the advertised reads
\* and the suggestions of the WRONGTYPE guidance are not.  A suggestion is
\* allowed on the read-only path and accepts the type it is made for.  The
\* statements of row writes are classified as if they had been typed, except
\* a rename's EVAL, which holds no value.
StatementsClassified ==
    Returned("command") =>
        LET v == case.verb
        IN  /\ answer.replayable = ~answer.sensitive
            /\ v \in DOMAIN redis_commands =>
                 /\ FirstPayload(v) \in 1..case.args => answer = Sensitive
                 /\ FirstPayload(v) = 0 => answer = Safe
            /\ v = "PING" /\ case.args = 0 => answer = Safe
            /\ v \notin Verbs => answer = Sensitive
            /\ \A w \in {"delete", "insert", "edit"} :
                 v = RowWriteVerb[w] => answer = RowWriteMetadata(w)
            /\ \A t \in {"string", "hash", "list", "set", "zset"} :
                 v = TypeReadCommand(t) =>
                   /\ IsReadOnly(v) /\ WrongtypeVerb(v) = FamilyOf(t)
                   /\ case.args = SuggestedArgs(v) => answer = Safe

-----------------------------------------------------------------------------
(* Replies and results                                                      *)

Scalars == {Nil, Text(1), Text(3), Literal(1), NonFinite(2)}
ScalarSeqs == BoundedSeq(Scalars, 2)
ScalarPairs ==
    BoundedSeq({Nil, Text(NullText), Text(1), Text(2), Text(3), Literal(1)} \X Scalars, 2)

InnerReplies ==
    Scalars \cup {Items(k, s) : k \in ItemKinds, s \in ScalarSeqs}
      \cup {Map(p) : p \in ScalarPairs} \cup {Attribute(v) : v \in Scalars}

OuterReplies(v) ==
    {v, Attribute(v), Map(<<<<Nil, v>>>>), Map(<<<<Text(NullText), v>>, <<Nil, Nil>>>>),
     Map(<<<<v, Nil>>>>)}
      \cup {Items(k, s) : k \in ItemKinds, s \in {<<v>>, <<Nil, v>>}}

Renders == case.op = "reply" /\ Call(ReplyRows(case.reply))

\* The rows of a reply show every scalar of it, each at the place it has in
\* the reply.  A bulk string is shown as its text, which is the string itself
\* only if it is UTF-8: other bytes give way to replacement characters.  What
\* JSON cannot say is excepted: a nested double that is no number becomes
\* null, and of nested keys that are shown alike the last one stays.
ScalarsShown ==
    Returned("reply") /\ (\A v \in JsonParts(case.reply) : Expressible(v)) =>
        UNION {RowLeaves(answer.rows[i]) : i \in DOMAIN answer.rows} = Leaves(case.reply)

TextOf(n) == [i \in 1..n |-> i]
FullCells == {NoCell} \cup {Some(TextOf(n)) : n \in 0..(MaxCell + 2)}
FullRows == {[i \in DOMAIN s |-> <<s[i]>>] : s \in BoundedSeq(FullCells, MaxRows + 1)}

Finalizes == case.op = "result" /\ Call(Finalize(<<"value">>, case.full))

\* A result shows the first MAX_ROWS rows.  A display cell never exceeds
\* MAX_CELL characters; it is the value, or all of it that fits before an
\* ellipsis, and the value itself stands whole at its place in
\* untruncated_rows.
ResultFaithful ==
    Returned("result") =>
        /\ answer.truncated = (Len(case.full) > Len(answer.rows))
        /\ Len(answer.rows) = Min({MaxRows, Len(case.full)})
        /\ Len(answer.untruncatedRows) = Len(answer.rows)
        /\ \A i \in DOMAIN answer.rows :
             LET shown == answer.rows[i][1]
                 full == case.full[i][1]
             IN  /\ answer.untruncatedRows[i][1] = full
                 /\ shown = NoCell <=> full = NoCell
                 /\ full # NoCell =>
                      /\ Len(shown[1]) = Min({MaxCell, Len(full[1])})
                      /\ Len(full[1]) <= MaxCell => shown = full
                      /\ Len(full[1]) > MaxCell =>
                           Front(shown[1]) = SubSeq(full[1], 1, MaxCell - 1)
                             /\ Last(shown[1]) = Ellipsis

-----------------------------------------------------------------------------
(* Previews                                                                 *)

Members == 1..MaxMember
DistinctMembers(c) == \A i, j \in DOMAIN c : c[i][1] = c[j][1] => i = j

\* A list may repeat an element; members and fields are unique; an empty
\* collection does not exist, but the key may be gone since TYPE.
Contents(kind) ==
    {c \in BoundedSeq(Members \X Members, MaxMember) : kind # "list" => DistinctMembers(c)}

PreviewsCollection ==
    case.op = "collection" /\ Call(PreviewOf(case.kind, case.reply))

StringValues == BoundedSeq(((-3)..4) \ {0}, MaxString)

PreviewsString == case.op = "string" /\ Call(PreviewString(case.value))

PairSet(c) == {<<Raw(Decoded[c[i][1]]), JString(Decoded[c[i][2]])>> : i \in DOMAIN c}
DistinctTexts(c) == \A i, j \in DOMAIN c : Decoded[c[i][1]] = Decoded[c[j][1]] => i = j

\* A hash shows the fields that the one HSCAN returned with their values, in
\* either reply shape, and a set the members that the one SSCAN returned,
\* each once and in an order that does not depend on SSCAN's; names that are
\* shown alike, because they are not UTF-8, are excepted.  Both may be a part
\* of the collection, and the preview does not tell.  A list shows its first
\* elements in order.  A string shows at most PREVIEW_BYTES bytes: a prefix
\* of its characters, with a replacement for each stretch that is not UTF-8
\* and for at most one character that the cut broke.
PreviewsFaithful ==
    /\ Returned("collection") =>
         LET fetched == case.fetched
         IN  /\ case.kind = "hash" /\ DistinctTexts(fetched) => answer = Some(JObject(PairSet(fetched)))
             /\ case.kind = "list" =>
                  answer = Some(JArray([i \in 1..Min({Len(case.content), PreviewElements}) |->
                                          JString(Decoded[case.content[i][1]])]))
             /\ case.kind = "set" /\ DistinctTexts(fetched) =>
                  \E s \in [DOMAIN fetched -> {Decoded[p[1]] : p \in ToSet(fetched)}] :
                    /\ answer = Some(JArray([i \in DOMAIN s |-> JString(s[i])]))
                    /\ \A i, j \in DOMAIN s : i < j => s[i] < s[j]
    /\ Returned("string") =>
         /\ TextBytes(case.value, answer, Len(answer)) <= PreviewBytes
         /\ \A i \in DOMAIN answer :
              answer[i] # i =>
                /\ answer[i] = Replacement
                /\ IllFormed(case.value[i]) \/ (i = Len(answer) /\ case.value[i] > 1)
         /\ Bytes(case.value, Len(case.value)) <= PreviewBytes /\ Utf8(case.value) =>
              answer = TextOf(Len(case.value))

\* What the comment on preview_zset says: the first members with their
\* scores.
ZsetShown ==
    Returned("collection") /\ case.kind = "zset" /\ DistinctTexts(case.fetched) =>
        answer = Some(JObject(PairSet(FirstElements(case.content))))

\* What the README says of edits, "a bounded preview can never overwrite a
\* value it did not fully show": the display cell of a string whose value
\* update_row lets the user replace is that value.
EditShowsWhole ==
    Returned("string") /\ EditAllowed(case.value) =>
        CapCell(answer) = TextOf(Len(case.value))

-----------------------------------------------------------------------------
Init ==
    /\ answer = <<>>
    /\ done = FALSE
    /\ \/ Picked
       \/ \E t \in StatementTexts : case = [op |-> "statement", text |-> t]
       \/ \E v \in Verbs \cup {"UNKNOWN"}, n \in 0..4 : case = [op |-> "command", verb |-> v, args |-> n]
       \/ \E v \in InnerReplies : \E r \in OuterReplies(v) : case = [op |-> "reply", reply |-> r]
       \/ \E f \in FullRows : case = [op |-> "result", full |-> f]
       \/ \E k \in {"hash", "set", "list", "zset"} : \E c \in Contents(k) :
          \E f \in Fetched(k, c) : \E r \in Replies(k, c, f) :
            case = [op |-> "collection", kind |-> k, content |-> c, fetched |-> f, reply |-> r]
       \/ \E s \in StringValues : case = [op |-> "string", value |-> s]

Next ==
    \/ RequestCalls
    \/ ParsesText \/ Classifies \/ Renders \/ Finalizes \/ PreviewsCollection \/ PreviewsString
    \/ Rest

Spec == Init /\ [][Next]_vars
=============================================================================
