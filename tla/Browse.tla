------------------------------- MODULE Browse -------------------------------
(***************************************************************************)
(* browse_table and the virtual SELECT of src/src/redis_service.rs:        *)
(* run_select, browse_page and fetch_preview, one Redis command at a time, *)
(* and a host that pages through the `keys` table by has_more.             *)
(*                                                                         *)
(* Every command is an await: between two of them other clients change the *)
(* database, and any of them may fail (the connection drops or the session *)
(* is closed).  Keys are numbered in the order of their names, and a key   *)
(* that is not UTF-8 goes by the name String::from_utf8_lossy makes of it. *)
(* SCAN gives Redis's guarantee and no more: a key that stays in the       *)
(* database from the first call to the last is returned, any key may be    *)
(* returned more than once, and a call may return nothing before the       *)
(* iteration is over.                                                      *)
(***************************************************************************)
EXTENDS Naturals, Sequences, FiniteSets, FiniteSetsExt

CONSTANTS
    NumKeys,   \* keys, numbered 1..NumKeys in their sort order
    Name,      \* the name of each key: a UTF-8 key is its own
    Kinds,     \* types a key may have in this instance
    Absent,    \* no such key
    MaxRows,   \* MAX_ROWS: display rows of one result
    NoLimit,   \* browse without a limit
    MaxLimit,  \* bound on the limit the host asks for
    UsizeMax,  \* usize::MAX
    MaxScans,  \* bound on the SCAN calls of one browse
    MaxWrites  \* bound on the writes of other clients

ASSUME NumbersAssumption ==
    /\ NumKeys \in Nat /\ MaxRows \in Nat \ {0} /\ MaxLimit \in Nat
    /\ MaxScans \in Nat \ {0} /\ MaxWrites \in Nat
    /\ UsizeMax \in Nat /\ NumKeys <= UsizeMax
ASSUME SentinelAssumption == Absent \notin Kinds /\ NoLimit \notin Nat

Keys == 1..NumKeys
ASSUME NameAssumption == Name \in [Keys -> Keys] /\ \A k \in Keys : Name[Name[k]] = Name[k]

Previewed == {"string", "hash", "list", "set", "zset"}

VARIABLES
    store,     \* type of every key of the selected database
    writes,    \* writes of other clients so far
    limit,     \* the request: rows per page
    offset,    \* the request: rows to skip
    pc,        \* "idle", "scan", "type", "preview", "done" or "failed"
    scans,     \* SCAN calls of this browse
    keys,      \* occurrences of each name in the collected vector
    page,      \* names of the page still to be fetched
    type,      \* what TYPE said of the first of them
    rows,      \* rows of the page
    result,    \* the QueryResult of the last page: its rows and has_more
    first,     \* history: offset of the first page
    delivered, \* history: names of all pages the host was given
    stable,    \* history: keys present from the first SCAN call to the last
    pending,   \* history: those of them SCAN has not returned yet
    calm       \* history: no write and no repeated name since the first page

database == <<store, writes>>
request == <<limit, offset, first>>
fetching == <<page, type, rows>>
answer == <<result, delivered>>
scanning == <<scans, keys, stable, pending>>
vars == <<database, request, pc, scanning, fetching, answer, calm>>

Present == {k \in Keys : store[k] # Absent}
Listed == {Name[k] : k \in Present}

-----------------------------------------------------------------------------
(* The page.  A vector of keys that is about to be sorted is the bag of its *)
(* elements.                                                                *)

\* Elements of the vector up to key k, and its length.
UpTo(bag, k) ==
    LET up[j \in 0..NumKeys] == IF j = 0 THEN 0 ELSE up[j - 1] + bag[j]
    IN  up[k]
Total(bag) == UpTo(bag, NumKeys)

\* keys.sort(): position i holds the least key with i elements up to it.
Sort(bag) == [i \in 1..Total(bag) |-> Min({k \in Keys : UpTo(bag, k) >= i})]

\* keys.iter().skip(offset).take(limit)
Page(s) ==
    SubSeq(s, offset + 1, IF limit = NoLimit THEN Len(s) ELSE Min({Len(s), offset + limit}))

SaturatingAdd(a, b) == Min({a + b, UsizeMax})

Shown(r) == Min({Len(r), MaxRows})

\* Mutant of HasMore: the rows cut off by MAX_ROWS count as shown.
HasMoreUncapped(r, total) == SaturatingAdd(offset, Len(r)) < total

\* The page is not the last.
HasMore(r, total) == SaturatingAdd(offset, Shown(r)) < total

\* run_select returns: finalize keeps at most MAX_ROWS rows.
Deliver(r, total) ==
    /\ pc' = "done"
    /\ result' = [rows |-> SubSeq(r, 1, Shown(r)), has_more |-> HasMore(r, total)]
    /\ delivered' = delivered \o [i \in 1..Shown(r) |-> r[i].key]

-----------------------------------------------------------------------------
(* One browse                                                               *)

NothingCollected == [k \in Keys |-> 0]

Begin(o) ==
    /\ offset' = o
    /\ pc' = "scan"
    /\ scans' = 0
    /\ keys' = NothingCollected
    /\ stable' = Present
    /\ pending' = Present
    /\ rows' = <<>>
    /\ UNCHANGED <<database, limit, first, page, type, answer, calm>>

BrowseTable == pc = "idle" /\ Begin(offset)

\* The host pages on while has_more is set and it was given rows.
NextPage ==
    /\ pc = "done"
    /\ result.has_more /\ result.rows # <<>>
    /\ Begin(offset + Len(result.rows))

\* Mutant of LastBatch: an empty batch ends the scan.
LastBatchWhenEmpty(cursor, batch) == cursor = 0 \/ batch = {}

\* The cursor alone tells whether the iteration is over.
LastBatch(cursor, batch) == cursor = 0

\* What Redis may answer to SCAN.
ScanAnswers(cursor, batch) ==
    /\ batch \subseteq Present
    /\ cursor = 0 => pending \subseteq batch

\* The names of a batch are collected; after the last one they are sorted
\* and the page is cut.
Collect(batch, last) ==
    LET collected == [k \in Keys |-> keys[k] + Cardinality({j \in batch : Name[j] = k})] IN
    /\ pc = "scan"
    /\ scans < MaxScans
    /\ scans' = scans + 1
    /\ keys' = collected
    /\ \/ ~last /\ UNCHANGED <<pc, page, answer>>
       \/ /\ last
          /\ page' = Page(Sort(collected))
          /\ IF page' = <<>> THEN Deliver(<<>>, Total(collected))
                             ELSE pc' = "type" /\ UNCHANGED answer
    /\ UNCHANGED <<database, request, type, rows>>

\* A reply to SCAN.
ScanReply(cursor, batch) ==
    /\ ScanAnswers(cursor, batch)
    /\ Collect(batch, LastBatch(cursor, batch))
    /\ pending' = pending \ batch
    /\ calm' = (calm /\ \A k \in Keys : keys'[k] <= 1)
    /\ UNCHANGED stable

\* A reply that is no array, as the status QUEUED is in a transaction, or
\* that has no readable cursor counts as the last one, so that keys may be
\* missing.
ScanCutShort(batch) ==
    /\ batch \subseteq Present
    /\ Collect(batch, TRUE)
    /\ stable' = {}
    /\ pending' = {}
    /\ calm' = FALSE

\* A failing SCAN fails the browse.
ScanFails ==
    /\ pc = "scan"
    /\ pc' = "failed"
    /\ UNCHANGED <<database, request, scanning, fetching, answer, calm>>

\* The row of the page's next key is complete; after the last one the page.
PushRow(t, preview) ==
    LET all == Append(rows, [key |-> Head(page), type |-> t, preview |-> preview]) IN
    /\ rows' = all
    /\ page' = Tail(page)
    /\ IF Tail(page) = <<>> THEN Deliver(all, Total(keys))
                            ELSE pc' = "type" /\ UNCHANGED answer
    /\ UNCHANGED <<database, request, scanning, calm>>

\* TYPE of the key that has the name: a type with a preview leads to a second
\* command, the others ("none" for a key that is gone, streams, modules) have
\* a null value.
TypeReply ==
    LET t == IF store[Head(page)] = Absent THEN "none" ELSE store[Head(page)] IN
    /\ pc = "type"
    /\ type' = t
    /\ \/ /\ t \in Previewed
          /\ pc' = "preview"
          /\ UNCHANGED <<database, request, scanning, page, rows, answer, calm>>
       \/ /\ t \notin Previewed
          /\ PushRow(t, "null")

TypeFails ==
    /\ pc = "type"
    /\ PushRow("unknown", "null")
    /\ UNCHANGED type

\* The preview command of that type: a key that is gone by now reads as an
\* empty value, a key of another type is a WRONGTYPE error.
PreviewReply ==
    /\ pc = "preview"
    /\ PushRow(type, CASE store[Head(page)] = Absent -> "empty"
                       [] store[Head(page)] = type -> "shown"
                       [] OTHER -> "null")
    /\ UNCHANGED type

\* Mutant of PreviewFails: the failure is propagated with `?`.
PreviewFailsPage ==
    /\ pc = "preview"
    /\ pc' = "failed"
    /\ UNCHANGED <<database, request, scanning, fetching, answer, calm>>

PreviewFails ==
    /\ pc = "preview"
    /\ PushRow(type, "null")
    /\ UNCHANGED type

-----------------------------------------------------------------------------
(* Other clients                                                            *)

Write(k, e) ==
    /\ pc # "idle"
    /\ writes < MaxWrites
    /\ writes' = writes + 1
    /\ store[k] # e
    /\ store' = [store EXCEPT ![k] = e]
    /\ IF pc = "scan" /\ e = Absent
       THEN stable' = stable \ {k} /\ pending' = pending \ {k}
       ELSE UNCHANGED <<stable, pending>>
    /\ calm' = FALSE
    /\ UNCHANGED <<request, pc, scans, keys, fetching, answer>>

\* The host has what it wants, or an error.
Over == pc \in {"done", "failed"} /\ UNCHANGED vars

-----------------------------------------------------------------------------
Init ==
    /\ store \in [Keys -> Kinds \cup {Absent}]
    /\ writes = 0
    /\ limit \in (0..MaxLimit) \cup {NoLimit}
    /\ offset \in {0, 1, UsizeMax}
    /\ first = offset
    /\ pc = "idle"
    /\ scans = 0
    /\ keys = NothingCollected
    /\ page = <<>>
    /\ type = "none"
    /\ rows = <<>>
    /\ result = [rows |-> <<>>, has_more |-> FALSE]
    /\ delivered = <<>>
    /\ stable = {}
    /\ pending = {}
    /\ calm = TRUE

\* A command is answered or fails.
Answered ==
    \/ \E cursor \in {0, 1}, batch \in SUBSET Keys : ScanReply(cursor, batch)
    \/ \E batch \in SUBSET Keys : ScanCutShort(batch)
    \/ ScanFails
    \/ TypeReply \/ TypeFails
    \/ PreviewReply \/ PreviewFails

Next ==
    \/ BrowseTable \/ NextPage
    \/ Answered
    \/ \E k \in Keys, e \in Kinds \cup {Absent} : Write(k, e)
    \/ Over

Spec == Init /\ [][Next]_vars

-----------------------------------------------------------------------------
(* Properties                                                               *)

\* The i-th name of the database: i names are not after it.
SortedNames ==
    [i \in 1..Cardinality(Listed) |->
       CHOOSE k \in Listed : Cardinality({j \in Listed : j <= k}) = i]

\* Paging by has_more: as long as nobody writes, SCAN repeats no key, cuts
\* nothing short and no two keys go by one name, the pages are consecutive
\* pieces of the sorted names, without a gap or an overlap at MAX_ROWS or at
\* the limit, and has_more goes out exactly at the end.
PagesPartition ==
    LET end == first + Len(delivered) IN
    calm =>
        /\ delivered = [i \in 1..Len(delivered) |-> SortedNames[first + i]]
        /\ delivered # <<>> => end <= Cardinality(Listed)
        /\ pc = "done" => (result.has_more <=> end < Cardinality(Listed))

\* A key that is in the database throughout a scan that no reply cuts short
\* is accounted for, whatever other clients do to the other keys: its name is
\* on the page, was skipped by the offset, or lies behind the page and
\* has_more says so.
StableKeysListed ==
    pc = "done" =>
        \A k \in stable :
            \/ \E i \in DOMAIN result.rows : result.rows[i].key = Name[k]
            \/ UpTo(keys, Name[k]) <= offset
            \/ UpTo(keys, Name[k]) > offset + Len(result.rows) /\ result.has_more

\* Once the keys are collected the page is returned, with a row for each of
\* its keys up to the display cap, in order: a failing TYPE or preview
\* degrades a cell, it neither fails the page nor drops a row.
PageReturned ==
    [][(pc \in {"type", "preview"}) =>
         /\ pc' # "failed"
         /\ pc' = "done" =>
              LET whole == Page(Sort(keys))
              IN  result'.rows = [i \in 1..Min({Len(whole), MaxRows}) |->
                                    [result'.rows[i] EXCEPT !.key = whole[i]]]]_vars

\* What the README says of the keys table: one row is one key.
OneRowPerKey ==
    \A i, j \in DOMAIN result.rows : result.rows[i].key = result.rows[j].key => i = j
=============================================================================
