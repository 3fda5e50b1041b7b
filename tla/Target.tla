-------------------------------- MODULE Target --------------------------------
(***************************************************************************)
(* From the connection form to a Redis connection: the form that           *)
(* redis_capabilities of src/src/server.rs advertises, build_redis_uri,    *)
(* normalize_target, parse_database and RedisFactory's build_target and    *)
(* open of src/src/redis_service.rs.                                       *)
(*                                                                         *)
(* A text is a word, perhaps with blanks around it.  The url crate and the *)
(* redis crate are external; percent-encoding is theirs.                   *)
(***************************************************************************)
EXTENDS Integers, Sequences

CONSTANTS
    PortMax,    \* u16::MAX, scaled
    RedisPort,  \* 6379, scaled
    DatabaseMax \* i64::MAX, scaled

ASSUME TargetAssumption ==
    PortMax \in Nat /\ RedisPort \in 1..PortMax /\ DatabaseMax \in Nat

\* A word with its numeric value, for words that are one, and the number of
\* blanks around it.
NoNumber == -100
FormText(w, n, blanks) == [word |-> w, number |-> n, blanks |-> blanks]
Name(w) == FormText(w, NoNumber, 0)
Numeral(n) == FormText("number", n, 0)
Padded(t) == FormText(t.word, t.number, 1)

\* A missing field and one of blanks only read alike.
Blank == Name("")
Trim(t) == FormText(t.word, t.number, 0)

\* .map(str::trim).filter(nonempty).unwrap_or(default)
OrDefault(t, default) == IF Trim(t) = Blank THEN default ELSE Trim(t)

LocalHost == Name("127.0.0.1")
DefaultPort == Numeral(RedisPort)
DefaultDatabase == Numeral(0)

\* u16 and i64 parsing; both refuse blanks and numbers out of range.
ParsesPort(t) == t.blanks = 0 /\ t.number \in 0..PortMax
ParsesDatabase(t) == t.blanks = 0 /\ t.number \in (-DatabaseMax - 1)..DatabaseMax

-----------------------------------------------------------------------------
(* build_redis_uri and build_target                                         *)

\* url::Url::set_host (external): a name or a bracketed IPv6 address.
Hosts == {"127.0.0.1", "name", "[v6]"}

\* A host with a colon is bracketed unless it is already.
Bracketed(host) ==
    CASE host.word = "v6" -> Name("[v6]")
      [] host.word = "name:colon" -> Name("[name:colon]")
      [] OTHER -> host

NoTls == "none"
Url(scheme, host, port, user, pass, path) ==
    [scheme |-> scheme, host |-> host, port |-> port, user |-> user, pass |-> pass,
     path |-> path, tls |-> NoTls]

NoUri == <<>>

BuildRedisUri(v) ==
    LET host == Bracketed(OrDefault(v.host, LocalHost))
        port == OrDefault(v.port, DefaultPort)
        database == OrDefault(v.database, DefaultDatabase)
    IN  IF /\ ParsesPort(port) /\ port.number # 0
           /\ ParsesDatabase(database) /\ database.number >= 0
           /\ host.word \in Hosts
        THEN <<Url("redis", host, port.number, Trim(v.user), Trim(v.pass), database)>>
        ELSE NoUri

\* A target: a URL behind some labels `redis:`, or no URL.
Labelled(n, url) == [labels |-> n, urls |-> <<url>>]
NoUrl(n) == [labels |-> n, urls |-> <<>>]
Relabelled(t, n) == [labels |-> n, urls |-> t.urls]

BuildTarget(v) ==
    LET uri == BuildRedisUri(v)
    IN  IF uri = NoUri THEN [ok |-> FALSE, target |-> NoUrl(0)]
                       ELSE [ok |-> TRUE, target |-> Labelled(1, uri[1])]

-----------------------------------------------------------------------------
(* open                                                                     *)

Rejected == <<>>

\* Mutant of NormalizeTarget: the host has stripped the label.
NormalizeTargetBare(t) ==
    IF t.urls # <<>> /\ t.labels = 0 /\ t.urls[1].scheme = "redis" THEN t.urls ELSE Rejected

\* One label is stripped; another scheme is only looked at behind one, and
\* behind two there is no URL with a host.
NormalizeTarget(t) ==
    IF t.urls # <<>> /\ (t.labels = 1 \/ (t.labels = 0 /\ t.urls[1].scheme = "redis"))
    THEN t.urls
    ELSE Rejected

\* parse_database: the path without its slashes.
ParseDatabase(url) ==
    CASE url.path = Blank -> <<0>>
      [] ParsesDatabase(url.path) /\ url.path.number >= 0 -> <<url.path.number>>
      [] OTHER -> Rejected

PlainTcp(url) == url.scheme = "redis" /\ url.tls \notin {"true", "1", "secure"}

Connection(url, database) ==
    [host |-> url.host, port |-> url.port, user |-> url.user, pass |-> url.pass,
     database |-> database]

\* The connection RedisFactory::open asks Redis for, if it comes that far.
Open(t) ==
    LET uri == NormalizeTarget(t)
    IN  IF uri # Rejected /\ PlainTcp(uri[1]) /\ ParseDatabase(uri[1]) # Rejected
        THEN <<Connection(uri[1], ParseDatabase(uri[1])[1])>>
        ELSE Rejected

-----------------------------------------------------------------------------
(* The advertised form: validator 1 wants a value, 2 a port number or       *)
(* nothing; the database has no validator                                   *)

Validators == [host |-> 1, port |-> 2, user |-> 0, pass |-> 0, database |-> 0]

Passes(validator, t) ==
    CASE validator = 0 -> TRUE
      [] validator = 1 -> Trim(t) # Blank
      [] validator = 2 -> Trim(t) = Blank \/ Trim(t).number \in 1..PortMax

FormValid(v) == \A field \in DOMAIN Validators : Passes(Validators[field], v[field])

\* The host (external) routes a target by the advertised patterns and strips
\* one label `redis:`; a direct URL it keeps.  It may have put the form's
\* prefix, which is that label, before what build_target returned.
HostRoutes(t) ==
    {Relabelled(t, IF n > 0 THEN n - 1 ELSE 0) : n \in {t.labels, t.labels + 1}}
=============================================================================
