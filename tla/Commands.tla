------------------------------- MODULE Commands -------------------------------
(***************************************************************************)
(* What src/src/redis_service.rs knows about Redis commands: the read-only *)
(* allowlist, the metadata of a statement, and the guidance attached to a  *)
(* WRONGTYPE error; and what src/src/server.rs tells the host about them.  *)
(***************************************************************************)
EXTENDS Naturals, Sequences

-----------------------------------------------------------------------------
(* execute_read_only                                                        *)

READ_ONLY_COMMANDS ==
    {"PING", "GET", "MGET", "EXISTS", "TYPE", "TTL", "PTTL", "DBSIZE", "SCAN", "KEYS", "HGET",
     "HGETALL", "HLEN", "SMEMBERS", "SCARD", "ZRANGE", "ZCARD", "LRANGE", "LLEN", "INFO"}

\* Mutant of IsReadOnly: a prefix of the verb decides, as in GET and GETSET.
IsReadOnlyPrefix(verb) == verb \in READ_ONLY_COMMANDS \cup {"GETSET", "GETDEL"}

IsReadOnly(verb) == verb \in READ_ONLY_COMMANDS

-----------------------------------------------------------------------------
(* Statement metadata                                                       *)

SENSITIVE_COMMANDS ==
    {"ACL", "APPEND", "AUTH", "BITFIELD", "BLMOVE", "CONFIG", "DEBUG", "DECRBY", "ECHO", "EVAL",
     "EVALSHA", "FCALL", "FCALL_RO", "FUNCTION", "GEOADD", "GETSET", "HELLO", "HINCRBY",
     "HINCRBYFLOAT", "HMSET", "HSET", "HSETNX", "INCRBY", "INCRBYFLOAT", "LINSERT", "LMOVE",
     "LPUSH", "LPUSHX", "LSET", "MIGRATE", "MSET", "MSETNX", "PFADD", "PSETEX", "PUBLISH",
     "RESTORE", "RPUSH", "RPUSHX", "SADD", "SCRIPT", "SET", "SETBIT", "SETEX", "SETNX",
     "SETRANGE", "SMOVE", "SREM", "SPUBLISH", "XADD", "XCLAIM", "XAUTOCLAIM", "XSETID", "ZADD",
     "ZINCRBY"}

SAFE_WRITE_COMMANDS ==
    {"COPY", "DEL", "DISCARD", "EXEC", "EXPIRE", "EXPIREAT", "FLUSHALL", "FLUSHDB", "MOVE",
     "MULTI", "PERSIST", "PEXPIRE", "PEXPIREAT", "QUIT", "RENAME", "RENAMENX", "RESET", "SELECT",
     "SWAPDB", "TOUCH", "UNLINK", "UNWATCH", "WATCH"}

StatementMetadata(replayable, sensitive) == [replayable |-> replayable, sensitive |-> sensitive]

Safe == StatementMetadata(TRUE, FALSE)
Sensitive == StatementMetadata(FALSE, TRUE)

\* Mutant of CommandMetadata: PING is a read command like the others.
CommandMetadataNoPing(verb, args) ==
    IF IsReadOnly(verb) \/ verb \in SAFE_WRITE_COMMANDS THEN Safe ELSE Sensitive

\* An unknown verb is sensitive; a PING with a message is, too.
CommandMetadata(verb, args) ==
    IF verb = "PING"
    THEN StatementMetadata(args = 0, args > 0)
    ELSE IF IsReadOnly(verb) \/ verb \in SAFE_WRITE_COMMANDS \ SENSITIVE_COMMANDS
         THEN Safe
         ELSE Sensitive

\* The same for the statements row_write reports: DEL key, SET key value NX
\* and EVAL with the update script; a rename's EVAL embeds keys only.
RowWriteVerb == [delete |-> "DEL", insert |-> "SET", edit |-> "EVAL", rename |-> "EVAL"]
RowWriteMetadata(write) == IF write \in {"delete", "rename"} THEN Safe ELSE Sensitive

-----------------------------------------------------------------------------
(* redis_commands: the advertised commands, each with the arguments it      *)
(* needs and the position of the first stored value among them (0: none)    *)

Usage(required, value) == [required |-> required, value |-> value]

redis_commands ==
    [PING |-> Usage(0, 0), TYPE |-> Usage(1, 0), GET |-> Usage(1, 0), SET |-> Usage(2, 2),
     DEL |-> Usage(1, 0), EXISTS |-> Usage(1, 0), HGETALL |-> Usage(1, 0), HGET |-> Usage(2, 0),
     HSET |-> Usage(3, 3), LRANGE |-> Usage(3, 0), LPUSH |-> Usage(2, 2), SMEMBERS |-> Usage(1, 0),
     SADD |-> Usage(2, 2), ZRANGE |-> Usage(3, 0), ZADD |-> Usage(3, 2), SCAN |-> Usage(1, 0),
     SELECT |-> Usage(1, 0)]

\* Redis (external): the position of the first stored value, or of the
\* message that PING may carry beyond its advertised usage.
FirstPayload(verb) == IF verb = "PING" THEN 1 ELSE redis_commands[verb].value

-----------------------------------------------------------------------------
(* WRONGTYPE guidance                                                       *)

NoFamily == "none"

StringVerbs ==
    {"GET", "SET", "SETNX", "SETEX", "PSETEX", "GETSET", "GETEX", "GETDEL", "APPEND", "STRLEN",
     "GETRANGE", "SETRANGE", "INCR", "INCRBY", "INCRBYFLOAT", "DECR", "DECRBY"}
HashVerbs ==
    {"HSET", "HSETNX", "HGET", "HGETALL", "HDEL", "HEXISTS", "HLEN", "HKEYS", "HVALS", "HMGET",
     "HMSET", "HINCRBY", "HINCRBYFLOAT", "HSTRLEN"}
ListVerbs ==
    {"LPUSH", "LPUSHX", "RPUSH", "RPUSHX", "LPOP", "RPOP", "LLEN", "LRANGE", "LINDEX", "LSET",
     "LREM", "LTRIM", "LINSERT", "LPOS"}
SetVerbs ==
    {"SADD", "SREM", "SMEMBERS", "SISMEMBER", "SCARD", "SPOP", "SRANDMEMBER", "SMISMEMBER"}
SortedSetVerbs ==
    {"ZADD", "ZREM", "ZRANGE", "ZCARD", "ZSCORE", "ZRANK", "ZREVRANK", "ZINCRBY", "ZCOUNT",
     "ZRANGEBYSCORE", "ZREVRANGE"}

\* wrongtype_verb: the types a single-key command accepts.
WrongtypeVerb(verb) ==
    CASE verb \in StringVerbs -> "strings"
      [] verb \in HashVerbs -> "hashes"
      [] verb \in ListVerbs -> "lists"
      [] verb \in SetVerbs -> "sets"
      [] verb \in SortedSetVerbs -> "sorted sets"
      [] OTHER -> NoFamily

\* type_read_command: the command that reads a key of this type.
TypeReadCommand(type) ==
    CASE type = "string" -> "GET"
      [] type = "hash" -> "HGETALL"
      [] type = "list" -> "LRANGE"
      [] type = "set" -> "SMEMBERS"
      [] type = "zset" -> "ZRANGE"
      [] OTHER -> "none"

\* The arguments wrongtype_guidance gives it.
SuggestedArgs(verb) ==
    CASE verb = "LRANGE" -> 3
      [] verb = "ZRANGE" -> 4
      [] OTHER -> 1

\* Redis (external): the family a type belongs to.
FamilyOf(type) ==
    CASE type = "string" -> "strings"
      [] type = "hash" -> "hashes"
      [] type = "list" -> "lists"
      [] type = "set" -> "sets"
      [] type = "zset" -> "sorted sets"
      [] OTHER -> "other"

Verbs ==
    READ_ONLY_COMMANDS \cup SENSITIVE_COMMANDS \cup SAFE_WRITE_COMMANDS \cup StringVerbs
      \cup HashVerbs \cup ListVerbs \cup SetVerbs \cup SortedSetVerbs
=============================================================================
