------------------------------- MODULE Config -------------------------------
(***************************************************************************)
(* What s3events/config.py makes of a configuration file: the validated    *)
(* settings, no Iceberg section, a ConfigError, or an exception of another *)
(* kind.  The settings the consumer's models take for granted (module      *)
(* IcebergSink's SinkAssumption) are what this module is about.            *)
(*                                                                         *)
(* A setting is [t, n]: a missing key, a number (n where the code looks at *)
(* it), a string of one of the kinds below, or something else.             *)
(***************************************************************************)
EXTENDS Integers, FiniteSets

Setting(t, n) == [t |-> t, n |-> n]
Missing == Setting("missing", 0)

\* Numbers: json.loads reads whole numbers, some too large for float(),
\* fractions, Infinity and NaN.
NumberKinds == {"whole", "huge", "fraction", "inf", "minusInf", "nan"}

\* Literal strings, and references to the environment.  "malformed" is no name
\* and nothing else is wrong with it (one with a space in it, or a variable's
\* value that is itself written like a reference); "padded" is a reference to a
\* good variable with blanks before it, a literal where nobody strips it first;
\* "envUnset" names no variable at all, or one that is not set.
LiteralKinds == {"good", "blank", "placeholder", "malformed", "padded"}
EnvKinds == {"envGood", "envBlank", "envPlaceholder", "envMalformed", "envUnset"}
StringKinds == LiteralKinds \cup EnvKinds

ConfigError == Setting("ConfigError", 0)

\* An exception main() does not catch.
OtherError == Setting("OtherError", 0)

Failed(v) == v \in {ConfigError, OtherError}

\* resolve_env_reference
ResolveEnvReference(v) ==
    CASE v.t = "envUnset"       -> ConfigError
      [] v.t = "envGood"        -> Setting("good", 0)
      [] v.t = "envBlank"       -> Setting("blank", 0)
      [] v.t = "envPlaceholder" -> Setting("placeholder", 0)
      [] v.t = "envMalformed"   -> Setting("malformed", 0)
      [] OTHER                  -> v

\* str.strip() of the topic and of the identifiers.
Stripped(v) == IF v.t = "padded" THEN Setting("envGood", 0) ELSE v

\* _identifier: a name that is good after any reference is resolved.
Identifier(v, default) ==
    LET value == IF v = Missing THEN default ELSE v
        name == ResolveEnvReference(Stripped(value))
    IN IF value.t \notin StringKinds \/ name.t # "good" THEN ConfigError ELSE name

\* _positive_number: a NaN is not refused, for it is not <= 0 either; float() of
\* a number too large for it raises.
PositiveNumber(v, default) ==
    LET value == IF v = Missing THEN default ELSE v
    IN IF value.t \notin NumberKinds THEN ConfigError
       ELSE IF value.t = "minusInf" \/ (value.t \in {"whole", "fraction"} /\ value.n <= 0)
       THEN ConfigError
       ELSE IF value.t = "huge" THEN OtherError ELSE value

\* Mutant: the fraction is cut off.
WholeNumberCut(v, default) ==
    LET value == PositiveNumber(v, default)
    IN IF Failed(value) THEN value
       ELSE IF value.t \in {"inf", "nan"} THEN OtherError
       ELSE Setting("whole", IF value.t = "fraction" THEN value.n - 1 ELSE value.n)

\* The settings that must be whole: int() of an infinity or a NaN raises.  A
\* fraction n stands for a number between n - 1 and n.
WholeNumber(v, default) ==
    LET value == PositiveNumber(v, default)
    IN IF Failed(value) THEN value
       ELSE IF value.t \in {"inf", "nan"} THEN OtherError
       ELSE IF value.t = "fraction" THEN ConfigError ELSE value

BufferLimitMultiple == 10

(***************************************************************************)
(* _parse_iceberg: the catalog, the names, then the numbers, in the order  *)
(* of the code; the first failure ends it.                                 *)
(***************************************************************************)
\* A catalog property is a string in the end; only lists and objects are refused.
CatalogProperty(v) ==
    CASE v.t \in NumberKinds \cup {"bool"} -> Setting("good", 0)
      [] v.t = "other"                      -> ConfigError
      [] OTHER                              -> ResolveEnvReference(v)

CatalogOK(section) ==
    LET uri == CatalogProperty(section.uri)
        secret == CatalogProperty(section.secret)
    IN /\ ~Failed(uri) /\ uri.t \notin {"missing", "blank", "placeholder"}
       /\ ~Failed(secret) /\ secret.t # "placeholder"

RoomForBatch(maxBuffered, batchSize) == maxBuffered.n >= batchSize.n

ParseIceberg(section) ==
    LET names == << Identifier(section.namespace, Setting("good", 0)),
                    Identifier(section.table, Setting("good", 0)),
                    Identifier(section.catalog_name, Setting("good", 0)) >>
        batchSize == WholeNumber(section.batch_size, Setting("whole", 100))
        flushInterval == PositiveNumber(section.flush_interval_seconds, Setting("whole", 10))
        attempts == WholeNumber(section.max_flush_attempts, Setting("whole", 5))
        backoff == PositiveNumber(section.retry_backoff_seconds, Setting("whole", 5))
        maxBuffered == WholeNumber(section.max_buffered_records,
                                   Setting("whole", batchSize.n * BufferLimitMultiple))
        flag == IF section.create_if_missing.t \in {"missing", "bool"} THEN Missing ELSE ConfigError
        steps == << IF CatalogOK(section) THEN Missing ELSE ConfigError, names[3], names[1], names[2],
                    batchSize, flushInterval, flag, attempts, backoff, maxBuffered >>
        failures == { i \in DOMAIN steps : Failed(steps[i]) }
        first == CHOOSE i \in failures : \A j \in failures : i <= j
    IN IF failures # {} THEN [kind |-> steps[first].t]
       ELSE IF ~RoomForBatch(maxBuffered, batchSize) THEN [kind |-> "ConfigError"]
       ELSE [kind |-> "accepted", uri |-> CatalogProperty(section.uri),
             secret |-> CatalogProperty(section.secret), names |-> names,
             batch_size |-> batchSize.n, max_flush_attempts |-> attempts.n,
             max_buffered_records |-> maxBuffered.n,
             flush_interval_seconds |-> flushInterval, retry_backoff_seconds |-> backoff]

(***************************************************************************)
(* _parse_kafka: every setting for librdkafka is resolved first, whatever  *)
(* its name ("option" stands for the ones nobody looks at); those that are *)
(* not strings pass.  Every failure is a ConfigError.                      *)
(***************************************************************************)
ParseKafka(document) ==
    LET servers == ResolveEnvReference(document.servers)
        group == ResolveEnvReference(document.group)
        option == ResolveEnvReference(document.option)
        topic == ResolveEnvReference(Stripped(document.topic))
    IN IF \/ document.kafka_config.t # "object"
          \/ Failed(servers) \/ Failed(group) \/ Failed(option)
          \/ document.topic.t \notin StringKinds \ {"blank"}
          \/ Failed(topic) \/ topic.t = "blank"
          \/ servers.t \notin StringKinds \ {"blank", "placeholder"}
          \/ group.t \notin StringKinds \ {"blank"}
       THEN [kind |-> "ConfigError"]
       ELSE [kind |-> "accepted", servers |-> servers, group |-> group, topic |-> topic]

\* load_app_config: the Kafka half first; the section may be absent or off.
LoadAppConfig(document) ==
    LET enabled == document.enabled.t
        kafka == ParseKafka(document)
        iceberg == ParseIceberg(document)
    IN CASE kafka.kind # "accepted" -> kafka
         [] enabled \in {"absent", "false"} -> [kind |-> "consoleOnly", kafka |-> kafka]
         [] enabled \notin {"missing", "true"} -> [kind |-> "ConfigError"]
         [] iceberg.kind # "accepted" -> iceberg
         [] OTHER -> [kind |-> "accepted", kafka |-> kafka, iceberg |-> iceberg]
=============================================================================
