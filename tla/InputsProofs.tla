---------------------------- MODULE InputsProofs ----------------------------
(***************************************************************************)
(* Proofs about what the consumer's two inputs become, for every           *)
(* configuration and every payload: TLC runs the code over a bounded set   *)
(* of them (module MCInputs), here a document may have any value in every  *)
(* setting and a payload any number of records with any values.            *)
(***************************************************************************)
EXTENDS MCInputs, FiniteSetTheorems, SequenceTheorems, TLAPS

(***************************************************************************)
(* Every configuration and every payload.  A timestamp without an offset   *)
(* is read as an instant of the calendar.                                  *)
(***************************************************************************)
Keys == DOMAIN GoodDocument

SettingKinds == StringKinds \cup NumberKinds \cup {"missing", "bool", "other"}

EnabledKinds == {"absent", "missing", "true", "false", "other"}

SectionKinds == {"object", "empty", "other"}

KindsOf(k) ==
    IF k = "enabled" THEN EnabledKinds
    ELSE IF k = "kafka_config" THEN SectionKinds ELSE SettingKinds

AnyDocument ==
    { d \in [Keys -> [t : SettingKinds \cup EnabledKinds \cup SectionKinds, n : Int]] :
        \A k \in Keys : d[k].t \in KindsOf(k) }

AnyValue == { v \in [t : Kinds, n : Int, off : Int] : v.t = "naive" => v.n \in Calendar }

AnyRecord == [RecordKeys -> AnyValue]

AnyPayload ==
    [isObject : BOOLEAN, hasRecords : BOOLEAN, isList : BOOLEAN, records : Seq(AnyRecord),
     fields : AnyRecord, Event : AnyValue, Service : AnyValue, Bucket : AnyValue, Time : AnyValue]

AnyInit ==
    /\ \/ kind = "config" /\ input \in AnyDocument
       \/ kind = "event" /\ input \in AnyPayload
    /\ result = <<>>
    /\ done = FALSE

AnySpec == AnyInit /\ [][Next]_vars

\* Once the code has run, its result is that of the input.
InputsInv ==
    /\ kind \in {"config", "event"}
    /\ kind = "config" => input \in AnyDocument
    /\ kind = "event" => input \in AnyPayload
    /\ Loaded => result = LoadAppConfig(input)
    /\ Flattened => result = FlattenEvent(input)

\* Each input is read once, by the function for its kind.
LEMMA InputsInvAlways == AnySpec => []InputsInv
<1>1. AnyInit => InputsInv
  BY DEF AnyInit, InputsInv, Loaded, Flattened
<1>2. InputsInv /\ [Next]_vars => InputsInv'
  <2> SUFFICES ASSUME InputsInv, [Next]_vars PROVE InputsInv'
    OBVIOUS
  <2>1. CASE LoadConfig
    BY <2>1 DEF LoadConfig, InputsInv, Loaded, Flattened
  <2>2. CASE FlattenPayload
    BY <2>2 DEF FlattenPayload, InputsInv, Loaded, Flattened
  <2>3. CASE UNCHANGED vars
    BY <2>3 DEF vars, InputsInv, Loaded, Flattened
  <2> QED
    BY <2>1, <2>2, <2>3 DEF Next
<1> QED
  BY <1>1, <1>2, PTL DEF AnySpec

(***************************************************************************)
(* Least elements.                                                         *)
(***************************************************************************)
\* A set of naturals that has an element has a least one.
LEMMA LeastNatural ==
  ASSUME NEW T \in SUBSET Nat, T # {}
  PROVE \E x \in T : \A y \in T : x <= y
<1> DEFINE Below(x) == 0..x
           B == { Below(x) : x \in T }
<1>1. \A x \in T : Below(x) \in FiniteSubsetsOf(Nat)
  <2> TAKE x \in T
  <2>1. IsFiniteSet(0..x)
    BY FS_Interval
  <2> QED BY <2>1 DEF FiniteSubsetsOf
<1>2. B \subseteq FiniteSubsetsOf(Nat) /\ B # {}
  BY <1>1
<1>3. \E b \in B : \A c \in B : <<c, b>> \notin StrictSubsetOrdering(Nat)
  <2>1. IsWellFoundedOn(StrictSubsetOrdering(Nat), FiniteSubsetsOf(Nat))
    BY FS_StrictSubsetOrderingWellFounded
  <2> HIDE DEF B
  <2> QED BY <1>2, <2>1, WFMin
<1>4. PICK x \in T : \A y \in T : <<Below(y), Below(x)>> \notin StrictSubsetOrdering(Nat)
  BY <1>3
<1>5. ASSUME NEW y \in T, ~(x <= y)
      PROVE FALSE
  <2>1. Below(y) \subseteq Below(x) /\ x \in Below(x) /\ x \notin Below(y)
    BY <1>5
  <2>2. Below(x) \in SUBSET Nat /\ Below(y) \in SUBSET Nat
    OBVIOUS
  <2>3. <<Below(y), Below(x)>> \in StrictSubsetOrdering(Nat)
    <3> HIDE DEF Below
    <3> QED BY <2>1, <2>2 DEF StrictSubsetOrdering
  <2> QED BY <1>4, <2>3
<1> QED BY <1>5


\* The minimum of a set of naturals is its least element.
LEMMA MinProperties ==
    ASSUME NEW T \in SUBSET Nat, T # {}
    PROVE  Min(T) \in T /\ \A y \in T : Min(T) <= y
<1>1. \E x \in T : \A y \in T : x <= y
  BY LeastNatural
<1>2. \E x \in T : \A y \in T : x =< y
  BY <1>1
<1> QED
  BY <1>2 DEF Min

(***************************************************************************)
(* Settings.                                                               *)
(***************************************************************************)
\* A number that passed has a kind that is not refused, and is positive.
LEMMA PositiveNumberPasses ==
    ASSUME NEW v, NEW default, ~Failed(PositiveNumber(v, default)),
           v.n \in Int, default.n \in Int
    PROVE  LET w == PositiveNumber(v, default)
           IN /\ w.t \in NumberKinds \ {"minusInf", "huge"} /\ w.n \in Int
              /\ w.t \in {"whole", "fraction"} => w.n >= 1
BY DEF PositiveNumber, Failed, NumberKinds, ConfigError

\* A whole number that passed is at least one.
LEMMA WholeNumberPasses ==
    ASSUME NEW v, NEW default, ~Failed(WholeNumber(v, default)),
           v.n \in Int, default.n \in Int
    PROVE  WholeNumber(v, default).n \in Int /\ WholeNumber(v, default).n >= 1
<1> DEFINE value == PositiveNumber(v, default)
<1>1. ~Failed(value)
  BY DEF WholeNumber
<1>2. value.t \in NumberKinds \ {"minusInf", "huge"} /\ value.n \in Int
      /\ (value.t \in {"whole", "fraction"} => value.n >= 1)
  BY <1>1, PositiveNumberPasses
<1> HIDE DEF value
<1>3. WholeNumber(v, default) = IF value.t \in {"inf", "nan"} THEN OtherError
                                ELSE IF value.t = "fraction" THEN ConfigError ELSE value
  BY <1>1 DEF WholeNumber, value
<1>4. value.t \notin {"inf", "nan", "fraction"}
  BY <1>3 DEF Failed
<1>5. WholeNumber(v, default) = value /\ value.t = "whole"
  BY <1>2, <1>3, <1>4 DEF NumberKinds
<1> QED
  BY <1>2, <1>5

\* What Identifier passes is a good name.
LEMMA IdentifierPasses ==
    ASSUME NEW v, NEW default, ~Failed(Identifier(v, default))
    PROVE  Identifier(v, default).t = "good"
BY DEF Identifier, Failed

\* What the catalog needs, when it has it.
LEMMA CatalogPasses ==
    ASSUME NEW section, section.uri.t \in SettingKinds, section.secret.t \in SettingKinds,
           CatalogOK(section)
    PROVE  /\ CatalogProperty(section.uri).t \in Unobjectionable
           /\ CatalogProperty(section.secret).t # "placeholder"
<1>1. ASSUME NEW v, v.t \in SettingKinds, ~Failed(CatalogProperty(v))
      PROVE  CatalogProperty(v).t \in LiteralKinds \cup {"missing"}
  BY <1>1 DEF CatalogProperty, ResolveEnvReference, Failed, SettingKinds, StringKinds,
              LiteralKinds, EnvKinds, NumberKinds, Setting
<1>2. /\ ~Failed(CatalogProperty(section.uri))
      /\ CatalogProperty(section.uri).t \notin {"missing", "blank", "placeholder"}
      /\ ~Failed(CatalogProperty(section.secret))
      /\ CatalogProperty(section.secret).t # "placeholder"
  BY DEF CatalogOK
<1> QED
  BY <1>1, <1>2 DEF LiteralKinds, Unobjectionable

\* What the settings of the Iceberg half are to satisfy, and of the Kafka half.
IcebergWorks(iceberg) ==
    /\ iceberg.batch_size >= 1 /\ iceberg.max_flush_attempts >= 1
    /\ iceberg.max_buffered_records >= iceberg.batch_size
    /\ iceberg.uri.t \in Unobjectionable
    /\ \A i \in DOMAIN iceberg.names : iceberg.names[i].t = "good"
    /\ iceberg.secret.t # "placeholder"

KafkaWorks(kafka) ==
    /\ kafka.servers.t \in Unobjectionable
    /\ kafka.group.t \in Unobjectionable \cup {"placeholder"}
    /\ kafka.topic.t \in Unobjectionable \cup {"placeholder"}

\* A Kafka half that is let through has passed every one of the checks.
LEMMA ParseKafkaWorks ==
    ASSUME NEW document \in AnyDocument, ParseKafka(document).kind = "accepted"
    PROVE  KafkaWorks(ParseKafka(document))
<1> DEFINE servers == ResolveEnvReference(document.servers)
           group == ResolveEnvReference(document.group)
           topic == ResolveEnvReference(Stripped(document.topic))
<1>1. /\ ParseKafka(document) = [kind |-> "accepted", servers |-> servers, group |-> group, topic |-> topic]
      /\ ~Failed(topic) /\ topic.t # "blank" /\ document.topic.t \in StringKinds \ {"blank"}
      /\ servers.t \in StringKinds \ {"blank", "placeholder"}
      /\ group.t \in StringKinds \ {"blank"}
  BY DEF ParseKafka
<1>2. ASSUME NEW v
      PROVE  ResolveEnvReference(v).t \in LiteralKinds \/ ResolveEnvReference(v).t \notin StringKinds
  BY DEF ResolveEnvReference, StringKinds, LiteralKinds, EnvKinds, ConfigError, Setting
<1>3. topic.t \in LiteralKinds
  <2>1. ASSUME NEW v, v.t \in StringKinds, ~Failed(ResolveEnvReference(v))
        PROVE  ResolveEnvReference(v).t \in LiteralKinds
    BY <2>1 DEF ResolveEnvReference, Failed, StringKinds, LiteralKinds, EnvKinds, Setting
  <2>2. Stripped(document.topic).t \in StringKinds
    BY <1>1 DEF Stripped, StringKinds, EnvKinds, Setting
  <2> QED
    BY <1>1, <2>1, <2>2
<1> HIDE DEF servers, group, topic
<1>4. servers.t \in LiteralKinds /\ group.t \in LiteralKinds
  BY <1>1, <1>2 DEF servers, group
<1> QED
  BY <1>1, <1>3, <1>4 DEF KafkaWorks, Unobjectionable, LiteralKinds

\* An Iceberg section that is let through has passed every one of the checks.
LEMMA ParseIcebergWorks ==
    ASSUME NEW section \in AnyDocument, ParseIceberg(section).kind = "accepted"
    PROVE  IcebergWorks(ParseIceberg(section))
<1> DEFINE names == << Identifier(section.namespace, Setting("good", 0)),
                       Identifier(section.table, Setting("good", 0)),
                       Identifier(section.catalog_name, Setting("good", 0)) >>
           batchSize == WholeNumber(section.batch_size, Setting("whole", 100))
           flushInterval == PositiveNumber(section.flush_interval_seconds, Setting("whole", 10))
           attempts == WholeNumber(section.max_flush_attempts, Setting("whole", 5))
           backoff == PositiveNumber(section.retry_backoff_seconds, Setting("whole", 5))
           maxBuffered == WholeNumber(section.max_buffered_records,
                                      Setting("whole", batchSize.n * BufferLimitMultiple))
           flag == IF section.create_if_missing.t \in {"missing", "bool"} THEN Missing ELSE ConfigError
           catalog == IF CatalogOK(section) THEN Missing ELSE ConfigError
           steps == << catalog, names[3], names[1], names[2],
                       batchSize, flushInterval, flag, attempts, backoff, maxBuffered >>
           failures == { i \in DOMAIN steps : Failed(steps[i]) }
           first == CHOOSE i \in failures : \A j \in failures : i <= j
           accepted == [kind |-> "accepted", uri |-> CatalogProperty(section.uri),
                        secret |-> CatalogProperty(section.secret), names |-> names,
                        batch_size |-> batchSize.n, max_flush_attempts |-> attempts.n,
                        max_buffered_records |-> maxBuffered.n,
                        flush_interval_seconds |-> flushInterval, retry_backoff_seconds |-> backoff]
<1>1. ParseIceberg(section) =
        IF failures # {} THEN [kind |-> steps[first].t]
        ELSE IF ~RoomForBatch(maxBuffered, batchSize) THEN [kind |-> "ConfigError"]
        ELSE accepted
  BY DEF ParseIceberg
<1>2. DOMAIN steps = 1..10
  OBVIOUS
<1>3. /\ steps[1] = catalog /\ steps[2] = names[3] /\ steps[3] = names[1] /\ steps[4] = names[2]
      /\ steps[5] = batchSize /\ steps[8] = attempts /\ steps[10] = maxBuffered
  OBVIOUS
<1>4. section.batch_size.n \in Int /\ section.max_flush_attempts.n \in Int
      /\ section.max_buffered_records.n \in Int
      /\ section.uri.t \in SettingKinds /\ section.secret.t \in SettingKinds
  BY DEF AnyDocument, Keys, GoodDocument, KindsOf
<1>5. /\ names[1] = Identifier(section.namespace, Setting("good", 0))
      /\ names[2] = Identifier(section.table, Setting("good", 0))
      /\ names[3] = Identifier(section.catalog_name, Setting("good", 0))
      /\ DOMAIN names = 1..3
  OBVIOUS
<1> HIDE DEF names, steps, accepted, catalog
<1>6. failures = {}
  <2> SUFFICES ASSUME failures # {} PROVE FALSE
    OBVIOUS
  <2>1. failures \in SUBSET Nat
    BY <1>2
  <2> HIDE DEF failures
  <2>2. \E i \in failures : \A j \in failures : i <= j
    BY <2>1, LeastNatural
  <2>3. first \in failures
    BY <2>2
  <2>4. Failed(steps[first])
    BY <2>3 DEF failures
  <2>5. steps[first].t # "accepted"
    BY <2>4 DEF Failed, ConfigError, OtherError, Setting
  <2> HIDE DEF first
  <2> QED
    BY <1>1, <2>5
<1>7. \A i \in 1..10 : ~Failed(steps[i])
  BY <1>2, <1>6
<1> HIDE DEF failures, first
<1>8. RoomForBatch(maxBuffered, batchSize) /\ ParseIceberg(section) = accepted
  BY <1>1, <1>6
<1>9. CatalogOK(section)
  BY <1>3, <1>7 DEF catalog, Failed
<1>10. \A i \in DOMAIN names : names[i].t = "good"
  BY <1>3, <1>5, <1>7, IdentifierPasses
<1>11. batchSize.n \in Int /\ batchSize.n >= 1
  <2>1. Setting("whole", 100).n \in Int
    BY DEF Setting
  <2> QED
    BY <1>3, <1>4, <1>7, <2>1, WholeNumberPasses
<1>12. attempts.n \in Int /\ attempts.n >= 1
  <2>1. Setting("whole", 5).n \in Int
    BY DEF Setting
  <2> QED
    BY <1>3, <1>4, <1>7, <2>1, WholeNumberPasses
<1> HIDE DEF batchSize, attempts, maxBuffered
<1>13. maxBuffered.n >= batchSize.n
  BY <1>8 DEF RoomForBatch
<1>14. /\ accepted.batch_size = batchSize.n /\ accepted.max_flush_attempts = attempts.n
       /\ accepted.max_buffered_records = maxBuffered.n
       /\ accepted.uri = CatalogProperty(section.uri)
       /\ accepted.secret = CatalogProperty(section.secret) /\ accepted.names = names
  BY DEF accepted
<1> QED
  BY <1>4, <1>8, <1>9, <1>10, <1>11, <1>12, <1>13, <1>14, CatalogPasses DEF IcebergWorks

\* What any document becomes, when it is accepted.
LEMMA AcceptedDocumentWorks ==
    ASSUME NEW document \in AnyDocument, LoadAppConfig(document).kind = "accepted"
    PROVE  /\ KafkaWorks(LoadAppConfig(document).kafka)
           /\ IcebergWorks(LoadAppConfig(document).iceberg)
<1>1. /\ LoadAppConfig(document) = [kind |-> "accepted", kafka |-> ParseKafka(document),
                                   iceberg |-> ParseIceberg(document)]
      /\ ParseKafka(document).kind = "accepted" /\ ParseIceberg(document).kind = "accepted"
  <2> DEFINE enabled == document.enabled.t
             kafka == ParseKafka(document)
             iceberg == ParseIceberg(document)
  <2>1. LoadAppConfig(document) =
          CASE kafka.kind # "accepted" -> kafka
            [] enabled \in {"absent", "false"} -> [kind |-> "consoleOnly", kafka |-> kafka]
            [] enabled \notin {"missing", "true"} -> [kind |-> "ConfigError"]
            [] iceberg.kind # "accepted" -> iceberg
            [] OTHER -> [kind |-> "accepted", kafka |-> kafka, iceberg |-> iceberg]
    BY DEF LoadAppConfig
  <2> HIDE DEF kafka, iceberg, enabled
  <2>2. \/ kafka.kind # "accepted" /\ LoadAppConfig(document) \in {kafka,
              [kind |-> "consoleOnly", kafka |-> kafka], [kind |-> "ConfigError"], iceberg}
        \/ LoadAppConfig(document) \in {[kind |-> "consoleOnly", kafka |-> kafka], [kind |-> "ConfigError"]}
        \/ iceberg.kind # "accepted" /\ LoadAppConfig(document) \in {kafka, iceberg}
        \/ /\ kafka.kind = "accepted" /\ iceberg.kind = "accepted"
           /\ LoadAppConfig(document) = [kind |-> "accepted", kafka |-> kafka, iceberg |-> iceberg]
    BY <2>1
  <2> QED
    BY <2>1, <2>2 DEF kafka, iceberg
<1> QED
  BY <1>1, ParseKafkaWorks, ParseIcebergWorks

\* Whatever the file says, a configuration that comes through validation has the
\* whole settings, the addresses, the group, the topic and the names the
\* consumer needs, and no placeholder where a placeholder is refused.
THEOREM AcceptedConfigurations == AnySpec => []AcceptedSettingsWork
<1>1. InputsInv => AcceptedSettingsWork
  <2> SUFFICES ASSUME InputsInv, Loaded, result.kind = "accepted"
               PROVE  KafkaWorks(result.kafka) /\ IcebergWorks(result.iceberg)
    BY DEF AcceptedSettingsWork, KafkaWorks, IcebergWorks
  <2>1. input \in AnyDocument /\ result = LoadAppConfig(input)
    BY DEF InputsInv, Loaded
  <2> QED
    BY <2>1, AcceptedDocumentWorks
<1> QED
  BY <1>1, InputsInvAlways, PTL

(***************************************************************************)
(* Columns.                                                                *)
(***************************************************************************)
\* The keys the columns look for are those of a record.
LEMMA KeysOfRecords ==
    /\ DOMAIN NameKeys = 1..2 /\ DOMAIN TimeKeys = 1..2 /\ DOMAIN SourceKeys = 1..1
    /\ DOMAIN SizeKeys = 1..3
    /\ \A keys \in {NameKeys, TimeKeys, SourceKeys, SizeKeys} :
        \A i \in DOMAIN keys : keys[i] \in RecordKeys
    /\ {"eventName", "EventName", "eventSource"} \subseteq RecordKeys
<1>1. DOMAIN NameKeys = 1..2 /\ DOMAIN TimeKeys = 1..2 /\ DOMAIN SourceKeys = 1..1
      /\ DOMAIN SizeKeys = 1..3
  BY DEF NameKeys, TimeKeys, SourceKeys, SizeKeys
<1>2. \A keys \in {NameKeys, TimeKeys, SourceKeys, SizeKeys} :
        \A i \in DOMAIN keys : keys[i] \in RecordKeys
  BY DEF RecordKeys
<1>3. NameKeys[1] = "eventName" /\ NameKeys[2] = "EventName" /\ SourceKeys[1] = "eventSource"
  BY DEF NameKeys, SourceKeys
<1> QED
  BY <1>1, <1>2, <1>3

\* What is found where there is nothing.
LEMMA NoneIsValue == None \in AnyValue /\ NoRecord \in AnyRecord
<1>1. None \in AnyValue
  BY DEF None, Value, AnyValue, Kinds
<1> QED
  BY <1>1 DEF NoRecord, AnyRecord

\* A string column is null, or the value under one of its keys, as a string.
LEMMA FirstStringIsOne ==
    ASSUME NEW source, NEW keys, DOMAIN keys \subseteq Nat
    PROVE  \/ FirstString(source, keys) = None
           \/ \E i \in DOMAIN keys :
                /\ source[keys[i]].t \in (Strings \ {"blank"}) \cup Numbers
                /\ FirstString(source, keys) = AsString(source[keys[i]])
<1> DEFINE usable == { i \in DOMAIN keys : source[keys[i]].t \in (Strings \ {"blank"}) \cup Numbers }
<1>1. FirstString(source, keys) = IF usable = {} THEN None ELSE AsString(source[keys[Min(usable)]])
  BY DEF FirstString
<1>2. usable # {} => Min(usable) \in usable
  <2>1. usable \in SUBSET Nat
    OBVIOUS
  <2> QED
    BY <2>1, MinProperties
<1> QED
  BY <1>1, <1>2

\* The value under the first key, when it is usable, is the column's.
LEMMA FirstStringOfFirst ==
    ASSUME NEW source, NEW keys, DOMAIN keys \subseteq Nat \ {0}, 1 \in DOMAIN keys,
           source[keys[1]].t \in Strings \ {"blank"}
    PROVE  FirstString(source, keys) = source[keys[1]]
<1> DEFINE usable == { i \in DOMAIN keys : source[keys[i]].t \in (Strings \ {"blank"}) \cup Numbers }
<1>1. FirstString(source, keys) = IF usable = {} THEN None ELSE AsString(source[keys[Min(usable)]])
  BY DEF FirstString
<1>2. 1 \in usable /\ usable \in SUBSET Nat
  OBVIOUS
<1>3. Min(usable) \in usable /\ Min(usable) <= 1
  BY <1>2, MinProperties
<1>4. Min(usable) = 1
  BY <1>3
<1>5. AsString(source[keys[1]]) = source[keys[1]]
  BY DEF AsString, Strings, Numbers
<1> QED
  BY <1>1, <1>2, <1>4, <1>5

\* A size is null, the exception, or that of the first key that ends the scan.
LEMMA FirstIntIsFirst ==
    ASSUME NEW source
    PROVE  LET stops == { i \in DOMAIN SizeKeys :
                            \/ Unconvertible(source[SizeKeys[i]])
                            \/ IsInteger(source[SizeKeys[i]]) /\ source[SizeKeys[i]].n \in Long }
           IN \/ stops = {} /\ FirstInt(source, SizeKeys) = None
              \/ FirstInt(source, SizeKeys) = Raises
              \/ \E i \in stops :
                    /\ IsInteger(source[SizeKeys[i]]) /\ source[SizeKeys[i]].n \in Long
                    /\ \A j \in stops : i <= j
                    /\ FirstInt(source, SizeKeys) = Value("int", source[SizeKeys[i]].n, 0)
<1> DEFINE stops == { i \in DOMAIN SizeKeys :
                        \/ Unconvertible(source[SizeKeys[i]])
                        \/ IsInteger(source[SizeKeys[i]]) /\ source[SizeKeys[i]].n \in Long }
<1> DEFINE v == source[SizeKeys[Min(stops)]]
<1>1. FirstInt(source, SizeKeys) = IF stops = {} THEN None
                                   ELSE IF Unconvertible(v) THEN Raises ELSE Value("int", v.n, 0)
  BY DEF FirstInt
<1>2. stops \in SUBSET Nat
  BY KeysOfRecords
<1>3. stops # {} => Min(stops) \in stops /\ \A j \in stops : Min(stops) <= j
  <2> HIDE DEF stops
  <2> QED
    BY <1>2, MinProperties
<1>4. \A k \in stops : \/ Unconvertible(source[SizeKeys[k]])
                       \/ IsInteger(source[SizeKeys[k]]) /\ source[SizeKeys[k]].n \in Long
  OBVIOUS
<1>5. \/ stops = {} /\ FirstInt(source, SizeKeys) = None
      \/ FirstInt(source, SizeKeys) = Raises
      \/ \E i \in stops :
            /\ IsInteger(source[SizeKeys[i]]) /\ source[SizeKeys[i]].n \in Long
            /\ \A j \in stops : i <= j
            /\ FirstInt(source, SizeKeys) = Value("int", source[SizeKeys[i]].n, 0)
  <2> HIDE DEF stops
  <2> QED
    BY <1>1, <1>3, <1>4
<1> QED
  BY <1>5

\* So are those of the text columns.
LEMMA TextKeysOfRecords ==
    \A keys \in {NameKeys, TimeKeys, SourceKeys, BucketKeys, ObjectKeys, TagKeys} :
        /\ DOMAIN keys \subseteq Nat
        /\ \A k \in DOMAIN keys : keys[k] \in RecordKeys
<1>1. \A keys \in {NameKeys, TimeKeys, SourceKeys, BucketKeys, ObjectKeys, TagKeys} :
        \A k \in DOMAIN keys : keys[k] \in RecordKeys
  BY DEF RecordKeys
<1>2. \A keys \in {NameKeys, TimeKeys, SourceKeys, BucketKeys, ObjectKeys, TagKeys} :
        DOMAIN keys \subseteq Nat
  BY DEF NameKeys, TimeKeys, SourceKeys, BucketKeys, ObjectKeys, TagKeys
<1> QED
  BY <1>1, <1>2

\* What the size and the time of a row are to satisfy.
ColumnsFit(row) ==
    /\ row.object_size.t \in {"none", "raises"} \/ row.object_size.n \in Long
    /\ row.event_time.t \in {"none", "raises"} \/ row.event_time.n \in Calendar

\* A text of a row: nothing or a string, a blank only of a key, and a lone
\* surrogate only if the record held one.
TextFits(c, v, record) ==
    /\ v.t \in Strings \cup {"none"}
    /\ v.t = "blank" => c = "object_key"
    /\ v.t = "surrogate" => \E key \in RecordKeys : record[key].t = "surrogate"

\* The values of a row do, for any record.
LEMMA RecordFits ==
    ASSUME NEW record \in AnyRecord, NEW i
    PROVE  /\ ColumnsFit(Columns(record, i))
           /\ \A c \in TextColumns : TextFits(c, Columns(record, i)[c], record)
<1> DEFINE row == Columns(record, i)
<1>1. /\ row.object_size = FirstInt(record, SizeKeys)
      /\ row.event_name = FirstString(record, NameKeys)
      /\ row.event_time = ParseTimestamp(FirstString(record, TimeKeys))
      /\ row["event_name"] = FirstString(record, NameKeys)
      /\ row["event_source"] = FirstString(record, SourceKeys)
      /\ row["bucket"] = FirstString(record, BucketKeys)
      /\ row["object_key"] = Unquoted(FirstString(record, ObjectKeys))
      /\ row["object_etag"] = FirstString(record, TagKeys)
  BY DEF Columns
<1> HIDE DEF row
<1>2. row.object_size.t \in {"none", "raises"} \/ row.object_size.n \in Long
  <2>1. Value("int", 0, 0).t = "int" /\ None.t = "none" /\ Raises.t = "raises"
        /\ \A n : Value("int", n, 0).n = n
    BY DEF Value, None, Raises
  <2> QED
    BY <1>1, <2>1, FirstIntIsFirst
<1>3. \A k \in RecordKeys : record[k] \in AnyValue
  BY DEF AnyRecord
<1>4. ASSUME NEW keys \in {NameKeys, SourceKeys, BucketKeys, ObjectKeys, TagKeys}
      PROVE  LET v == FirstString(record, keys)
             IN /\ v.t \in (Strings \ {"blank"}) \cup {"none"}
                /\ v.t = "surrogate" => \E key \in RecordKeys : record[key].t = "surrogate"
  <2>1. DOMAIN keys \subseteq Nat /\ \A k \in DOMAIN keys : keys[k] \in RecordKeys
    BY TextKeysOfRecords
  <2>2. \A k \in RecordKeys :
          record[k].t \in (Strings \ {"blank"}) \cup Numbers =>
            /\ AsString(record[k]).t \in Strings \ {"blank"}
            /\ AsString(record[k]).t = "surrogate" => record[k].t = "surrogate"
    BY DEF AsString, Value, Strings, Numbers
  <2>3. None.t = "none"
    BY DEF None, Value
  <2> QED
    BY <2>1, <2>2, <2>3, FirstStringIsOne
<1>5. ASSUME NEW c \in TextColumns
      PROVE  TextFits(c, row[c], record)
  <2>1. CASE c # "object_key"
    BY <1>1, <1>4, <2>1 DEF TextFits, TextColumns
  <2>2. CASE c = "object_key"
    <3> DEFINE w == FirstString(record, ObjectKeys)
    <3>1. /\ w.t \in (Strings \ {"blank"}) \cup {"none"}
          /\ w.t = "surrogate" => \E key \in RecordKeys : record[key].t = "surrogate"
      BY <1>4
    <3> HIDE DEF w
    <3>2. \/ Unquoted(w) = w /\ w.t \in {"none", "surrogate"}
          \/ Unquoted(w).t \in {"blank", "text"}
      BY DEF Unquoted, Value
    <3> QED
      BY <1>1, <2>2, <3>1, <3>2 DEF TextFits, Strings, w
  <2> QED
    BY <2>1, <2>2
<1>6. row.event_time.t \in {"none", "raises"} \/ row.event_time.n \in Calendar
  <2> DEFINE w == FirstString(record, TimeKeys)
  <2>1. w.t = "naive" => w.n \in Calendar
    <3>1. None.t = "none"
      BY DEF None, Value
    <3>2. \A k \in RecordKeys : AsString(record[k]).t = "naive" => AsString(record[k]).n \in Calendar
      <4> SUFFICES ASSUME NEW k \in RecordKeys, AsString(record[k]).t = "naive"
                   PROVE  AsString(record[k]).n \in Calendar
        OBVIOUS
      <4>1. record[k] \in AnyValue
        BY <1>3
      <4> QED
        BY <4>1, FlattenAssumption DEF AnyValue, AsString, Value, Numbers
    <3> QED
      BY <3>1, <3>2, FirstStringIsOne, KeysOfRecords
  <2>2. \/ w.t = "naive" /\ ParseTimestamp(w) = w
        \/ w.n \in Calendar /\ ParseTimestamp(w) = Value("naive", w.n, 0)
        \/ w.n - w.off \in Calendar /\ ParseTimestamp(w) = Value("naive", w.n - w.off, 0)
        \/ ParseTimestamp(w) \in {Raises, None}
    BY FlattenAssumption DEF ParseTimestamp
  <2>3. /\ Raises.t = "raises" /\ None.t = "none"
        /\ Value("naive", w.n - w.off, 0).n = w.n - w.off /\ Value("naive", w.n, 0).n = w.n
    BY DEF Raises, None, Value
  <2> QED
    BY <1>1, <2>1, <2>2, <2>3
<1> QED
  BY <1>2, <1>5, <1>6 DEF ColumnsFit, row

(***************************************************************************)
(* Payloads.                                                               *)
(***************************************************************************)
Listed(event) == event.isObject /\ event.hasRecords /\ event.isList

\* The records a payload is flattened from, an explicit empty list replaced.
Flat(event) == IF RecordsOf(event) = <<>> THEN <<NoRecord>> ELSE RecordsOf(event)

\* The record made of a test event bears its name and its service.
LEMMA TestRecordType ==
    ASSUME NEW event \in AnyPayload
    PROVE  /\ TestRecord(event) \in AnyRecord
           /\ TestRecord(event)["eventName"] = event.Event
           /\ TestRecord(event)["eventSource"] = event.Service
<1>1. /\ event.Event \in AnyValue /\ event.Service \in AnyValue /\ event.Bucket \in AnyValue
      /\ event.Time \in AnyValue
  BY DEF AnyPayload
<1>2. (IF NonBlank(event.Bucket) THEN event.Bucket ELSE None) \in AnyValue
  BY <1>1, NoneIsValue
<1>3. NoRecord \in [RecordKeys -> AnyValue]
  BY NoneIsValue DEF AnyRecord
<1>4. {"eventName", "eventSource"} \subseteq RecordKeys
  BY KeysOfRecords
<1> QED
  BY <1>1, <1>2, <1>3, <1>4 DEF TestRecord, AnyRecord

\* A payload is flattened from records, at least one.
LEMMA FlatType ==
    ASSUME NEW event \in AnyPayload
    PROVE  /\ Flat(event) \in Seq(AnyRecord)
           /\ Listed(event) /\ event.records # <<>> => Flat(event) = event.records
           /\ ~(Listed(event) /\ event.records # <<>>) => Len(Flat(event)) = 1
           /\ Listed(event) /\ event.records = <<>> => Flat(event) = <<NoRecord>>
           /\ ~event.isObject => Flat(event) = <<NoRecord>>
           /\ event.isObject /\ ~Listed(event) =>
                Flat(event) = IF IsTestEvent(event) THEN <<TestRecord(event)>> ELSE <<event.fields>>
<1>1. event.records \in Seq(AnyRecord) /\ event.fields \in AnyRecord
      /\ NoRecord \in AnyRecord /\ TestRecord(event) \in AnyRecord
  BY NoneIsValue, TestRecordType DEF AnyPayload
<1>2. \A r \in AnyRecord : <<r>> \in Seq(AnyRecord) /\ <<r>> # <<>> /\ Len(<<r>>) = 1
  OBVIOUS
<1>3. RecordsOf(event) = IF ~event.isObject THEN <<NoRecord>>
                         ELSE IF Listed(event) THEN event.records
                         ELSE IF IsTestEvent(event) THEN <<TestRecord(event)>>
                         ELSE <<event.fields>>
  BY DEF RecordsOf, Listed
<1> QED
  BY <1>1, <1>2, <1>3 DEF Flat, Listed

\* A row per record.
LEMMA FlattenEventRows ==
    ASSUME NEW event \in AnyPayload
    PROVE  /\ Len(FlattenEvent(event)) = Len(Flat(event)) /\ Len(Flat(event)) \in Nat
           /\ DOMAIN FlattenEvent(event) = 1..Len(Flat(event))
           /\ \A i \in 1..Len(Flat(event)) :
                /\ Flat(event)[i] \in AnyRecord
                /\ FlattenEvent(event)[i] = Columns(Flat(event)[i], i)
<1> DEFINE flat == Flat(event)
<1>1. flat \in Seq(AnyRecord)
  BY FlatType
<1>2. FlattenEvent(event) = [i \in DOMAIN flat |-> Columns(flat[i], i)]
  BY DEF FlattenEvent, Flat
<1> HIDE DEF flat
<1>3. Len(flat) \in Nat /\ DOMAIN flat = 1..Len(flat) /\ \A i \in 1..Len(flat) : flat[i] \in AnyRecord
  BY <1>1, LenProperties, ElementOfSeq
<1>4. DOMAIN FlattenEvent(event) = 1..Len(flat)
  BY <1>2, <1>3
<1>5. FlattenEvent(event) \in Seq({Columns(flat[i], i) : i \in 1..Len(flat)})
  BY <1>2, <1>3, SeqDef
<1>6. Len(FlattenEvent(event)) \in Nat /\ DOMAIN FlattenEvent(event) = 1..Len(FlattenEvent(event))
  BY <1>5, LenProperties
<1>7. Len(FlattenEvent(event)) = Len(flat)
  BY <1>3, <1>4, <1>6
<1> QED
  BY <1>2, <1>3, <1>4, <1>7 DEF flat

\* Once it has run, flatten_event has run over the payload.
LEMMA FlattenedInput ==
    ASSUME InputsInv, Flattened
    PROVE  input \in AnyPayload /\ result = FlattenEvent(input)
BY DEF InputsInv, Flattened

\* However many records a payload lists, and of whatever shape they are, each
\* makes a row, in its place; a payload that lists none makes one.
THEOREM RowsOfAnyPayload == AnySpec => []OneRowPerRecord
<1>1. InputsInv => OneRowPerRecord
  <2> SUFFICES ASSUME InputsInv, Flattened PROVE OneRowPerRecord
    BY DEF OneRowPerRecord
  <2> DEFINE n == Len(Flat(input))
  <2>1. input \in AnyPayload /\ result = FlattenEvent(input)
    BY FlattenedInput
  <2>a. \A record, i : Columns(record, i).record_index = i - 1
    BY DEF Columns
  <2>2. Len(result) = n /\ DOMAIN result = 1..n /\ \A i \in 1..n : result[i].record_index = i - 1
    BY <2>1, <2>a, FlattenEventRows
  <2>3. input.records \in Seq(AnyRecord)
    BY <2>1 DEF AnyPayload
  <2>4. Len(input.records) = 0 <=> input.records = <<>>
    BY <2>3, EmptySeq, LenProperties
  <2>5. n = IF Listed(input) /\ Len(input.records) # 0 THEN Len(input.records) ELSE 1
    BY <2>1, <2>4, FlatType
  <2> HIDE DEF n
  <2> QED
    BY <2>2, <2>5 DEF OneRowPerRecord, Listed
<1> QED
  BY <1>1, InputsInvAlways, PTL

\* Whatever a payload holds, the values of its rows fit their columns, or
\* flatten_event raises, but for a lone surrogate it held itself; and only an
\* object's key can be a blank.
THEOREM ValuesOfAnyPayloadFit == AnySpec => []ValuesFitColumns
<1>1. InputsInv => ValuesFitColumns
  <2> SUFFICES ASSUME InputsInv, Flattened, NEW i \in DOMAIN result
               PROVE  /\ ColumnsFit(result[i])
                      /\ \A c \in TextColumns :
                            /\ result[i][c].t \in Strings \cup {"none"}
                            /\ result[i][c].t = "blank" => c = "object_key"
                            /\ result[i][c].t = "surrogate" =>
                                /\ i \in DOMAIN RecordsOf(input)
                                /\ \E key \in RecordKeys : RecordsOf(input)[i][key].t = "surrogate"
    BY DEF ValuesFitColumns, ColumnsFit
  <2> DEFINE record == Flat(input)[i]
  <2>1. input \in AnyPayload /\ result = FlattenEvent(input)
    BY FlattenedInput
  <2>2. i \in 1..Len(Flat(input)) /\ record \in AnyRecord /\ result[i] = Columns(record, i)
    BY <2>1, FlattenEventRows
  <2>3. ColumnsFit(result[i]) /\ \A c \in TextColumns : TextFits(c, result[i][c], record)
    BY <2>2, RecordFits
  <2>4. ASSUME NEW key \in RecordKeys, record[key].t = "surrogate"
        PROVE  i \in DOMAIN RecordsOf(input) /\ RecordsOf(input)[i][key].t = "surrogate"
    <3>1. RecordsOf(input) # <<>>
      <4> SUFFICES ASSUME RecordsOf(input) = <<>> PROVE FALSE
        OBVIOUS
      <4>1. Flat(input) = <<NoRecord>>
        BY DEF Flat
      <4>2. i = 1 /\ record = NoRecord
        BY <2>2, <4>1
      <4> QED
        BY <2>4, <4>2 DEF NoRecord, None, Value
    <3>2. Flat(input) = RecordsOf(input)
      BY <3>1 DEF Flat
    <3>3. DOMAIN Flat(input) = 1..Len(Flat(input))
      <4>1. Flat(input) \in Seq(AnyRecord)
        BY <2>1, FlatType
      <4> QED
        BY <4>1, LenProperties
    <3> QED
      BY <2>2, <2>4, <3>2, <3>3
  <2> HIDE DEF record
  <2> QED
    BY <2>3, <2>4 DEF TextFits
<1> QED
  BY <1>1, InputsInvAlways, PTL

\* A test event of any name is recognised, and no other payload passes for one.
THEOREM TestEventsOfAnyPayload == AnySpec => []TestEventsRecognised
<1>1. InputsInv => TestEventsRecognised
  <2> SUFFICES ASSUME InputsInv, Flattened PROVE TestEventsRecognised
    BY DEF TestEventsRecognised
  <2>1. input \in AnyPayload /\ result = FlattenEvent(input)
    BY FlattenedInput
  <2>2. ASSUME input.isObject, IsTestEvent(input)
        PROVE  /\ Len(result) = 1 /\ result[1].event_name = input.Event
               /\ result[1].event_source = input.Service
    <3> DEFINE record == TestRecord(input)
    <3>1. ~Listed(input)
      BY <2>2 DEF IsTestEvent, Listed
    <3>2. Flat(input) = <<record>>
      BY <2>1, <2>2, <3>1, FlatType
    <3>3. Len(Flat(input)) = 1 /\ Flat(input)[1] = record
      BY <3>2
    <3>4. Len(result) = 1 /\ result[1] = Columns(record, 1)
      BY <2>1, <3>3, FlattenEventRows
    <3>5. record["eventName"] = input.Event /\ record["eventSource"] = input.Service
      BY <2>1, TestRecordType
    <3>6. input.Event.t \in Strings \ {"blank"} /\ input.Service.t = "s3"
      BY <2>2 DEF IsTestEvent, NonBlank
    <3>7. NameKeys[1] = "eventName" /\ SourceKeys[1] = "eventSource"
      BY DEF NameKeys, SourceKeys
    <3> HIDE DEF record
    <3>8. FirstString(record, NameKeys) = input.Event
      BY <3>5, <3>6, <3>7, KeysOfRecords, FirstStringOfFirst
    <3>9. FirstString(record, SourceKeys) = input.Service
      BY <3>5, <3>6, <3>7, KeysOfRecords, FirstStringOfFirst DEF Strings
    <3> QED
      BY <3>4, <3>8, <3>9 DEF Columns
  <2>3. ASSUME ~(input.isObject /\ IsTestEvent(input)), NEW i \in DOMAIN result,
               result[i].event_source.t = "s3"
        PROVE  \/ input.fields["eventSource"].t = "s3"
               \/ \E j \in DOMAIN input.records : input.records[j]["eventSource"].t = "s3"
    <3> DEFINE record == Flat(input)[i]
    <3>1. i \in 1..Len(Flat(input)) /\ record \in AnyRecord /\ result[i] = Columns(record, i)
      BY <2>1, <2>3, FlattenEventRows
    <3>2. FirstString(record, SourceKeys).t = "s3"
      BY <2>3, <3>1 DEF Columns
    <3>3. SourceKeys[1] = "eventSource" /\ DOMAIN SourceKeys = {1}
      BY DEF SourceKeys
    <3>4. AsString(record["eventSource"]).t = "s3"
      <4>1. None.t # "s3"
        BY DEF None, Value
      <4> QED
        BY <3>2, <3>3, <4>1, FirstStringIsOne
    <3>5. record["eventSource"].t = "s3"
      BY <3>4 DEF AsString, Value
    <3>6. record # NoRecord
      <4>1. NoRecord["eventSource"].t = "none"
        BY KeysOfRecords DEF NoRecord, None, Value
      <4> QED
        BY <3>5, <4>1
    <3>7. CASE Listed(input) /\ input.records # <<>>
      <4>1. Flat(input) = input.records /\ input.records \in Seq(AnyRecord)
        BY <2>1, <3>7, FlatType DEF AnyPayload
      <4>2. i \in DOMAIN input.records
        BY <3>1, <4>1, LenProperties
      <4> QED
        BY <3>5, <4>1, <4>2
    <3>8. CASE ~(Listed(input) /\ input.records # <<>>)
      <4>1. Flat(input) \in {<<NoRecord>>, <<input.fields>>}
        BY <2>1, <2>3, <3>8, FlatType
      <4>2. i = 1
        BY <2>1, <3>1, <3>8, FlatType
      <4>3. record \in {NoRecord, input.fields}
        BY <4>1, <4>2
      <4> QED
        BY <3>5, <3>6, <4>3
    <3> QED
      BY <3>7, <3>8
  <2> QED
    BY <2>2, <2>3 DEF TestEventsRecognised
<1> QED
  BY <1>1, InputsInvAlways, PTL

\* Whatever stands under the other keys, the size is the first that fits.
THEOREM SizesOfAnyPayload == AnySpec => []FirstFittingSize
<1>1. InputsInv => FirstFittingSize
  <2> DEFINE record == input.records[1]
             fits == { i \in DOMAIN SizeKeys : IsInteger(record[SizeKeys[i]])
                                               /\ record[SizeKeys[i]].n \in Long }
             stops == { i \in DOMAIN SizeKeys :
                          \/ Unconvertible(record[SizeKeys[i]])
                          \/ IsInteger(record[SizeKeys[i]]) /\ record[SizeKeys[i]].n \in Long }
  <2> SUFFICES ASSUME InputsInv, Flattened, Len(result) = 1, Listed(input), input.records # <<>>
               PROVE  \/ result[1].object_size.t = "raises"
                      \/ IF fits = {} THEN result[1].object_size = None
                         ELSE result[1].object_size.n = record[SizeKeys[Min(fits)]].n
    BY DEF FirstFittingSize, Listed
  <2>1. input \in AnyPayload /\ result = FlattenEvent(input)
    BY FlattenedInput
  <2>2. Flat(input) = input.records
    BY <2>1, FlatType
  <2>3. result[1] = Columns(record, 1)
    BY <2>1, <2>2, FlattenEventRows
  <2>4. result[1].object_size = FirstInt(record, SizeKeys)
    BY <2>3 DEF Columns
  <2>5. fits \subseteq stops
    OBVIOUS
  <2>6. fits \in SUBSET Nat
    BY KeysOfRecords
  <2>7. \/ stops = {} /\ FirstInt(record, SizeKeys) = None
        \/ FirstInt(record, SizeKeys) = Raises
        \/ \E i \in fits :
              /\ \A j \in stops : i <= j
              /\ FirstInt(record, SizeKeys) = Value("int", record[SizeKeys[i]].n, 0)
    BY FirstIntIsFirst
  <2>8. CASE stops = {} /\ FirstInt(record, SizeKeys) = None
    BY <2>4, <2>5, <2>8
  <2>9. CASE FirstInt(record, SizeKeys) = Raises
    BY <2>4, <2>9 DEF Raises, Value
  <2>10. ASSUME NEW i \in fits, \A j \in stops : i <= j,
                FirstInt(record, SizeKeys) = Value("int", record[SizeKeys[i]].n, 0)
         PROVE  fits # {} /\ result[1].object_size.n = record[SizeKeys[Min(fits)]].n
    <3>1. \A j \in fits : i <= j
      BY <2>5, <2>10
    <3>2. i \in Nat /\ fits # {}
      BY <2>6
    <3> HIDE DEF fits, stops
    <3>3. Min(fits) \in fits /\ \A y \in fits : Min(fits) <= y
      BY <2>6, <3>2, MinProperties
    <3>4. Min(fits) = i
      <4>1. Min(fits) <= i /\ i <= Min(fits) /\ Min(fits) \in Nat
        BY <2>6, <2>10, <3>1, <3>3
      <4> QED
        BY <3>2, <4>1
    <3> QED
      BY <2>4, <2>10, <3>2, <3>4 DEF Value
  <2> QED
    BY <2>7, <2>8, <2>9, <2>10
<1> QED
  BY <1>1, InputsInvAlways, PTL

\* A record on which flatten_event raises: int() of an infinity or a NaN, or a
\* timestamp astimezone takes out of the calendar.
Trips(record) ==
    \/ \E i \in DOMAIN SizeKeys : Unconvertible(record[SizeKeys[i]])
    \/ \E i \in DOMAIN TimeKeys :
        LET v == record[TimeKeys[i]] IN v.t = "time" /\ v.n - v.off \notin Calendar

\* flatten_event has no other way to raise ("never raises" is its promise): every
\* payload on which it does has such a record, or such a field.
THEOREM RaisesOnlyThere ==
    ASSUME NEW event \in AnyPayload, FlattenRaises(event)
    PROVE  \E i \in 1..Len(Flat(event)) : Trips(Flat(event)[i])
<1>1. PICK i \in DOMAIN FlattenEvent(event) :
        \E c \in DOMAIN FlattenEvent(event)[i] \ {"record_index"} : FlattenEvent(event)[i][c] = Raises
  BY DEF FlattenRaises
<1> DEFINE record == Flat(event)[i]
<1>2. i \in 1..Len(Flat(event)) /\ record \in AnyRecord /\ FlattenEvent(event)[i] = Columns(record, i)
  BY <1>1, FlattenEventRows
<1> HIDE DEF record
<1>3. /\ Raises.t = "raises" /\ None.t = "none" /\ \A n : Value("int", n, 0).t = "int"
      /\ \A n : Value("naive", n, 0).t = "naive"
  BY DEF Raises, None, Value
<1>4. \A v \in AnyValue : v.t # "raises" /\ AsString(v).t # "raises"
                       /\ (AsString(v).t = "time" => AsString(v) = v)
  BY DEF AnyValue, Kinds, Strings, Numbers, AsString, Value
<1>5. \A k \in RecordKeys : record[k] \in AnyValue
  BY <1>2 DEF AnyRecord
<1>6. \A keys \in {NameKeys, TimeKeys, SourceKeys, BucketKeys, ObjectKeys, TagKeys} :
        /\ DOMAIN keys \subseteq Nat
        /\ \A k \in DOMAIN keys : keys[k] \in RecordKeys
  BY TextKeysOfRecords
<1>7. ASSUME NEW keys \in {NameKeys, TimeKeys, SourceKeys, BucketKeys, ObjectKeys, TagKeys}
      PROVE  FirstString(record, keys) # Raises
  BY <1>3, <1>4, <1>5, <1>6, FirstStringIsOne
<1>8. FirstInt(record, SizeKeys) = Raises \/ ParseTimestamp(FirstString(record, TimeKeys)) = Raises
  <2> DEFINE row == Columns(record, i)
  <2>1. PICK c \in DOMAIN row \ {"record_index"} : row[c] = Raises
    BY <1>1, <1>2
  <2>2. c \in {"event_name", "event_time", "event_source", "bucket", "object_key", "object_size",
               "object_etag"}
    BY <2>1 DEF Columns
  <2>3. /\ row["event_name"] = FirstString(record, NameKeys)
        /\ row["event_time"] = ParseTimestamp(FirstString(record, TimeKeys))
        /\ row["event_source"] = FirstString(record, SourceKeys)
        /\ row["bucket"] = FirstString(record, BucketKeys)
        /\ row["object_key"] = Unquoted(FirstString(record, ObjectKeys))
        /\ row["object_size"] = FirstInt(record, SizeKeys)
        /\ row["object_etag"] = FirstString(record, TagKeys)
    BY DEF Columns
  <2>4. \A v : v # Raises => Unquoted(v) # Raises
    BY DEF Unquoted, Value, Raises
  <2> HIDE DEF row
  <2> QED
    BY <1>7, <2>1, <2>2, <2>3, <2>4
<1>9. CASE FirstInt(record, SizeKeys) = Raises
  <2> DEFINE stops == { k \in DOMAIN SizeKeys :
                          \/ Unconvertible(record[SizeKeys[k]])
                          \/ IsInteger(record[SizeKeys[k]]) /\ record[SizeKeys[k]].n \in Long }
             v == record[SizeKeys[Min(stops)]]
  <2>1. FirstInt(record, SizeKeys) = IF stops = {} THEN None
                                     ELSE IF Unconvertible(v) THEN Raises ELSE Value("int", v.n, 0)
    BY DEF FirstInt
  <2>2. stops # {} /\ Unconvertible(v)
    BY <1>3, <1>9, <2>1
  <2>3. stops \in SUBSET Nat /\ stops \subseteq DOMAIN SizeKeys
    BY KeysOfRecords
  <2>4. Min(stops) \in DOMAIN SizeKeys
    <3> HIDE DEF stops
    <3> QED
      BY <2>2, <2>3, MinProperties
  <2> QED
    BY <1>2, <2>2, <2>4 DEF Trips, record
<1>10. CASE ParseTimestamp(FirstString(record, TimeKeys)) = Raises
  <2> DEFINE w == FirstString(record, TimeKeys)
  <2>1. w # Raises
    BY <1>7
  <2>2. w.t = "time" /\ w.n - w.off \notin Calendar
    <3> HIDE DEF w
    <3>1. w.t # "naive" => (w.t = "time" /\ w.n - w.off \notin Calendar)
                           \/ ParseTimestamp(w) \in {None, Value("naive", w.n, 0), Value("naive", w.n - w.off, 0)}
      BY DEF ParseTimestamp
    <3>2. w.t = "naive" => ParseTimestamp(w) = w
      BY DEF ParseTimestamp
    <3> QED
      BY <1>3, <1>10, <2>1, <3>1, <3>2 DEF w
  <2>3. PICK k \in DOMAIN TimeKeys : w = AsString(record[TimeKeys[k]])
    BY <1>3, <1>6, <2>2, FirstStringIsOne
  <2>4. record[TimeKeys[k]] \in AnyValue
    BY <1>5, <1>6
  <2>5. w = record[TimeKeys[k]]
    BY <1>4, <2>2, <2>3, <2>4
  <2> QED
    BY <1>2, <2>2, <2>5 DEF Trips, record
<1> QED
  BY <1>8, <1>9, <1>10

(***************************************************************************)
(* The bounded inputs are among these.                                     *)
(***************************************************************************)
\* A good document with two settings replaced is a document.
LEMMA DocumentsAreAny ==
    ASSUME NEW k1 \in Keys, NEW k2 \in Keys, NEW v1 \in Settings(k1), NEW v2 \in Settings(k2)
    PROVE  DocumentWith(k1, v1, k2, v2) \in AnyDocument
<1> DEFINE Any == [t : SettingKinds \cup EnabledKinds \cup SectionKinds, n : Int]
<1>1. GoodDocument \in [Keys -> Any] /\ \A k \in Keys : GoodDocument[k].t \in KindsOf(k)
  BY DEF GoodDocument, Keys, KindsOf, Setting, Missing, SettingKinds, EnabledKinds, SectionKinds,
         StringKinds, LiteralKinds, EnvKinds, NumberKinds
<1>2. ASSUME NEW k \in Keys, NEW v \in Settings(k)
      PROVE  v \in Any /\ v.t \in KindsOf(k)
  <2>1. CASE k = "enabled"
    <3>1. v \in { Setting(t, 0) : t \in {"absent", "missing", "true", "false", "other"} }
      BY <2>1 DEF Settings, Counts
    <3> QED
      BY <2>1, <3>1 DEF Setting, KindsOf, EnabledKinds
  <2>2. CASE k = "kafka_config"
    <3>1. v \in { Setting(t, 0) : t \in {"object", "empty", "other"} }
      BY <2>2 DEF Settings, Counts
    <3> QED
      BY <2>2, <3>1 DEF Setting, KindsOf, SectionKinds
  <2>3. CASE k \notin {"enabled", "kafka_config"}
    <3>1. PICK t \in SettingKinds, n \in Int : v = Setting(t, n)
      <4>1. CASE k = "create_if_missing"
        <5>1. v \in { Setting(t, 0) : t \in {"missing", "bool", "other"} }
          BY <4>1 DEF Settings, Counts
        <5> QED
          BY <5>1 DEF SettingKinds
      <4>2. CASE k \in Counts
        <5>1. k # "create_if_missing"
          BY <4>2 DEF Counts
        <5> QED
          BY <2>3, <4>2, <5>1 DEF Settings, SettingKinds, NumberKinds
      <4>3. CASE k # "create_if_missing" /\ k \notin Counts
        BY <2>3, <4>3 DEF Settings, SettingKinds
      <4> QED
        BY <4>1, <4>2, <4>3
    <3> QED
      BY <2>3, <3>1 DEF Setting, KindsOf
  <2> QED
    BY <2>1, <2>2, <2>3
<1> DEFINE d == [GoodDocument EXCEPT ![k1] = v1, ![k2] = v2]
<1>3. v1 \in Any /\ v2 \in Any /\ v1.t \in KindsOf(k1) /\ v2.t \in KindsOf(k2)
  BY <1>2
<1>4. d \in [Keys -> Any]
  <2> HIDE DEF Any
  <2> QED
    BY <1>1, <1>3
<1>5. \A k \in Keys : d[k] = IF k = k2 THEN v2 ELSE IF k = k1 THEN v1 ELSE GoodDocument[k]
  BY <1>1
<1> HIDE DEF d
<1>6. \A k \in Keys : d[k].t \in KindsOf(k)
  BY <1>1, <1>3, <1>5
<1> QED
  BY <1>4, <1>6 DEF AnyDocument, DocumentWith, d

\* A payload made of the chosen records and fields is a payload.
LEMMA PayloadsAreAny ==
    /\ \A r \in Records : OneRecord(r) \in AnyPayload
    /\ \A o, h, l \in BOOLEAN, rs \in RecordLists, r \in FewRecords, n \in Names, s \in ServiceNames :
        Payload(o, h, l, rs, r, n, s) \in AnyPayload
<1>1. \A t \in Kinds \ {"naive"} : \A n, off \in Int : Value(t, n, off) \in AnyValue
  BY DEF AnyValue, Value
<1>2. None \in AnyValue /\ NoRecord \in AnyRecord
  BY NoneIsValue
<1>3. Sizes \subseteq AnyValue /\ Names \subseteq AnyValue /\ ServiceNames \subseteq AnyValue
  BY <1>1 DEF Sizes, Names, ServiceNames, Number, Kinds, Strings, Numbers
<1>4. Times \subseteq AnyValue
  <2>1. ASSUME NEW n \in Calendar PROVE Value("naive", n, 0) \in AnyValue
    BY FlattenAssumption DEF AnyValue, Value, Kinds, Strings
  <2> QED
    BY <1>1, <1>2, <2>1 DEF Times, Number, Kinds, Strings, Numbers
<1>5. ASSUME NEW name \in AnyValue, NEW time \in AnyValue, NEW s1 \in AnyValue, NEW s2 \in AnyValue
      PROVE  RecordWith(name, time, s1, s2) \in AnyRecord
  BY <1>2 DEF RecordWith, AnyRecord
<1>6. /\ Value("text", 0, 0) \in AnyValue /\ Value("time", 0, 1) \in AnyValue
      /\ Value("time", 3, 0) \in AnyValue /\ Value("inf", 0, 0) \in AnyValue
      /\ Value("s3", 0, 0) \in AnyValue /\ Number(3) \in AnyValue
  BY <1>1 DEF Number, Kinds, Strings, Numbers
<1>7. Records \subseteq AnyRecord
  <2>1. \A n \in Names, k \in Names :
          [RecordWith(n, None, None, None) EXCEPT !["key"] = k] \in AnyRecord
    <3> TAKE n \in Names, k \in Names
    <3>1. RecordWith(n, None, None, None) \in AnyRecord /\ k \in AnyValue
      BY <1>2, <1>3, <1>5
    <3> QED
      BY <3>1 DEF AnyRecord
  <2> QED
    BY <1>2, <1>3, <1>4, <1>5, <1>6, <2>1 DEF Records
<1>8. FewRecords \subseteq AnyRecord
  <2>1. [NoRecord EXCEPT !["eventSource"] = Value("s3", 0, 0)] \in AnyRecord
    BY <1>2, <1>6 DEF AnyRecord
  <2> QED
    BY <1>2, <1>5, <1>6, <2>1 DEF FewRecords
<1>9. ASSUME NEW o \in BOOLEAN, NEW h \in BOOLEAN, NEW l \in BOOLEAN, NEW rs \in Seq(AnyRecord),
             NEW r \in AnyRecord, NEW n \in AnyValue, NEW s \in AnyValue
      PROVE  Payload(o, h, l, rs, r, n, s) \in AnyPayload
  BY <1>6 DEF Payload, AnyPayload
<1>10. \A r \in Records : <<r>> \in Seq(AnyRecord)
  BY <1>7
<1>11. ASSUME NEW rs \in RecordLists
       PROVE  rs \in Seq(AnyRecord)
  <2>1. CASE rs = <<>>
    BY <2>1
  <2>2. CASE rs \in FewRecords \X FewRecords
    <3>1. PICK a \in FewRecords, b \in FewRecords : rs = <<a, b>>
      BY <2>2
    <3>2. a \in AnyRecord /\ b \in AnyRecord
      BY <1>8
    <3> HIDE DEF FewRecords
    <3> QED
      BY <3>1, <3>2
  <2> QED
    BY <2>1, <2>2 DEF RecordLists
<1>12. \A r \in Records : OneRecord(r) \in AnyPayload
  BY <1>2, <1>9, <1>10 DEF OneRecord
<1>13. ASSUME NEW o \in BOOLEAN, NEW h \in BOOLEAN, NEW l \in BOOLEAN, NEW rs \in RecordLists,
              NEW r \in FewRecords, NEW n \in Names, NEW s \in ServiceNames
       PROVE  Payload(o, h, l, rs, r, n, s) \in AnyPayload
  BY <1>3, <1>8, <1>9, <1>11
<1> QED
  BY <1>12, <1>13

\* What TLC checks is part of what is proved: the bounded inputs are inputs.
THEOREM BoundedInputs == Spec => AnySpec
<1>1. ASSUME Init PROVE AnyInit
  <2>1. CASE kind = "config"
    <3>1. PICK k1 \in Keys, k2 \in Keys :
            \E v1 \in Settings(k1), v2 \in Settings(k2) : input = DocumentWith(k1, v1, k2, v2)
      BY <1>1, <2>1 DEF Init, Keys
    <3>2. input \in AnyDocument
      BY <3>1, DocumentsAreAny
    <3> QED
      BY <1>1, <2>1, <3>2 DEF Init, AnyInit
  <2>2. CASE kind = "event"
    <3>1. input \in AnyPayload
      BY <1>1, <2>2, PayloadsAreAny DEF Init
    <3> QED
      BY <1>1, <2>2, <3>1 DEF Init, AnyInit
  <2> QED
    BY <1>1, <2>1, <2>2 DEF Init
<1> QED
  BY <1>1, PTL DEF Spec, AnySpec
=============================================================================
