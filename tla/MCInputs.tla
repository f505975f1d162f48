------------------------------ MODULE MCInputs ------------------------------
(***************************************************************************)
(* The two inputs of the consumer, each read once: a configuration file or *)
(* a decoded payload.  Init picks one from a bounded set; the one step    *)
(* runs the code's function over it.  A configuration departs from a good  *)
(* one in at most two settings, a payload holds at most two records.       *)
(***************************************************************************)
EXTENDS Config, Flatten

VARIABLES
    kind,           \* "config" or "event"
    input,          \* the configuration or the payload
    result,         \* what the code makes of it
    done            \* the code has run

vars == <<kind, input, result, done>>

(***************************************************************************)
(* Configurations.                                                         *)
(***************************************************************************)
GoodDocument ==
    [kafka_config |-> Setting("object", 0), servers |-> Setting("good", 0),
     group |-> Setting("good", 0), option |-> Missing, topic |-> Setting("good", 0),
     enabled |-> Missing, uri |-> Setting("good", 0), secret |-> Setting("envGood", 0),
     namespace |-> Missing, table |-> Missing, catalog_name |-> Missing,
     batch_size |-> Missing, flush_interval_seconds |-> Missing,
     create_if_missing |-> Missing, max_flush_attempts |-> Missing,
     retry_backoff_seconds |-> Missing, max_buffered_records |-> Missing]

Counts == {"batch_size", "flush_interval_seconds", "max_flush_attempts",
           "retry_backoff_seconds", "max_buffered_records"}

Settings(key) ==
    CASE key = "kafka_config" -> { Setting(t, 0) : t \in {"object", "empty", "other"} }
      [] key = "enabled" -> { Setting(t, 0) : t \in {"absent", "missing", "true", "false", "other"} }
      [] key = "create_if_missing" -> { Setting(t, 0) : t \in {"missing", "bool", "other"} }
      [] key \in Counts -> { Setting("whole", n) : n \in {-1, 0, 1, 2, 99, 100, 1000} }
                             \cup { Setting("fraction", n) : n \in {0, 1, 101} }
                             \cup { Setting(t, 0) : t \in {"missing", "huge", "inf", "minusInf", "nan", "bool", "other"} }
      [] OTHER -> { Setting(t, 0) : t \in StringKinds \cup {"missing", "bool", "other"} }

DocumentWith(k1, v1, k2, v2) == [GoodDocument EXCEPT ![k1] = v1, ![k2] = v2]

(***************************************************************************)
(* Payloads.                                                               *)
(***************************************************************************)
MCLong == -4..3
MCCalendar == 0..3
MCDateLike == {2}

Number(n) == Value("int", n, 0)
Sizes == { Number(-5), Number(-4), Number(3), Number(4), Value("whole", 3, 0), Value("whole", 4, 0),
           Value("digits", 2, 0), Value("digits", 4, 0) }
         \cup { Value(t, 0, 0) : t \in {"none", "bool", "fraction", "inf", "nan", "blank", "plus", "text"} }
Times == { Value("time", n, off) : n \in {0, 3}, off \in {-1, 0, 1} }
         \cup { Value("naive", n, 0) : n \in Calendar }
         \cup { Value(t, n, 0) : t \in {"int", "whole", "fraction", "digits"}, n \in {2, 3} }
         \cup { None, Value("text", 0, 0) }
Names == { Value(t, 0, 0) : t \in {"none", "blank", "plus", "text", "surrogate", "int"} }

RecordWith(name, time, size, size2) ==
    [NoRecord EXCEPT !["eventName"] = name, !["eventTime"] = time,
                     !["size"] = size, !["objectSize"] = size2]

Records ==
    { RecordWith(Value("text", 0, 0), t, s1, s2) : t \in Times, s1 \in Sizes, s2 \in Sizes }
    \cup { [RecordWith(n, None, None, None) EXCEPT !["key"] = k] : n \in Names, k \in Names }

FewRecords ==
    { NoRecord,
      RecordWith(Value("text", 0, 0), None, Number(3), None),
      RecordWith(None, Value("time", 0, 1), None, None),
      RecordWith(None, None, Value("inf", 0, 0), None),
      [NoRecord EXCEPT !["eventSource"] = Value("s3", 0, 0)] }

Payload(isObject, hasRecords, isList, records, fields, name, service) ==
    [isObject |-> isObject, hasRecords |-> hasRecords, isList |-> isList, records |-> records,
     fields |-> fields, Event |-> name, Service |-> service, Bucket |-> Value("text", 0, 0),
     Time |-> Value("time", 3, 0)]

ServiceNames == { Value(t, 0, 0) : t \in {"none", "text", "s3"} }

RecordLists == { <<>> } \cup (FewRecords \X FewRecords)

OneRecord(r) == Payload(TRUE, TRUE, TRUE, <<r>>, NoRecord, None, None)

Init ==
    /\ \/ /\ kind = "config"
          /\ \E k1, k2 \in DOMAIN GoodDocument : \E v1 \in Settings(k1), v2 \in Settings(k2) :
                input = DocumentWith(k1, v1, k2, v2)
       \/ /\ kind = "event"
          /\ \/ \E r \in Records : input = OneRecord(r)
             \/ \E o, h, l \in BOOLEAN, rs \in RecordLists, r \in FewRecords,
                   n \in Names, s \in ServiceNames : input = Payload(o, h, l, rs, r, n, s)
    /\ result = <<>>
    /\ done = FALSE

LoadConfig ==
    /\ kind = "config" /\ ~done
    /\ result' = LoadAppConfig(input)
    /\ done' = TRUE
    /\ UNCHANGED <<kind, input>>

FlattenPayload ==
    /\ kind = "event" /\ ~done
    /\ result' = FlattenEvent(input)
    /\ done' = TRUE
    /\ UNCHANGED <<kind, input>>

Next == LoadConfig \/ FlattenPayload

Spec == Init /\ [][Next]_vars

(***************************************************************************)
(* Properties.                                                             *)
(***************************************************************************)
Loaded == kind = "config" /\ done

Flattened == kind = "event" /\ done

\* What is left of a string that no check refuses.
Unobjectionable == {"good", "malformed", "padded"}

\* An accepted configuration has what the consumer needs to run: whole settings
\* that satisfy IcebergSink's SinkAssumption, the address of the catalog and of
\* the brokers, neither missing, blank nor a leftover placeholder, a group and a
\* topic that are neither missing nor blank (a placeholder passes there), names
\* that are names, and no placeholder for a credential, which may be missing or
\* blank (_parse_kafka, _parse_iceberg).  Times are TimesGreaterThanZero's.
AcceptedSettingsWork ==
    Loaded /\ result.kind = "accepted" =>
        LET kafka == result.kafka
            iceberg == result.iceberg
        IN /\ iceberg.batch_size >= 1 /\ iceberg.max_flush_attempts >= 1
           /\ iceberg.max_buffered_records >= iceberg.batch_size
           /\ iceberg.uri.t \in Unobjectionable /\ kafka.servers.t \in Unobjectionable
           /\ kafka.group.t \in Unobjectionable \cup {"placeholder"}
           /\ kafka.topic.t \in Unobjectionable \cup {"placeholder"}
           /\ \A i \in DOMAIN iceberg.names : iceberg.names[i].t = "good"
           /\ iceberg.secret.t # "placeholder"

\* The flush interval and the backoff of an accepted configuration are greater
\* than zero, as the message of _positive_number asks.  An infinity is.
TimesGreaterThanZero ==
    Loaded /\ result.kind = "accepted" =>
        \A time \in {result.iceberg.flush_interval_seconds, result.iceberg.retry_backoff_seconds} :
            \/ time.t = "inf"
            \/ time.t \in {"whole", "fraction"} /\ time.n >= 1

\* One row per record, in order, and one row for a payload without records:
\* nothing observed on the topic leaves no trace (module Services: RowCount).
OneRowPerRecord ==
    Flattened =>
        LET listed == IF input.isObject /\ input.hasRecords /\ input.isList
                      THEN Len(input.records) ELSE 1
        IN /\ Len(result) = IF listed = 0 THEN 1 ELSE listed
           /\ \A i \in DOMAIN result : result[i].record_index = i - 1

\* The columns a row's text goes to.
TextColumns == {"event_name", "event_source", "bucket", "object_key", "object_etag"}

\* Every value made fits its column, but for the text the payload itself spoils:
\* a size is in the range of a long and a time in that of the calendar; a text
\* column holds a string or nothing, and a blank only where unquote_plus made
\* one of the key; a lone surrogate, which PyArrow refuses with the row (module
\* Services: Unwritable), stands in a row only if its record held one.
ValuesFitColumns ==
    Flattened =>
        \A i \in DOMAIN result :
            /\ result[i].object_size.t \in {"none", "raises"} \/ result[i].object_size.n \in Long
            /\ result[i].event_time.t \in {"none", "raises"} \/ result[i].event_time.n \in Calendar
            /\ \A c \in TextColumns :
                /\ result[i][c].t \in Strings \cup {"none"}
                /\ result[i][c].t = "blank" => c = "object_key"
                /\ result[i][c].t = "surrogate" =>
                    /\ i \in DOMAIN RecordsOf(input)
                    /\ \E key \in RecordKeys : RecordsOf(input)[i][key].t = "surrogate"

\* A test event is recognised: its one row bears its name and source.  "A Records
\* payload is never treated as a test event", nor is any other: no row of it has
\* S3 for a source unless one of its records names it.
TestEventsRecognised ==
    Flattened =>
        IF input.isObject /\ IsTestEvent(input)
        THEN /\ Len(result) = 1
             /\ result[1].event_name = input.Event
             /\ result[1].event_source = input.Service
        ELSE \A i \in DOMAIN result :
                result[i].event_source.t = "s3" =>
                    \/ input.fields["eventSource"].t = "s3"
                    \/ \E j \in DOMAIN input.records : input.records[j]["eventSource"].t = "s3"

\* A size that cannot be had is no reason to lose the one under another key:
\* the row has the first size that fits, when there is one and nothing raises.
FirstFittingSize ==
    Flattened /\ Len(result) = 1 /\ input.isObject /\ input.hasRecords /\ input.isList
              /\ input.records # <<>> =>
        LET record == input.records[1]
            fits == { i \in DOMAIN SizeKeys : IsInteger(record[SizeKeys[i]])
                                              /\ record[SizeKeys[i]].n \in Long }
        IN \/ result[1].object_size.t = "raises"
           \/ IF fits = {} THEN result[1].object_size = None
              ELSE result[1].object_size.n = record[SizeKeys[Min(fits)]].n

\* "Always at least one row, never raises" (flatten_event).
NeverRaises == Flattened => ~FlattenRaises(input)
=============================================================================
