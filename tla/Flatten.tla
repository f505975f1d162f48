------------------------------ MODULE Flatten ------------------------------
(***************************************************************************)
(* flatten_event and its helpers (s3events/flatten.py): what rows a        *)
(* decoded payload of any shape becomes.                                   *)
(*                                                                         *)
(* A JSON value is [t, n, off]: its kind, and the numbers that kind needs. *)
(* The code tells apart the kinds of Strings and Numbers, true and false   *)
(* ("bool"), and everything else, missing keys included ("none").  Width   *)
(* of the Iceberg long and range of Python's calendar are constants.       *)
(***************************************************************************)
EXTENDS Integers, Sequences, FiniteSetsExt

CONSTANTS
    Long,           \* the integers that fit an Iceberg long
    Calendar,       \* the instants datetime can represent, in UTC
    DateLike        \* numbers fromisoformat reads as a date when written out

\* A date fromisoformat reads is one datetime can represent.
ASSUME FlattenAssumption == Calendar \subseteq Int /\ DateLike \subseteq Calendar

\* Strings: only blanks; only plus signs and escaped blanks; digits int()
\* accepts; a timestamp with an offset or without one; one that contains "s3";
\* one with a lone surrogate, which no Arrow string can hold; any other.
Strings == {"blank", "plus", "digits", "time", "naive", "s3", "surrogate", "text"}
Numbers == {"int", "whole", "fraction", "inf", "nan"}
Kinds == Strings \cup Numbers \cup {"bool", "none"}

Value(t, n, off) == [t |-> t, n |-> n, off |-> off]
None == Value("none", 0, 0)

\* The result of a call that raised.
Raises == Value("raises", 0, 0)

\* str() of a number that is not a bool; a string stays what it is.  "20260101.0"
\* is a date to fromisoformat, as "20260101" is: the point is its separator.
AsString(v) ==
    CASE v.t = "int"                -> Value("digits", v.n, 0)
      [] v.t \in {"whole", "fraction"} ->
            Value(IF v.n \in DateLike THEN "naive" ELSE "text", v.n, 0)
      [] v.t \in {"inf", "nan"}     -> Value("text", v.n, 0)
      [] OTHER                      -> v

\* unquote_plus of what _first_string found under the key of an object.
Unquoted(v) ==
    CASE v.t = "plus"                    -> Value("blank", 0, 0)
      [] v.t \in {"none", "surrogate"}   -> v
      [] OTHER                           -> Value("text", 0, 0)

\* _first_string
FirstString(source, keys) ==
    LET usable == { i \in DOMAIN keys : source[keys[i]].t \in (Strings \ {"blank"}) \cup Numbers }
    IN IF usable = {} THEN None ELSE AsString(source[keys[Min(usable)]])

IsInteger(v) == v.t \in {"int", "whole", "digits"}

\* int() of an infinity or of a NaN is not guarded.
Unconvertible(v) == v.t \in {"inf", "nan"}

\* Mutant: no range check.
FirstIntUnbounded(source, keys) ==
    LET stops == { i \in DOMAIN keys : Unconvertible(source[keys[i]]) \/ IsInteger(source[keys[i]]) }
        v == source[keys[Min(stops)]]
    IN IF stops = {} THEN None ELSE IF Unconvertible(v) THEN Raises ELSE Value("int", v.n, 0)

\* Mutant: the scan ends at the first integer, whether it fits or not.
FirstIntGivingUp(source, keys) ==
    LET stops == { i \in DOMAIN keys : Unconvertible(source[keys[i]]) \/ IsInteger(source[keys[i]]) }
        v == source[keys[Min(stops)]]
    IN CASE stops = {}        -> None
         [] Unconvertible(v)  -> Raises
         [] v.n \in Long      -> Value("int", v.n, 0)
         [] OTHER             -> None

\* _first_int: the scan ends at a value that fits, or at one that raises.
FirstInt(source, keys) ==
    LET stops == { i \in DOMAIN keys :
                    \/ Unconvertible(source[keys[i]])
                    \/ IsInteger(source[keys[i]]) /\ source[keys[i]].n \in Long }
        v == source[keys[Min(stops)]]
    IN IF stops = {} THEN None ELSE IF Unconvertible(v) THEN Raises ELSE Value("int", v.n, 0)

\* parse_timestamp, of what _first_string returned: its branch for numbers is
\* out of flatten_event's reach.  astimezone raises outside the calendar.
ParseTimestamp(v) ==
    CASE v.t = "naive" -> v
      [] v.t = "digits" /\ v.n \in DateLike -> Value("naive", v.n, 0)
      [] v.t = "time"  -> IF v.n - v.off \in Calendar THEN Value("naive", v.n - v.off, 0) ELSE Raises
      [] OTHER         -> None

(***************************************************************************)
(* Events.  A record's nested sections are looked up with _mapping, which  *)
(* finds nothing in what is not an object: a record is the function from   *)
(* the keys the code looks for to the values it finds.                     *)
(***************************************************************************)
NameKeys == <<"eventName", "EventName">>
TimeKeys == <<"eventTime", "EventTime">>
SourceKeys == <<"eventSource">>
BucketKeys == <<"name">>
ObjectKeys == <<"key">>
SizeKeys == <<"size", "objectSize", "Size">>
TagKeys == <<"eTag">>
RecordKeys == UNION { {keys[i] : i \in DOMAIN keys} :
    keys \in {NameKeys, TimeKeys, SourceKeys, BucketKeys, ObjectKeys, SizeKeys, TagKeys} }

\* What is found in a record that is not an object.
NoRecord == [key \in RecordKeys |-> None]

NonBlank(v) == v.t \in Strings \ {"blank"}

\* _as_vast_test_event: an object of the test event's shape and no records.
IsTestEvent(event) ==
    /\ ~event.hasRecords
    /\ NonBlank(event.Event)
    /\ event.Service.t = "s3"

TestRecord(event) ==
    [NoRecord EXCEPT !["eventName"] = event.Event, !["eventSource"] = event.Service,
                     !["name"] = IF NonBlank(event.Bucket) THEN event.Bucket ELSE None,
                     !["eventTime"] = event.Time]

\* Mutant: the test event is looked for first, whatever else is there.
RecordsOfTestFirst(event) ==
    IF event.isObject /\ NonBlank(event.Event) /\ event.Service.t = "s3" THEN <<TestRecord(event)>>
    ELSE IF event.isObject /\ event.hasRecords /\ event.isList THEN event.records
    ELSE IF event.isObject THEN <<event.fields>> ELSE <<NoRecord>>

\* _records_of
RecordsOf(event) ==
    IF ~event.isObject THEN <<NoRecord>>
    ELSE IF event.hasRecords /\ event.isList THEN event.records
    ELSE IF IsTestEvent(event) THEN <<TestRecord(event)>>
    ELSE <<event.fields>>

\* The columns of one record.
Columns(record, i) ==
    [record_index |-> i - 1,
     event_name   |-> FirstString(record, NameKeys),
     event_time   |-> ParseTimestamp(FirstString(record, TimeKeys)),
     event_source |-> FirstString(record, SourceKeys),
     bucket       |-> FirstString(record, BucketKeys),
     object_key   |-> Unquoted(FirstString(record, ObjectKeys)),
     object_size  |-> FirstInt(record, SizeKeys),
     object_etag  |-> FirstString(record, TagKeys)]

\* Mutant: an empty list of records makes no row.
FlattenEventEmpty(event) ==
    [i \in DOMAIN RecordsOf(event) |-> Columns(RecordsOf(event)[i], i)]

\* flatten_event; an explicit empty list of records still makes one row.
FlattenEvent(event) ==
    LET records == IF RecordsOf(event) = <<>> THEN <<NoRecord>> ELSE RecordsOf(event)
    IN [i \in DOMAIN records |-> Columns(records[i], i)]

\* The exception of any column is the exception of the call.
FlattenRaises(event) ==
    \E i \in DOMAIN FlattenEvent(event) : \E c \in DOMAIN FlattenEvent(event)[i] \ {"record_index"} :
        FlattenEvent(event)[i][c] = Raises
=============================================================================
