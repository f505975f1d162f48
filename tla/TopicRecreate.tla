--------------------------- MODULE TopicRecreate ---------------------------
(***************************************************************************)
(* scripts/demo_recreate_topic.py: delete one topic and create it again.   *)
(* The topic lives twice, as a record of the management system (VMS) and   *)
(* as a log of the event broker, and both services answer a deletion or a  *)
(* creation before it is visible.  A VMS deletion "can leave that log in   *)
(* place", so the script also deletes through the Kafka Admin API and      *)
(* looks at the watermarks afterwards.  Runs may be repeated, may fail at  *)
(* any call, and may be killed between two of them.                        *)
(***************************************************************************)
EXTENDS Integers

CONSTANTS
    PartitionCounts,    \* partition counts in play, DEFAULT_PARTITIONS among them
    Retentions,         \* retentions in play, DEFAULT_RETENTION_MS among them
    DefaultPartitions,
    DefaultRetention,
    NotGiven,           \* an option that is not on the command line
    MaxRuns,            \* bound: how many times the script is run
    MaxNew              \* bound: messages published to the new log

ASSUME TopicAssumption ==
    /\ DefaultPartitions \in PartitionCounts
    /\ DefaultRetention \in Retentions
    /\ NotGiven \notin PartitionCounts \cup Retentions \cup {0, 1}
    /\ MaxRuns \in Nat /\ MaxNew \in Nat

Specs == [partitions : PartitionCounts, retention : Retentions]
DefaultSpec == [partitions |-> DefaultPartitions, retention |-> DefaultRetention]
NoTopic == [partitions |-> NotGiven, retention |-> NotGiven]

Settings == [confirm : BOOLEAN, broker : BOOLEAN, waits : BOOLEAN, keepGroup : BOOLEAN,
             partitions : PartitionCounts \cup {NotGiven}, retention : Retentions \cup {NotGiven}]

Stages == {"absent", "creating", "present", "deleting"}

VARIABLES
    vms,            \* the VMS topic: its stage and its settings
    log,            \* the broker's log: its stage, old messages, number of new ones
    group,          \* the group's position: "none", "here" in the broker's log as it
                    \* is, or "gone" for one in a log that is no more
    consumer,       \* is the consumer running, and the offsets it has yet to commit
    outstanding,    \* an Admin deletion that raised: "none", "sent", or "carriedOut"
                    \* since the last run began
    pc,             \* where the script is, "idle" between runs
    settings,       \* this run's settings
    existing,       \* the topic found by load_existing_topic, or NoTopic
    spec,           \* the topic to create
    exitCode,       \* of the last run that ended by itself, or NotGiven
    checked,        \* the last run saw the log empty
    cleared,        \* and deleted the group after that
    runs,           \* how many runs were started
    wanted,         \* history: the settings the topic had, or was given
    gap,            \* history: the topic was gone when no run held its settings
    blind           \* history: a run went on to the group without that sight

topicVars == <<vms, log, group, outstanding>>
runVars == <<pc, settings, existing, spec, exitCode, checked, cleared, runs>>
vars == <<topicVars, consumer, runVars, wanted, gap, blind>>

\* What list and show find, and what the broker's metadata lists.
Visible == vms.stage \in {"present", "deleting"}
Listed == log.stage \in {"present", "deleting"}

Init ==
    /\ vms \in [stage : {"present"}, spec : Specs] \cup {[stage |-> "absent", spec |-> DefaultSpec]}
    /\ log = [stage |-> vms.stage, old |-> vms.stage = "present", new |-> 0]
    /\ group = IF vms.stage = "present" THEN "here" ELSE "none"
    /\ consumer = [running |-> FALSE, held |-> "none"]
    /\ outstanding = "none"
    /\ pc = "idle"
    /\ settings = [confirm |-> FALSE, broker |-> FALSE, waits |-> TRUE, keepGroup |-> FALSE,
                   partitions |-> NotGiven, retention |-> NotGiven]
    /\ existing = NoTopic
    /\ spec = DefaultSpec
    /\ exitCode = NotGiven
    /\ checked = FALSE
    /\ cleared = FALSE
    /\ runs = 0
    /\ wanted = vms.spec
    /\ gap = FALSE
    /\ blind = FALSE

(***************************************************************************)
(* The services and the producer.                                          *)
(***************************************************************************)
Empty(stage) == [stage |-> stage, old |-> FALSE, new |-> 0]

Begun(topic) == IF topic.stage = "present" THEN [topic EXCEPT !.stage = "deleting"] ELSE topic

\* A VMS deletion or creation becomes visible; a deletion may take the log along.
VmsSettles ==
    /\ \/ /\ vms.stage = "deleting"
          /\ vms' = [vms EXCEPT !.stage = "absent"]
          /\ log' \in {log, Begun(log)}
          /\ gap' = (gap \/ existing = NoTopic)
       \/ /\ vms.stage = "creating"
          /\ vms' = [vms EXCEPT !.stage = "present"]
          /\ UNCHANGED <<log, gap>>
    /\ UNCHANGED <<group, consumer, outstanding, runVars, wanted, blind>>

\* The offsets of a log that is no more.
Gone(offset) == IF offset = "here" THEN "gone" ELSE offset

\* The broker's part: a topic VMS has created meanwhile may get a new log.
BrokerSettles ==
    /\ \/ /\ log.stage = "deleting"
          /\ log' \in {Empty("absent")} \cup
                      {Empty("creating") : v \in {vms.stage} \cap {"creating", "present"}}
          /\ group' = Gone(group)
          /\ consumer' = [consumer EXCEPT !.held = Gone(@)]
       \/ /\ log.stage = "creating"
          /\ log' = [log EXCEPT !.stage = "present"]
          /\ UNCHANGED <<group, consumer>>
    /\ UNCHANGED <<vms, outstanding, runVars, wanted, gap, blind>>

\* The source bucket's notifications go on.
Publish ==
    /\ log.stage = "present" /\ log.new < MaxNew
    /\ log' = [log EXCEPT !.new = @ + 1]
    /\ UNCHANGED <<vms, group, consumer, outstanding, runVars, wanted, gap, blind>>

\* The broker deletes the log; the VMS topic may go with it.
AdminDeletes ==
    /\ log' = Begun(log)
    /\ vms' \in {vms, Begun(vms)}

LateDelete ==
    /\ outstanding = "sent" /\ log.stage = "present"
    /\ AdminDeletes
    /\ outstanding' = "carriedOut"
    /\ UNCHANGED <<group, consumer, runVars, wanted, gap, blind>>

(***************************************************************************)
(* The consumer, which the script asks to be stopped.                      *)
(***************************************************************************)
ConsumerStarts ==
    /\ ~consumer.running
    /\ consumer' = [running |-> TRUE, held |-> "none"]
    /\ UNCHANGED <<topicVars, runVars, wanted, gap, blind>>

\* _track_offsets keeps the highest offset, be it one of the log before.
ConsumerReads ==
    /\ consumer.running
    /\ Listed /\ (log.old \/ log.new > 0)
    /\ \E offset \in {"here"} \cup ({consumer.held} \ {"none"}) :
          consumer' = [consumer EXCEPT !.held = offset]
    /\ UNCHANGED <<topicVars, runVars, wanted, gap, blind>>

\* A commit while it runs, or the one of close(), unless it is killed.
ConsumerCommits ==
    /\ consumer.held # "none"
    /\ group' = consumer.held
    /\ consumer' \in [running : BOOLEAN, held : {"none"}]
    /\ UNCHANGED <<vms, log, outstanding, runVars, wanted, gap, blind>>

ConsumerEnds ==
    /\ consumer.running
    /\ consumer' = [running |-> FALSE, held |-> "none"]
    /\ UNCHANGED <<topicVars, runVars, wanted, gap, blind>>

(***************************************************************************)
(* main(): settings, load_existing_topic, the settings of the new topic.   *)
(***************************************************************************)
Goto(label) ==
    /\ pc' = label
    /\ UNCHANGED <<settings, existing, spec, exitCode, checked, cleared, runs>>

End(code) ==
    /\ pc' = "idle"
    /\ exitCode' = code
    /\ existing' = NoTopic
    /\ gap' = (gap \/ vms'.stage = "absent")
    /\ UNCHANGED <<settings, spec, runs>>

StartRun ==
    /\ pc = "idle" /\ runs < MaxRuns
    /\ pc' = "load"
    /\ settings' \in Settings
    /\ runs' = runs + 1
    /\ exitCode' = NotGiven
    /\ checked' = FALSE
    /\ cleared' = FALSE
    /\ outstanding' = IF outstanding = "carriedOut" THEN "none" ELSE outstanding
    /\ UNCHANGED <<vms, log, group, consumer, existing, spec, wanted, gap, blind>>

\* spec_from_record, and default_spec with the defaults for the record.
SpecFromRecord(found) ==
    [partitions |-> IF settings.partitions # NotGiven THEN settings.partitions ELSE found.partitions,
     retention |-> IF settings.retention # NotGiven THEN settings.retention ELSE found.retention]

AfterAdmin == "delete"
AfterCreate == IF settings.broker /\ settings.waits THEN "awaitListed" ELSE "group"

\* Mutant: the settings of the topic found are not copied.
LoadDefaults ==
    /\ pc = "load"
    /\ existing' = IF Visible THEN vms.spec ELSE NoTopic
    /\ spec' = SpecFromRecord(DefaultSpec)
    /\ pc' = IF ~settings.confirm THEN "group" ELSE IF settings.broker THEN "admin" ELSE AfterAdmin
    /\ UNCHANGED <<topicVars, consumer, settings, exitCode, checked, cleared, runs, wanted, gap, blind>>

Load ==
    /\ pc = "load"
    /\ existing' = IF Visible THEN vms.spec ELSE NoTopic
    /\ spec' = SpecFromRecord(IF Visible THEN vms.spec ELSE DefaultSpec)
    /\ pc' = IF ~settings.confirm THEN "group" ELSE IF settings.broker THEN "admin" ELSE AfterAdmin
    /\ UNCHANGED <<topicVars, consumer, settings, exitCode, checked, cleared, runs, wanted, gap, blind>>

(***************************************************************************)
(* recreate_topic()                                                        *)
(***************************************************************************)
\* Admin delete_topics: deleted, also where a deletion is on its way already;
\* absent; or an error that is only noted, and a request that timed out may yet
\* be carried out.
AdminDelete ==
    /\ pc = "admin"
    /\ \/ /\ Listed
          /\ AdminDeletes
          /\ Goto(IF settings.waits THEN "awaitGone" ELSE AfterAdmin)
          /\ UNCHANGED outstanding
       \/ /\ ~Listed
          /\ Goto(AfterAdmin)
          /\ UNCHANGED <<vms, log, outstanding>>
       \/ /\ Goto(AfterAdmin)
          /\ outstanding' \in {outstanding, "sent"}
          /\ UNCHANGED <<vms, log>>
    /\ UNCHANGED <<group, consumer, wanted, gap, blind>>

\* delete_topic, skipped when no topic was found; one that is gone is fine.
Delete ==
    /\ pc = "delete"
    /\ IF existing = NoTopic
       THEN Goto("create") /\ UNCHANGED vms
       ELSE /\ vms' = Begun(vms)
            /\ Goto(IF settings.waits THEN "awaitAbsent" ELSE "create")
    /\ UNCHANGED <<log, group, consumer, outstanding, wanted, gap, blind>>

\* Mutant: no wait for the new topic.
CreateNotWaiting ==
    /\ pc = "create"
    /\ vms.stage = "absent"
    /\ vms' = [stage |-> "creating", spec |-> spec]
    /\ log' = IF log.stage = "absent" THEN Empty("creating") ELSE log
    /\ wanted' = SpecFromRecord(wanted)
    /\ UNCHANGED <<group, consumer, outstanding, gap, blind>>
    /\ Goto("group")

\* VMS accepts a new topic under a free name; a log left in place is reused.
Create ==
    /\ pc = "create"
    /\ vms.stage = "absent"
    /\ vms' = [stage |-> "creating", spec |-> spec]
    /\ log' = IF log.stage = "absent" THEN Empty("creating") ELSE log
    /\ wanted' = SpecFromRecord(wanted)
    /\ UNCHANGED <<group, consumer, outstanding, gap, blind>>
    /\ Goto(IF settings.waits THEN "awaitVisible" ELSE AfterCreate)

\* wait_until: the predicate is seen to hold before the deadline.
Await ==
    /\ \/ pc = "awaitGone" /\ ~Listed /\ Goto(AfterAdmin)
       \/ pc = "awaitAbsent" /\ ~Visible /\ Goto("create")
       \/ pc = "awaitVisible" /\ Visible /\ Goto(AfterCreate)
       \/ pc = "awaitListed" /\ Listed /\ Goto("retained")
    /\ UNCHANGED <<topicVars, consumer, wanted, gap, blind>>

\* Mutant: only the watermarks of the first partition are read.
RetainedFirstPartition == log.new

\* kafka_retained_messages: high minus low, or None for a topic not listed.
Retained == (IF log.old THEN 1 ELSE 0) + log.new

\* Before the last reading: None, or nothing retained.
RetainedNow ==
    /\ pc = "retained"
    /\ ~Listed \/ Retained = 0
    /\ Goto("reread")
    /\ UNCHANGED <<topicVars, consumer, wanted, gap, blind>>

\* The wait for an empty log does not take None for an answer.
AwaitEmpty ==
    /\ pc = "retained"
    /\ Listed /\ Retained > 0
    /\ Goto("awaitEmpty")
    /\ UNCHANGED <<topicVars, consumer, wanted, gap, blind>>

Emptied ==
    /\ pc = "awaitEmpty"
    /\ Listed /\ Retained = 0
    /\ Goto("reread")
    /\ UNCHANGED <<topicVars, consumer, wanted, gap, blind>>

Reread ==
    /\ pc = "reread"
    /\ ~Listed \/ Retained = 0
    /\ checked' = Listed
    /\ pc' = "group"
    /\ UNCHANGED <<settings, existing, spec, exitCode, cleared, runs>>
    /\ UNCHANGED <<topicVars, consumer, wanted, gap, blind>>

(***************************************************************************)
(* maybe_delete_group(), and the ways a run ends.                          *)
(***************************************************************************)
\* Mutant: a dry run does not spare the group.
DeletesGroupAlways == settings.broker /\ ~settings.keepGroup

DeletesGroup == settings.confirm /\ settings.broker /\ ~settings.keepGroup

\* A failure to delete the group is only noted; a live member blocks it.
Group ==
    /\ pc = "group"
    /\ \/ /\ DeletesGroup /\ ~consumer.running
          /\ group' = "none"
          /\ cleared' = checked
       \/ UNCHANGED <<group, cleared>>
    /\ blind' = (blind \/ (settings.confirm /\ ~checked))
    /\ UNCHANGED <<vms, log, consumer, outstanding, wanted, checked>>
    /\ End(0)

\* Where recreate_topic raises: a wait is over, the name is taken, or the log
\* is not empty; and any call to a service may raise by itself.
Fail ==
    /\ pc \notin {"idle", "admin", "group"}
    /\ \/ UNCHANGED vms
       \/ pc = "delete" /\ existing # NoTopic /\ vms' = Begun(vms)
    /\ End(1)
    /\ UNCHANGED <<log, group, consumer, outstanding, wanted, blind, checked, cleared>>

\* The script is killed.
Kill ==
    /\ pc # "idle"
    /\ UNCHANGED <<topicVars, consumer, wanted, blind, checked, cleared>>
    /\ End(NotGiven)

Script ==
    \/ Load
    \/ AdminDelete
    \/ Delete
    \/ Create
    \/ Await
    \/ RetainedNow
    \/ AwaitEmpty
    \/ Emptied
    \/ Reread
    \/ Group
    \/ Fail

Services == VmsSettles \/ BrokerSettles \/ Publish \/ LateDelete

Consumer == ConsumerStarts \/ ConsumerReads \/ ConsumerCommits \/ ConsumerEnds

Next == Script \/ Services \/ Consumer \/ StartRun \/ Kill

Spec == Init /\ [][Next]_vars

(***************************************************************************)
(* Properties.                                                             *)
(***************************************************************************)
Labels == {"idle", "load", "admin", "awaitGone", "delete", "awaitAbsent", "create", "awaitVisible",
           "awaitListed", "retained", "awaitEmpty", "reread", "group"}

TypeOK ==
    /\ vms \in [stage : Stages, spec : Specs]
    /\ log \in [stage : Stages, old : BOOLEAN, new : 0..MaxNew]
    /\ group \in {"none", "here", "gone"}
    /\ consumer \in [running : BOOLEAN, held : {"none", "here", "gone"}]
    /\ outstanding \in {"none", "sent", "carriedOut"}
    /\ pc \in Labels
    /\ settings \in Settings
    /\ existing \in Specs \cup {NoTopic}
    /\ spec \in Specs
    /\ exitCode \in {0, 1, NotGiven}
    /\ runs \in 0..MaxRuns
    /\ wanted \in Specs
    /\ {checked, cleared, gap, blind} \subseteq BOOLEAN

\* The new topic has the settings of the old one, or those asked for: over any
\* number of failed and killed runs they are lost only when the topic was gone
\* with no run holding them (spec_from_record copies what it found).
SettingsKept == vms.stage # "absent" /\ ~gap => vms.spec = wanted

\* The group's position outlives the old messages: a run that leaves some
\* behind leaves the position too, or the next consumer would append all of
\* them again.  Only a run that never saw the log empty may do otherwise.
NoOldReplay == group = "none" /\ log.old => blind

\* After a successful run the topic is there, whatever runs before it left half
\* done.  An Admin request that timed out spoils it only when it is carried out
\* between the beginning of that run and the next.
TopicStands ==
    /\ pc = "idle" /\ exitCode = 0 /\ settings.confirm /\ settings.waits
    /\ outstanding # "carriedOut"
    => vms.stage = "present"

\* Once a run has seen the new log empty and has deleted the group after that, no
\* position of the old log comes back ("so offsets cannot skip the new log"),
\* also when a consumer was running in the middle of it all and is started again
\* afterwards.  An Admin request carried out late spoils it.
PositionFitsLog == cleared /\ outstanding # "carriedOut" => group # "gone"

\* Without --confirm no call of the script changes anything.
DryRunHarmless ==
    [][pc # "idle" /\ pc' # pc /\ ~settings.confirm => UNCHANGED topicVars]_vars
=============================================================================
