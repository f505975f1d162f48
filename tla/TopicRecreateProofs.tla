------------------------ MODULE TopicRecreateProofs ------------------------
(***************************************************************************)
(* Proofs about the script that recreates a topic, for any number of runs, *)
(* any settings and any answer of the services.                            *)
(***************************************************************************)
EXTENDS TopicRecreate, TLAPS

\* Where the script is before it has created the topic, and after it has seen it.
BeforeCreate == {"admin", "awaitGone", "delete", "awaitAbsent", "create"}
AfterVisible == {"awaitListed", "retained", "awaitEmpty", "reread"}

\* This run has created the topic; only a dry run reaches "group" otherwise.
Created == pc \in AfterVisible \cup {"awaitVisible"} \/ (pc = "group" /\ settings.confirm)

\* What the run's own variables say of each other.
RunInv ==
    /\ pc \notin {"idle", "load", "group"} => settings.confirm
    /\ pc \in {"idle", "load"} => existing = NoTopic
    /\ checked => pc \in {"group", "idle"} /\ settings.confirm
    /\ cleared => pc = "idle" /\ checked

\* A topic a run has created stays, but for an Admin request carried out late.
CreatedInv ==
    (Created \/ cleared) /\ outstanding # "carriedOut" => vms.stage \in {"creating", "present"}

StandsInv ==
    /\ settings.confirm /\ settings.waits /\ outstanding # "carriedOut"
    /\ \/ pc \in AfterVisible \cup {"group"}
       \/ pc = "idle" /\ exitCode = 0
    => vms.stage = "present"

\* Where the settings are while the topic is not: in the run that deleted it, or
\* there never were any but the defaults.
SettingsInv ==
    /\ vms.stage # "absent" /\ ~gap => vms.spec = wanted
    /\ vms.stage = "absent" /\ existing = NoTopic /\ ~gap => wanted = DefaultSpec
    /\ pc \in BeforeCreate /\ existing = NoTopic => spec = SpecFromRecord(DefaultSpec)
    /\ pc \in BeforeCreate /\ existing # NoTopic /\ ~gap => spec = SpecFromRecord(wanted)

\* The log that was seen empty holds no old message, now or later.
ReplayInv ==
    /\ group = "none" /\ log.old => blind
    /\ checked => ~log.old

\* Positions in the log as it is belong to messages that are there, so that a
\* log seen empty leaves none behind when it goes.
PositionInv ==
    /\ cleared /\ outstanding # "carriedOut" => group # "gone" /\ consumer.held # "gone"
    /\ ~consumer.running => consumer.held = "none"
    /\ group = "here" \/ consumer.held = "here" => log.old \/ log.new > 0
    /\ log.stage \in {"absent", "creating"} => ~log.old /\ log.new = 0
    /\ /\ pc = "group" \/ cleared
       /\ checked /\ outstanding # "carriedOut" /\ log.stage = "deleting"
       => ~log.old /\ log.new = 0

IInv ==
    /\ TypeOK /\ RunInv /\ CreatedInv /\ StandsInv
    /\ SettingsInv /\ ReplayInv /\ PositionInv

\* The services settle without the script noticing.
LEMMA ServicesFrame == Services => UNCHANGED <<runVars, wanted, blind>>
BY DEF Services, VmsSettles, BrokerSettles, Publish, LateDelete

\* The consumer changes neither topic nor script.
LEMMA ConsumerFrame ==
    Consumer => UNCHANGED <<vms, log, outstanding, runVars, wanted, gap, blind>>
BY DEF Consumer, ConsumerStarts, ConsumerReads, ConsumerCommits, ConsumerEnds, topicVars

\* A deletion that was asked for begins at once or later (VMS).
LEMMA BegunVms ==
    ASSUME TypeOK
    PROVE  /\ Begun(vms) \in [stage : Stages, spec : Specs] /\ Begun(vms).spec = vms.spec
           /\ \/ Begun(vms).stage = vms.stage
              \/ vms.stage = "present" /\ Begun(vms).stage = "deleting"
BY DEF TypeOK, Begun, Stages

\* A deletion that was asked for begins at once or later (broker).
LEMMA BegunLog ==
    ASSUME TypeOK
    PROVE  /\ Begun(log) \in [stage : Stages, old : BOOLEAN, new : 0..MaxNew]
           /\ Begun(log).old = log.old /\ Begun(log).new = log.new
           /\ \/ Begun(log).stage = log.stage
              \/ log.stage = "present" /\ Begun(log).stage = "deleting"
BY DEF TypeOK, Begun, Stages

\* A record is read as settings.
LEMMA SpecType ==
    ASSUME TypeOK, NEW found \in Specs
    PROVE  SpecFromRecord(found) \in Specs
BY DEF TypeOK, SpecFromRecord, Settings, Specs

\* The default settings are settings.
LEMMA Defaults == DefaultSpec \in Specs /\ NoTopic \notin Specs
BY TopicAssumption DEF DefaultSpec, Specs, NoTopic

\* What VMS does by itself.
LEMMA VmsEffect ==
    ASSUME TypeOK, VmsSettles
    PROVE  /\ \/ /\ vms.stage = "deleting" /\ vms'.stage = "absent"
                 /\ log' = log \/ log' = Begun(log)
                 /\ gap' = (gap \/ existing = NoTopic)
              \/ /\ vms.stage = "creating" /\ vms'.stage = "present"
                 /\ UNCHANGED <<log, gap>>
           /\ vms' \in [stage : Stages, spec : Specs] /\ vms'.spec = vms.spec
           /\ UNCHANGED <<group, consumer, outstanding, runVars, wanted, blind>>
<1>1. /\ \/ /\ vms.stage = "deleting" /\ vms' = [vms EXCEPT !.stage = "absent"]
            /\ log' = log \/ log' = Begun(log)
            /\ gap' = (gap \/ existing = NoTopic)
         \/ /\ vms.stage = "creating" /\ vms' = [vms EXCEPT !.stage = "present"]
            /\ UNCHANGED <<log, gap>>
      /\ UNCHANGED <<group, consumer, outstanding, runVars, wanted, blind>>
  BY DEF VmsSettles
<1>2. vms \in [stage : Stages, spec : Specs]
  BY DEF TypeOK
<1>3. CASE vms' = [vms EXCEPT !.stage = "absent"]
  <2>1. vms'.stage = "absent" /\ vms'.spec = vms.spec /\ vms' \in [stage : Stages, spec : Specs]
    BY <1>2, <1>3 DEF Stages
  <2> QED
    BY <1>1, <1>3, <2>1
<1>4. CASE vms' = [vms EXCEPT !.stage = "present"]
  <2>1. vms'.stage = "present" /\ vms'.spec = vms.spec /\ vms' \in [stage : Stages, spec : Specs]
    BY <1>2, <1>4 DEF Stages
  <2> QED
    BY <1>1, <1>4, <2>1
<1> QED
  BY <1>1, <1>3, <1>4

\* The log after the broker has settled.
LEMMA BrokerEffect ==
    ASSUME TypeOK, BrokerSettles
    PROVE  /\ \/ /\ log.stage = "deleting" /\ log'.stage \in {"absent", "creating"}
                 /\ log'.old = FALSE /\ log'.new = 0
                 /\ group' = Gone(group)
                 /\ consumer' = [consumer EXCEPT !.held = Gone(@)]
              \/ /\ log.stage = "creating" /\ log'.stage = "present"
                 /\ log'.old = log.old /\ log'.new = log.new
                 /\ UNCHANGED <<group, consumer>>
           /\ log' \in [stage : Stages, old : BOOLEAN, new : 0..MaxNew]
           /\ UNCHANGED <<vms, outstanding, runVars, wanted, gap, blind>>
<1>1. UNCHANGED <<vms, outstanding, runVars, wanted, gap, blind>>
  BY DEF BrokerSettles
<1>2. CASE /\ log.stage = "deleting"
           /\ log' = Empty("absent") \/ log' = Empty("creating")
           /\ group' = Gone(group) /\ consumer' = [consumer EXCEPT !.held = Gone(@)]
  <2>1. /\ log'.stage \in {"absent", "creating"} /\ log'.old = FALSE /\ log'.new = 0
        /\ log' \in [stage : Stages, old : BOOLEAN, new : 0..MaxNew]
    <3>1. 0 \in 0..MaxNew
      BY TopicAssumption
    <3>2. CASE log' = Empty("absent")
      BY <3>1, <3>2 DEF Empty, Stages
    <3>3. CASE log' = Empty("creating")
      BY <3>1, <3>3 DEF Empty, Stages
    <3> QED
      BY <1>2, <3>2, <3>3
  <2> QED
    BY <1>1, <1>2, <2>1
<1>3. CASE /\ log.stage = "creating" /\ log' = [log EXCEPT !.stage = "present"]
           /\ UNCHANGED <<group, consumer>>
  <2>1. log \in [stage : Stages, old : BOOLEAN, new : 0..MaxNew]
    BY DEF TypeOK
  <2>2. /\ log'.stage = "present" /\ log'.old = log.old /\ log'.new = log.new
        /\ log' \in [stage : Stages, old : BOOLEAN, new : 0..MaxNew]
    BY <1>3, <2>1 DEF Stages
  <2> QED
    BY <1>1, <1>3, <2>2
<1> QED
  BY <1>2, <1>3 DEF BrokerSettles

\* Every step keeps the types.
LEMMA TypeNext == TypeOK /\ [Next]_vars => TypeOK'
<1> SUFFICES ASSUME TypeOK, [Next]_vars PROVE TypeOK'
  OBVIOUS
<1>1. CASE VmsSettles
  <2>1. log' \in [stage : Stages, old : BOOLEAN, new : 0..MaxNew]
    BY <1>1, VmsEffect, BegunLog DEF TypeOK
  <2>2. gap' \in BOOLEAN
    BY <1>1 DEF VmsSettles, TypeOK
  <2> QED
    BY <1>1, <2>1, <2>2, VmsEffect DEF TypeOK, runVars
<1>2. CASE BrokerSettles
  <2>1. /\ group' \in {"none", "here", "gone"}
        /\ consumer' \in [running : BOOLEAN, held : {"none", "here", "gone"}]
    BY <1>2 DEF BrokerSettles, Gone, TypeOK
  <2> QED
    BY <1>2, <2>1, BrokerEffect DEF TypeOK, runVars
<1>3. CASE Publish
  BY <1>3, TopicAssumption DEF Publish, TypeOK, topicVars, runVars, Stages, Labels
<1>4. CASE LateDelete
  BY <1>4, BegunVms, BegunLog DEF LateDelete, AdminDeletes, TypeOK, runVars
<1>5. CASE ConsumerStarts
  BY <1>5, TopicAssumption DEF ConsumerStarts, TypeOK, topicVars, runVars, Stages, Labels
<1>6. CASE ConsumerReads
  BY <1>6, TopicAssumption DEF ConsumerReads, Listed, TypeOK, topicVars, runVars, Stages, Labels
<1>7. CASE ConsumerCommits
  BY <1>7, TopicAssumption DEF ConsumerCommits, TypeOK, topicVars, runVars, Stages, Labels
<1>8. CASE ConsumerEnds
  BY <1>8, TopicAssumption DEF ConsumerEnds, TypeOK, topicVars, runVars, Stages, Labels
<1>9. CASE StartRun
  <2>1. runs' \in 0..MaxRuns
    BY <1>9, TopicAssumption DEF StartRun, TypeOK
  <2>2. {checked', cleared', gap', blind'} \subseteq BOOLEAN
    BY <1>9 DEF StartRun, TypeOK
  <2> QED
    BY <1>9, <2>1, <2>2 DEF StartRun, TypeOK, topicVars, Labels
<1>10. CASE Load
  <2>1. vms.spec \in Specs
    BY DEF TypeOK
  <2>2. existing' \in Specs \cup {NoTopic} /\ spec' \in Specs
    BY <1>10, <2>1, SpecType, Defaults DEF Load
  <2> QED
    BY <1>10, <2>2 DEF Load, AfterAdmin, TypeOK, topicVars, Labels
<1>11. CASE AdminDelete
  BY <1>11, BegunVms, BegunLog
  DEF AdminDelete, AdminDeletes, Goto, AfterAdmin, TypeOK, topicVars, runVars, Labels
<1>12. CASE Delete
  BY <1>12, BegunVms DEF Delete, Goto, TypeOK, runVars, Labels
<1>13. CASE Create
  <2>1. vms' \in [stage : Stages, spec : Specs]
    BY <1>13 DEF Create, TypeOK, Stages
  <2>2. log' \in [stage : Stages, old : BOOLEAN, new : 0..MaxNew]
    BY <1>13, TopicAssumption DEF Create, Empty, TypeOK, Stages
  <2>3. wanted' \in Specs
    BY <1>13, SpecType DEF Create, TypeOK
  <2> QED
    BY <1>13, <2>1, <2>2, <2>3 DEF Create, Goto, AfterCreate, TypeOK, Labels
<1>14. CASE Await
  BY <1>14, TopicAssumption DEF Await, Goto, AfterAdmin, AfterCreate, Visible, Listed, TypeOK,
    topicVars, runVars, Stages, Labels
<1>15. CASE RetainedNow
  BY <1>15, TopicAssumption DEF RetainedNow, Goto, TypeOK, topicVars, runVars, Stages, Labels
<1>16. CASE AwaitEmpty
  BY <1>16, TopicAssumption DEF AwaitEmpty, Goto, TypeOK, topicVars, runVars, Stages, Labels
<1>17. CASE Emptied
  BY <1>17, TopicAssumption DEF Emptied, Goto, TypeOK, topicVars, runVars, Stages, Labels
<1>18. CASE Reread
  BY <1>18, TopicAssumption DEF Reread, Listed, Retained, TypeOK, topicVars, runVars, Stages, Labels
<1>19. CASE Group
  BY <1>19, TopicAssumption DEF Group, End, DeletesGroup, TypeOK, topicVars, runVars, Stages, Labels
<1>20. CASE Fail
  BY <1>20, BegunVms DEF Fail, End, TypeOK, Labels
<1>21. CASE Kill
  BY <1>21, TopicAssumption DEF Kill, End, TypeOK, topicVars, runVars, Stages, Labels
<1>22. CASE UNCHANGED vars
  BY <1>22 DEF vars, TypeOK, topicVars, runVars, Stages, Labels
<1> QED
  BY <1>1, <1>2, <1>3, <1>4, <1>5, <1>6, <1>7, <1>8, <1>9, <1>10, <1>11, <1>12, <1>13, <1>14,
     <1>15, <1>16, <1>17, <1>18, <1>19, <1>20, <1>21, <1>22
  DEF Next, Script, Services, Consumer

\* Every step keeps what a run knows at its place in the code.
LEMMA RunNext == TypeOK /\ RunInv /\ [Next]_vars => RunInv'
<1> SUFFICES ASSUME TypeOK, RunInv, [Next]_vars PROVE RunInv'
  OBVIOUS
<1>1. CASE Services
  BY <1>1, ServicesFrame DEF runVars, RunInv, topicVars, BeforeCreate
<1>2. CASE Consumer
  BY <1>2, ConsumerFrame DEF runVars, RunInv, topicVars, BeforeCreate
<1>3. CASE StartRun
  BY <1>3, TopicAssumption DEF StartRun, RunInv, topicVars, runVars, BeforeCreate
<1>4. CASE Load
  BY <1>4, TopicAssumption DEF Load, AfterAdmin, SpecFromRecord, Visible, RunInv, topicVars,
    runVars, BeforeCreate
<1>5. CASE AdminDelete
  BY <1>5, TopicAssumption DEF AdminDelete, AdminDeletes, Begun, Goto, AfterAdmin, RunInv,
    topicVars, runVars, BeforeCreate
<1>6. CASE Delete
  BY <1>6, TopicAssumption DEF Delete, Begun, Goto, RunInv, topicVars, runVars, BeforeCreate
<1>7. CASE Create
  BY <1>7, TopicAssumption DEF Create, Goto, Empty, AfterCreate, RunInv, topicVars, runVars,
    BeforeCreate
<1>8. CASE Await
  BY <1>8, TopicAssumption DEF Await, Goto, AfterAdmin, AfterCreate, Visible, Listed, RunInv,
    topicVars, runVars, BeforeCreate
<1>9. CASE RetainedNow
  BY <1>9, TopicAssumption DEF RetainedNow, Goto, RunInv, topicVars, runVars, BeforeCreate
<1>10. CASE AwaitEmpty
  BY <1>10, TopicAssumption DEF AwaitEmpty, Goto, RunInv, topicVars, runVars, BeforeCreate
<1>11. CASE Emptied
  BY <1>11, TopicAssumption DEF Emptied, Goto, RunInv, topicVars, runVars, BeforeCreate
<1>12. CASE Reread
  BY <1>12, TopicAssumption DEF Reread, Listed, Retained, RunInv, topicVars, runVars, BeforeCreate
<1>13. CASE Group
  BY <1>13, TopicAssumption DEF Group, End, DeletesGroup, RunInv, topicVars, runVars, BeforeCreate
<1>14. CASE Fail
  BY <1>14, TopicAssumption DEF Fail, End, Begun, RunInv, topicVars, runVars, BeforeCreate
<1>15. CASE Kill
  BY <1>15, TopicAssumption DEF Kill, End, RunInv, topicVars, runVars, BeforeCreate
<1>16. CASE UNCHANGED vars
  BY <1>16 DEF vars, RunInv, topicVars, runVars, BeforeCreate
<1> QED
  BY <1>1, <1>2, <1>3, <1>4, <1>5, <1>6, <1>7, <1>8, <1>9, <1>10, <1>11, <1>12, <1>13, <1>14,
     <1>15, <1>16
  DEF Next, Script

\* Every step keeps what follows from the creation.
LEMMA CreatedNext == TypeOK /\ RunInv /\ CreatedInv /\ [Next]_vars => CreatedInv'
<1> SUFFICES ASSUME TypeOK, RunInv, CreatedInv, [Next]_vars PROVE CreatedInv'
  OBVIOUS
<1>1. CASE Consumer
  BY <1>1, ConsumerFrame DEF runVars, RunInv, CreatedInv, Created, AfterVisible, topicVars
<1>2. CASE VmsSettles
  BY <1>2, VmsEffect DEF RunInv, CreatedInv, Created, AfterVisible, runVars
<1>3. CASE BrokerSettles
  BY <1>3, TopicAssumption DEF BrokerSettles, Empty, Gone, RunInv, CreatedInv, Created,
    AfterVisible, topicVars, runVars
<1>4. CASE Publish
  BY <1>4, TopicAssumption DEF Publish, RunInv, CreatedInv, Created, AfterVisible, topicVars,
    runVars
<1>5. CASE LateDelete
  BY <1>5, TopicAssumption DEF LateDelete, AdminDeletes, Begun, RunInv, CreatedInv, Created,
    AfterVisible, topicVars, runVars
<1>6. CASE StartRun
  BY <1>6, TopicAssumption DEF StartRun, RunInv, CreatedInv, Created, AfterVisible, topicVars,
    runVars
<1>7. CASE Load
  BY <1>7, TopicAssumption DEF Load, AfterAdmin, SpecFromRecord, Visible, RunInv, CreatedInv,
    Created, AfterVisible, topicVars, runVars
<1>8. CASE AdminDelete
  BY <1>8, TopicAssumption DEF AdminDelete, AdminDeletes, Begun, Goto, AfterAdmin, RunInv,
    CreatedInv, Created, AfterVisible, topicVars, runVars
<1>9. CASE Delete
  BY <1>9, TopicAssumption DEF Delete, Begun, Goto, RunInv, CreatedInv, Created, AfterVisible,
    topicVars, runVars
<1>10. CASE Create
  BY <1>10, TopicAssumption DEF Create, Goto, Empty, AfterCreate, RunInv, CreatedInv, Created,
    AfterVisible, topicVars, runVars
<1>11. CASE Await
  BY <1>11, TopicAssumption DEF Await, Goto, AfterAdmin, AfterCreate, Visible, Listed, RunInv,
    CreatedInv, Created, AfterVisible, topicVars, runVars
<1>12. CASE RetainedNow
  BY <1>12, TopicAssumption DEF RetainedNow, Goto, RunInv, CreatedInv, Created, AfterVisible,
    topicVars, runVars
<1>13. CASE AwaitEmpty
  BY <1>13, TopicAssumption DEF AwaitEmpty, Goto, RunInv, CreatedInv, Created, AfterVisible,
    topicVars, runVars
<1>14. CASE Emptied
  BY <1>14, TopicAssumption DEF Emptied, Goto, RunInv, CreatedInv, Created, AfterVisible, topicVars,
    runVars
<1>15. CASE Reread
  BY <1>15, TopicAssumption DEF Reread, Listed, Retained, RunInv, CreatedInv, Created, AfterVisible,
    topicVars, runVars
<1>16. CASE Group
  BY <1>16, TopicAssumption DEF Group, End, DeletesGroup, RunInv, CreatedInv, Created, AfterVisible,
    topicVars, runVars
<1>17. CASE Fail
  BY <1>17, TopicAssumption DEF Fail, End, Begun, RunInv, CreatedInv, Created, AfterVisible,
    topicVars, runVars
<1>18. CASE Kill
  BY <1>18, TopicAssumption DEF Kill, End, RunInv, CreatedInv, Created, AfterVisible, topicVars,
    runVars
<1>19. CASE UNCHANGED vars
  BY <1>19 DEF vars, RunInv, CreatedInv, Created, AfterVisible, topicVars, runVars
<1> QED
  BY <1>1, <1>2, <1>3, <1>4, <1>5, <1>6, <1>7, <1>8, <1>9, <1>10, <1>11, <1>12, <1>13, <1>14,
     <1>15, <1>16, <1>17, <1>18, <1>19
  DEF Next, Script, Services

\* Every step keeps a created topic standing.
LEMMA StandsNext == TypeOK /\ RunInv /\ CreatedInv /\ StandsInv /\ [Next]_vars => StandsInv'
<1> SUFFICES ASSUME TypeOK, RunInv, CreatedInv, StandsInv, [Next]_vars PROVE StandsInv'
  OBVIOUS
<1>1. CASE Consumer
  BY <1>1, ConsumerFrame DEF runVars, RunInv, StandsInv, CreatedInv, Created, AfterVisible,
    topicVars
<1>2. CASE VmsSettles
  BY <1>2, TopicAssumption DEF VmsSettles, Begun, RunInv, StandsInv, CreatedInv, Created,
    AfterVisible, topicVars, runVars
<1>3. CASE BrokerSettles
  BY <1>3, TopicAssumption DEF BrokerSettles, Empty, Gone, RunInv, StandsInv, CreatedInv, Created,
    AfterVisible, topicVars, runVars
<1>4. CASE Publish
  BY <1>4, TopicAssumption DEF Publish, RunInv, StandsInv, CreatedInv, Created, AfterVisible,
    topicVars, runVars
<1>5. CASE LateDelete
  BY <1>5, TopicAssumption DEF LateDelete, AdminDeletes, Begun, RunInv, StandsInv, CreatedInv,
    Created, AfterVisible, topicVars, runVars
<1>6. CASE StartRun
  BY <1>6, TopicAssumption DEF StartRun, RunInv, StandsInv, CreatedInv, Created, AfterVisible,
    topicVars, runVars
<1>7. CASE Load
  BY <1>7, TopicAssumption DEF Load, AfterAdmin, SpecFromRecord, Visible, RunInv, StandsInv,
    CreatedInv, Created, AfterVisible, topicVars, runVars
<1>8. CASE AdminDelete
  BY <1>8, TopicAssumption DEF AdminDelete, AdminDeletes, Begun, Goto, AfterAdmin, RunInv,
    StandsInv, CreatedInv, Created, AfterVisible, topicVars, runVars
<1>9. CASE Delete
  BY <1>9, TopicAssumption DEF Delete, Begun, Goto, RunInv, StandsInv, CreatedInv, Created,
    AfterVisible, topicVars, runVars
<1>10. CASE Create
  BY <1>10, TopicAssumption DEF Create, Goto, Empty, AfterCreate, RunInv, StandsInv, CreatedInv,
    Created, AfterVisible, topicVars, runVars
<1>11. CASE Await
  BY <1>11, TopicAssumption DEF Await, Goto, AfterAdmin, AfterCreate, Visible, Listed, RunInv,
    StandsInv, CreatedInv, Created, AfterVisible, topicVars, runVars
<1>12. CASE RetainedNow
  BY <1>12, TopicAssumption DEF RetainedNow, Goto, RunInv, StandsInv, CreatedInv, Created,
    AfterVisible, topicVars, runVars
<1>13. CASE AwaitEmpty
  BY <1>13, TopicAssumption DEF AwaitEmpty, Goto, RunInv, StandsInv, CreatedInv, Created,
    AfterVisible, topicVars, runVars
<1>14. CASE Emptied
  BY <1>14, TopicAssumption DEF Emptied, Goto, RunInv, StandsInv, CreatedInv, Created, AfterVisible,
    topicVars, runVars
<1>15. CASE Reread
  BY <1>15, TopicAssumption DEF Reread, Listed, Retained, RunInv, StandsInv, CreatedInv, Created,
    AfterVisible, topicVars, runVars
<1>16. CASE Group
  BY <1>16, TopicAssumption DEF Group, End, DeletesGroup, RunInv, StandsInv, CreatedInv, Created,
    AfterVisible, topicVars, runVars
<1>17. CASE Fail
  BY <1>17, TopicAssumption DEF Fail, End, Begun, RunInv, StandsInv, CreatedInv, Created,
    AfterVisible, topicVars, runVars
<1>18. CASE Kill
  BY <1>18, TopicAssumption DEF Kill, End, RunInv, StandsInv, CreatedInv, Created, AfterVisible,
    topicVars, runVars
<1>19. CASE UNCHANGED vars
  BY <1>19 DEF vars, RunInv, StandsInv, CreatedInv, Created, AfterVisible, topicVars, runVars
<1> QED
  BY <1>1, <1>2, <1>3, <1>4, <1>5, <1>6, <1>7, <1>8, <1>9, <1>10, <1>11, <1>12, <1>13, <1>14,
     <1>15, <1>16, <1>17, <1>18, <1>19
  DEF Next, Script, Services

\* Every step keeps the settings, in the topic or in the script's memory.
LEMMA SettingsNext == TypeOK /\ RunInv /\ SettingsInv /\ [Next]_vars => SettingsInv'
<1> SUFFICES ASSUME TypeOK, RunInv, SettingsInv, [Next]_vars PROVE SettingsInv'
  OBVIOUS
<1>1. CASE Consumer
  BY <1>1, ConsumerFrame DEF runVars, RunInv, SettingsInv, BeforeCreate, SpecFromRecord, topicVars
<1>2. CASE VmsSettles
  <2>1. UNCHANGED <<pc, existing, spec, settings, wanted>> /\ vms'.spec = vms.spec
    BY <1>2, VmsEffect DEF runVars
  <2>2. CASE vms'.stage = "absent" /\ vms.stage = "deleting" /\ gap' = (gap \/ existing = NoTopic)
    BY <2>1, <2>2 DEF SettingsInv, BeforeCreate, SpecFromRecord
  <2>3. CASE vms'.stage = "present" /\ vms.stage = "creating" /\ gap' = gap
    BY <2>1, <2>3 DEF SettingsInv, BeforeCreate, SpecFromRecord
  <2> QED
    BY <1>2, <2>2, <2>3, VmsEffect
<1>3. CASE BrokerSettles
  BY <1>3, TopicAssumption DEF BrokerSettles, Empty, Gone, RunInv, SettingsInv, BeforeCreate,
    SpecFromRecord, topicVars, runVars
<1>4. CASE Publish
  BY <1>4, TopicAssumption DEF Publish, RunInv, SettingsInv, BeforeCreate, SpecFromRecord,
    topicVars, runVars
<1>5. CASE LateDelete
  BY <1>5, BegunVms
  DEF LateDelete, AdminDeletes, SettingsInv, BeforeCreate, SpecFromRecord, runVars
<1>6. CASE StartRun
  BY <1>6, TopicAssumption DEF StartRun, RunInv, SettingsInv, BeforeCreate, SpecFromRecord,
    topicVars, runVars
<1>7. CASE Load
  <2>1. vms.spec # NoTopic
    BY Defaults DEF TypeOK
  <2>2. Visible => vms.stage # "absent"
    BY DEF Visible
  <2>3. CASE Visible
    BY <1>7, <2>1, <2>2, <2>3
    DEF Load, AfterAdmin, SettingsInv, BeforeCreate, SpecFromRecord, topicVars
  <2>4. CASE ~Visible
    BY <1>7, <2>4 DEF Load, AfterAdmin, RunInv, SettingsInv, BeforeCreate, SpecFromRecord, topicVars
  <2> QED
    BY <2>3, <2>4
<1>8. CASE AdminDelete
  BY <1>8, BegunVms
  DEF AdminDelete, AdminDeletes, Goto, AfterAdmin, SettingsInv, BeforeCreate, SpecFromRecord
<1>9. CASE Delete
  BY <1>9, BegunVms DEF Delete, Goto, SettingsInv, BeforeCreate, SpecFromRecord
<1>10. CASE Create
  BY <1>10, TopicAssumption DEF Create, Goto, Empty, AfterCreate, RunInv, SettingsInv, BeforeCreate,
    SpecFromRecord, topicVars, runVars
<1>11. CASE Await
  BY <1>11, TopicAssumption DEF Await, Goto, AfterAdmin, AfterCreate, Visible, Listed, RunInv,
    SettingsInv, BeforeCreate, SpecFromRecord, topicVars, runVars
<1>12. CASE RetainedNow
  BY <1>12, TopicAssumption DEF RetainedNow, Goto, RunInv, SettingsInv, BeforeCreate,
    SpecFromRecord, topicVars, runVars
<1>13. CASE AwaitEmpty
  BY <1>13, TopicAssumption DEF AwaitEmpty, Goto, RunInv, SettingsInv, BeforeCreate, SpecFromRecord,
    topicVars, runVars
<1>14. CASE Emptied
  BY <1>14, TopicAssumption DEF Emptied, Goto, RunInv, SettingsInv, BeforeCreate, SpecFromRecord,
    topicVars, runVars
<1>15. CASE Reread
  BY <1>15, TopicAssumption DEF Reread, Listed, Retained, RunInv, SettingsInv, BeforeCreate,
    SpecFromRecord, topicVars, runVars
<1>16. CASE Group
  BY <1>16, TopicAssumption DEF Group, End, DeletesGroup, RunInv, SettingsInv, BeforeCreate,
    SpecFromRecord, topicVars, runVars
<1>17. CASE Fail
  BY <1>17, BegunVms DEF Fail, End, SettingsInv, BeforeCreate, SpecFromRecord
<1>18. CASE Kill
  BY <1>18, TopicAssumption DEF Kill, End, RunInv, SettingsInv, BeforeCreate, SpecFromRecord,
    topicVars, runVars
<1>19. CASE UNCHANGED vars
  BY <1>19 DEF vars, RunInv, SettingsInv, BeforeCreate, SpecFromRecord, topicVars, runVars
<1> QED
  BY <1>1, <1>2, <1>3, <1>4, <1>5, <1>6, <1>7, <1>8, <1>9, <1>10, <1>11, <1>12, <1>13, <1>14,
     <1>15, <1>16, <1>17, <1>18, <1>19
  DEF Next, Script, Services

\* Every step keeps a log seen empty free of old messages.
LEMMA ReplayNext == TypeOK /\ RunInv /\ ReplayInv /\ [Next]_vars => ReplayInv'
<1> SUFFICES ASSUME TypeOK, RunInv, ReplayInv, [Next]_vars PROVE ReplayInv'
  OBVIOUS
<1>1. CASE VmsSettles
  BY <1>1, VmsEffect, BegunLog DEF ReplayInv, runVars
<1>2. CASE BrokerSettles
  <2>1. group' = "none" => group = "none"
    BY <1>2, BrokerEffect DEF Gone
  <2>2. log'.old => log.old
    BY <1>2, BrokerEffect
  <2> QED
    BY <1>2, <2>1, <2>2, BrokerEffect DEF ReplayInv, runVars
<1>3. CASE Publish
  BY <1>3, TopicAssumption DEF Publish, RunInv, ReplayInv, topicVars, runVars
<1>4. CASE LateDelete
  BY <1>4, BegunLog DEF LateDelete, AdminDeletes, ReplayInv, runVars
<1>5. CASE ConsumerStarts
  BY <1>5, TopicAssumption DEF ConsumerStarts, RunInv, ReplayInv, topicVars, runVars
<1>6. CASE ConsumerReads
  BY <1>6, TopicAssumption DEF ConsumerReads, Listed, RunInv, ReplayInv, topicVars, runVars
<1>7. CASE ConsumerCommits
  BY <1>7, TopicAssumption DEF ConsumerCommits, RunInv, ReplayInv, topicVars, runVars
<1>8. CASE ConsumerEnds
  BY <1>8, TopicAssumption DEF ConsumerEnds, RunInv, ReplayInv, topicVars, runVars
<1>9. CASE StartRun
  BY <1>9, TopicAssumption DEF StartRun, RunInv, ReplayInv, topicVars, runVars
<1>10. CASE Load
  BY <1>10, TopicAssumption DEF Load, AfterAdmin, SpecFromRecord, Visible, RunInv, ReplayInv,
    topicVars, runVars
<1>11. CASE AdminDelete
  BY <1>11, BegunLog DEF AdminDelete, AdminDeletes, Goto, RunInv, ReplayInv
<1>12. CASE Delete
  BY <1>12, TopicAssumption DEF Delete, Begun, Goto, RunInv, ReplayInv, topicVars, runVars
<1>13. CASE Create
  BY <1>13, TopicAssumption DEF Create, Goto, Empty, AfterCreate, RunInv, ReplayInv, topicVars,
    runVars
<1>14. CASE Await
  BY <1>14, TopicAssumption DEF Await, Goto, AfterAdmin, AfterCreate, Visible, Listed, RunInv,
    ReplayInv, topicVars, runVars
<1>15. CASE RetainedNow
  BY <1>15, TopicAssumption DEF RetainedNow, Goto, RunInv, ReplayInv, topicVars, runVars
<1>16. CASE AwaitEmpty
  BY <1>16, TopicAssumption DEF AwaitEmpty, Goto, RunInv, ReplayInv, topicVars, runVars
<1>17. CASE Emptied
  BY <1>17, TopicAssumption DEF Emptied, Goto, RunInv, ReplayInv, topicVars, runVars
<1>18. CASE Reread
  <2>1. ~log.old \/ ~Listed
    BY <1>18 DEF Reread, Retained, TypeOK
  <2> QED
    BY <1>18, <2>1 DEF Reread, ReplayInv, topicVars
<1>19. CASE Group
  BY <1>19, TopicAssumption DEF Group, End, DeletesGroup, RunInv, ReplayInv, topicVars, runVars
<1>20. CASE Fail
  BY <1>20, TopicAssumption DEF Fail, End, Begun, RunInv, ReplayInv, topicVars, runVars
<1>21. CASE Kill
  BY <1>21, TopicAssumption DEF Kill, End, RunInv, ReplayInv, topicVars, runVars
<1>22. CASE UNCHANGED vars
  BY <1>22 DEF vars, RunInv, ReplayInv, topicVars, runVars
<1> QED
  BY <1>1, <1>2, <1>3, <1>4, <1>5, <1>6, <1>7, <1>8, <1>9, <1>10, <1>11, <1>12, <1>13, <1>14,
     <1>15, <1>16, <1>17, <1>18, <1>19, <1>20, <1>21, <1>22
  DEF Next, Script, Services, Consumer

\* Every step keeps the positions within their log.
LEMMA PositionNext == TypeOK /\ RunInv /\ CreatedInv /\ PositionInv /\ [Next]_vars => PositionInv'
<1> SUFFICES ASSUME TypeOK, RunInv, CreatedInv, PositionInv, [Next]_vars PROVE PositionInv'
  OBVIOUS
<1>1. CASE VmsSettles
  BY <1>1, TopicAssumption DEF VmsSettles, Begun, TypeOK, RunInv, PositionInv, CreatedInv, Created,
    topicVars, runVars
<1>2. CASE BrokerSettles
  BY <1>2, TopicAssumption DEF BrokerSettles, Empty, Gone, TypeOK, RunInv, PositionInv, CreatedInv,
    Created, topicVars, runVars
<1>3. CASE Publish
  BY <1>3, TopicAssumption DEF Publish, TypeOK, RunInv, PositionInv, CreatedInv, Created,
    topicVars, runVars
<1>4. CASE LateDelete
  BY <1>4, TopicAssumption DEF LateDelete, AdminDeletes, Begun, TypeOK, RunInv, PositionInv,
    CreatedInv, Created, topicVars, runVars
<1>5. CASE ConsumerStarts
  BY <1>5, TopicAssumption DEF ConsumerStarts, TypeOK, RunInv, PositionInv, CreatedInv, Created,
    topicVars, runVars
<1>6. CASE ConsumerReads
  BY <1>6, TopicAssumption DEF ConsumerReads, Listed, TypeOK, RunInv, PositionInv, CreatedInv,
    Created, topicVars, runVars
<1>7. CASE ConsumerCommits
  BY <1>7, TopicAssumption DEF ConsumerCommits, TypeOK, RunInv, PositionInv, CreatedInv, Created,
    topicVars, runVars
<1>8. CASE ConsumerEnds
  BY <1>8, TopicAssumption DEF ConsumerEnds, TypeOK, RunInv, PositionInv, CreatedInv, Created,
    topicVars, runVars
<1>9. CASE StartRun
  BY <1>9, TopicAssumption DEF StartRun, TypeOK, RunInv, PositionInv, CreatedInv, Created,
    topicVars, runVars
<1>10. CASE Load
  BY <1>10, TopicAssumption DEF Load, AfterAdmin, SpecFromRecord, Visible, TypeOK, RunInv,
    PositionInv, CreatedInv, Created, topicVars, runVars
<1>11. CASE AdminDelete
  BY <1>11, TopicAssumption DEF AdminDelete, AdminDeletes, Begun, Goto, AfterAdmin, TypeOK, RunInv,
    PositionInv, CreatedInv, Created, topicVars, runVars
<1>12. CASE Delete
  BY <1>12, TopicAssumption DEF Delete, Begun, Goto, TypeOK, RunInv, PositionInv, CreatedInv,
    Created, topicVars, runVars
<1>13. CASE Create
  BY <1>13, TopicAssumption DEF Create, Goto, Empty, AfterCreate, TypeOK, RunInv, PositionInv,
    CreatedInv, Created, topicVars, runVars
<1>14. CASE Await
  BY <1>14, TopicAssumption DEF Await, Goto, AfterAdmin, AfterCreate, Visible, Listed, TypeOK,
    RunInv, PositionInv, CreatedInv, Created, topicVars, runVars
<1>15. CASE RetainedNow
  BY <1>15, TopicAssumption DEF RetainedNow, Goto, TypeOK, RunInv, PositionInv, CreatedInv, Created,
    topicVars, runVars
<1>16. CASE AwaitEmpty
  BY <1>16, TopicAssumption DEF AwaitEmpty, Goto, TypeOK, RunInv, PositionInv, CreatedInv, Created,
    topicVars, runVars
<1>17. CASE Emptied
  BY <1>17, TopicAssumption DEF Emptied, Goto, TypeOK, RunInv, PositionInv, CreatedInv, Created,
    topicVars, runVars
<1>18. CASE Reread
  BY <1>18, TopicAssumption DEF Reread, Listed, Retained, TypeOK, RunInv, PositionInv, CreatedInv,
    Created, topicVars, runVars
<1>19. CASE Group
  BY <1>19, TopicAssumption DEF Group, End, DeletesGroup, TypeOK, RunInv, PositionInv, CreatedInv,
    Created, topicVars, runVars
<1>20. CASE Fail
  BY <1>20, TopicAssumption DEF Fail, End, Begun, TypeOK, RunInv, PositionInv, CreatedInv, Created,
    topicVars, runVars
<1>21. CASE Kill
  BY <1>21, TopicAssumption DEF Kill, End, TypeOK, RunInv, PositionInv, CreatedInv, Created,
    topicVars, runVars
<1>22. CASE UNCHANGED vars
  BY <1>22 DEF vars, TypeOK, RunInv, PositionInv, CreatedInv, Created, topicVars, runVars
<1> QED
  BY <1>1, <1>2, <1>3, <1>4, <1>5, <1>6, <1>7, <1>8, <1>9, <1>10, <1>11, <1>12, <1>13, <1>14,
     <1>15, <1>16, <1>17, <1>18, <1>19, <1>20, <1>21, <1>22
  DEF Next, Script, Services, Consumer

\* The initial states satisfy all of them.
LEMMA InvInit == Init => IInv
<1> SUFFICES ASSUME Init PROVE IInv
  OBVIOUS
<1>1. TypeOK
  <2>1. /\ vms \in [stage : Stages, spec : Specs]
        /\ vms.stage \in {"present", "absent"}
    BY Defaults DEF Init, Stages
  <2>2. log \in [stage : Stages, old : BOOLEAN, new : 0..MaxNew]
    <3>1. 0 \in 0..MaxNew
      BY TopicAssumption
    <3>2. log = [stage |-> vms.stage, old |-> (vms.stage = "present"), new |-> 0]
      BY DEF Init
    <3>3. vms.stage \in Stages /\ (vms.stage = "present") \in BOOLEAN
      BY <2>1 DEF Stages
    <3> QED
      BY <3>1, <3>2, <3>3
  <2>3. /\ group \in {"none", "here", "gone"}
        /\ consumer \in [running : BOOLEAN, held : {"none", "here", "gone"}]
        /\ outstanding \in {"none", "sent", "carriedOut"}
        /\ pc \in Labels
        /\ exitCode \in {0, 1, NotGiven}
        /\ existing \in Specs \cup {NoTopic}
        /\ {checked, cleared, gap, blind} \subseteq BOOLEAN
    BY DEF Init, Labels
  <2>4. settings \in Settings
    BY DEF Init, Settings
  <2>5. runs \in 0..MaxRuns
    BY TopicAssumption DEF Init
  <2>6. spec \in Specs /\ wanted \in Specs
    BY <2>1, Defaults DEF Init
  <2> QED
    BY <2>1, <2>2, <2>3, <2>4, <2>5, <2>6 DEF TypeOK
<1>2. RunInv /\ CreatedInv /\ StandsInv
  BY TopicAssumption DEF Init, RunInv, CreatedInv, StandsInv, Created, AfterVisible
<1>3. SettingsInv
  BY DEF Init, SettingsInv, BeforeCreate, DefaultSpec
<1>4. ReplayInv /\ PositionInv
  BY DEF Init, ReplayInv, PositionInv
<1> QED
  BY <1>1, <1>2, <1>3, <1>4 DEF IInv

\* All of them hold in every state.
LEMMA InvAlways == Spec => []IInv
<1>1. IInv /\ [Next]_vars => IInv'
  BY TypeNext, RunNext, CreatedNext, StandsNext, SettingsNext, ReplayNext, PositionNext DEF IInv
<1> QED
  BY <1>1, InvInit, PTL DEF Spec

\* The services, the consumer and the script stay within their types.
THEOREM TypeCorrect == Spec => []TypeOK
<1>1. IInv => TypeOK
  BY DEF IInv
<1> QED
  BY <1>1, InvAlways, PTL

\* Failed and killed runs lose no setting, unless the topic was gone with no run
\* that held its settings.
THEOREM SettingsAreKept == Spec => []SettingsKept
<1>1. IInv => SettingsKept
  BY DEF IInv, SettingsInv, SettingsKept
<1> QED
  BY <1>1, InvAlways, PTL

\* The group's position is not deleted while old messages survive, but by a run
\* that never saw the log empty.
THEOREM NoOldMessageIsReplayed == Spec => []NoOldReplay
<1>1. IInv => NoOldReplay
  BY DEF IInv, ReplayInv, NoOldReplay
<1> QED
  BY <1>1, InvAlways, PTL

\* A run that ends with exit status 0 leaves the topic behind, unless an Admin
\* request that timed out was carried out since it began.
THEOREM TopicIsThere == Spec => []TopicStands
<1>1. IInv => TopicStands
  BY DEF IInv, StandsInv, TopicStands
<1> QED
  BY <1>1, InvAlways, PTL

\* A consumer that was running while the topic was recreated brings no position
\* of the old log back once the group has been deleted.
THEOREM PositionsFitTheLog == Spec => []PositionFitsLog
<1>1. IInv => PositionFitsLog
  BY DEF IInv, PositionInv, PositionFitsLog
<1> QED
  BY <1>1, InvAlways, PTL

\* A run without --confirm changes nothing.
THEOREM DryRunsAreHarmless == Spec => DryRunHarmless
<1>1. IInv /\ [Next]_vars =>
          [pc # "idle" /\ pc' # pc /\ ~settings.confirm => UNCHANGED topicVars]_vars
  <2> SUFFICES ASSUME IInv, Next, pc # "idle", pc' # pc, ~settings.confirm
               PROVE  UNCHANGED topicVars
    OBVIOUS
  <2>1. RunInv
    BY DEF IInv
  <2>2. pc \in {"load", "group"}
    BY <2>1 DEF RunInv
  <2>3. ~(Services \/ Consumer)
    BY ServicesFrame, ConsumerFrame DEF runVars
  <2>4. CASE Script
    BY <2>2, <2>4 DEF Script, Load, AdminDelete, Delete, Create, Await, RetainedNow, AwaitEmpty,
                      Emptied, Reread, Group, DeletesGroup, Fail, topicVars
  <2>5. CASE StartRun \/ Kill
    BY <2>5 DEF StartRun, Kill
  <2> QED
    BY <2>3, <2>4, <2>5 DEF Next
<1> QED
  BY <1>1, InvAlways, PTL DEF Spec, DryRunHarmless
=============================================================================
