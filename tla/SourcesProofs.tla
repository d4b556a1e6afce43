---------------------------- MODULE SourcesProofs ----------------------------
(* What the four programs that write partitions promise, proved for any     *)
(* seeds, categories, tables, provinces and bounds: what is announced is    *)
(* whole and valid, and what is complete is left alone.  The four modules   *)
(* share the names of their variables and nothing else: a theorem is about  *)
(* one of them, and the last ones are about the four side by side.          *)
EXTENDS Sources, TLAPS

-----------------------------------------------------------------------------
(* The simulated orders.                                                    *)

\* What is counted.
GeneratedCounts == used \in [{"overwrite", "export", "crash", "loss"} -> Nat]

\* What a run holds in its variables.
GeneratedRun ==
    /\ reference \in Reference
    /\ run \in [phase : {"idle", "data", "manifest", "mark"}, overwrite : BOOLEAN,
                inputs : Generated!Inputs \cup {Absent}, history : SUBSET Generated!Inputs]
    /\ run.phase = "idle" => ~run.overwrite
    /\ run.phase # "idle" => run.inputs \in Generated!Inputs
    /\ manifest \in Generated!Manifest \cup {NoManifest}

\* A run that does not overwrite found nothing announced, and announces last.
Unannounced ==
    /\ run.overwrite => used.overwrite # 0
    /\ run.phase # "idle" /\ ~run.overwrite => ~success

\* The log is written before the manifest that names it.
WrittenInOrder ==
    /\ run.phase \in {"manifest", "mark"} => events = run.inputs
    /\ run.phase = "mark" => manifest.inputs = run.inputs

\* The history goes through the run that replaces the manifest.
HistoryGoesOn ==
    used.loss = 0 =>
        /\ run.phase \in {"data", "manifest"} => declared \subseteq run.history
        /\ manifest = NoManifest => declared = {}

GeneratedInvariant ==
    /\ GeneratedCounts /\ GeneratedRun /\ Unannounced /\ WrittenInOrder /\ HistoryGoesOn
    /\ Generated!AnnouncedIsWhole /\ Generated!SwapsLeaveATrace

LEMMA GeneratedStart ==
    ASSUME Generated!Init
    PROVE  GeneratedInvariant
  BY DEF Generated!Init, GeneratedInvariant, GeneratedCounts, GeneratedRun, Unannounced,
         WrittenInOrder, HistoryGoesOn, Generated!Idle, Generated!AnnouncedIsWhole,
         Generated!SwapsLeaveATrace

LEMMA SpendCounts ==
    ASSUME GeneratedCounts, NEW what \in {"overwrite", "export", "crash", "loss"}, NEW bound,
           Generated!Spend(what, bound)
    PROVE  /\ GeneratedCounts'
           /\ used'[what] # 0
           /\ \A other \in {"overwrite", "export", "crash", "loss"} :
                other # what => used'[other] = used[other]
  BY DEF GeneratedCounts, Generated!Spend

LEMMA GeneratedStep ==
    ASSUME NoManifestIsNone, GeneratedInvariant, [Generated!Next]_(Generated!vars)
    PROVE  GeneratedInvariant'
  <1> USE DEF GeneratedInvariant, NoManifestIsNone
  <1>1. ASSUME NEW r \in Reference, Generated!Export(r)
        PROVE  GeneratedInvariant'
    <2>1. GeneratedCounts' /\ used'.overwrite = used.overwrite /\ used'.loss = used.loss
      BY <1>1, SpendCounts DEF Generated!Export
    <2> QED
      BY <1>1, <2>1
         DEF Generated!Export, Generated!partition, GeneratedRun, Unannounced, WrittenInOrder,
             HistoryGoesOn, Generated!AnnouncedIsWhole, Generated!Valid,
             Generated!SwapsLeaveATrace
  <1>2. ASSUME NEW overwrite \in BOOLEAN, NEW seed \in Seed, Generated!Start(overwrite, seed)
        PROVE  GeneratedInvariant'
    <2>1. /\ GeneratedCounts' /\ used'.loss = used.loss
          /\ overwrite => used'.overwrite # 0
          /\ ~overwrite => used' = used
      <3>1. CASE overwrite
        BY <1>2, <3>1, SpendCounts DEF Generated!Start
      <3>2. CASE ~overwrite
        BY <1>2, <3>2 DEF Generated!Start, GeneratedCounts
      <3> QED
        BY <3>1, <3>2
    <2>2. used.overwrite # 0 => used'.overwrite # 0
      BY <2>1
    <2>3. Generated!History(manifest) \in SUBSET Generated!Inputs
      BY DEF GeneratedRun, Generated!History, Generated!Manifest
    <2>4. used.loss = 0 => declared \subseteq Generated!History(manifest)
      BY DEF HistoryGoesOn, Generated!History, Generated!SwapsLeaveATrace
    <2>5. reference' = reference /\ UNCHANGED << events, manifest, success, declared >>
      BY <1>2 DEF Generated!Start, Generated!partition
    <2>6. run' = [phase |-> "data", overwrite |-> overwrite,
                  inputs |-> [seed |-> seed, reference |-> reference],
                  history |-> Generated!History(manifest)]
      BY <1>2 DEF Generated!Start
    <2>7. ~overwrite => ~success
      BY <1>2 DEF Generated!Start, Generated!Writable
    <2> QED
      BY <2>1, <2>2, <2>3, <2>4, <2>5, <2>6, <2>7
         DEF GeneratedRun, Unannounced, WrittenInOrder, HistoryGoesOn, Generated!Inputs,
             Generated!AnnouncedIsWhole, Generated!Valid, Generated!SwapsLeaveATrace
  <1>3. ASSUME Generated!Refuse
        PROVE  GeneratedInvariant'
    BY <1>3
       DEF Generated!Refuse, Generated!partition, Generated!Idle, GeneratedCounts, GeneratedRun,
           Unannounced, WrittenInOrder, HistoryGoesOn, Generated!AnnouncedIsWhole,
           Generated!Valid, Generated!SwapsLeaveATrace
  <1>4. ASSUME Generated!WriteData
        PROVE  GeneratedInvariant'
    BY <1>4
       DEF Generated!WriteData, Generated!partition, GeneratedCounts, GeneratedRun, Unannounced,
           WrittenInOrder, HistoryGoesOn, Generated!AnnouncedIsWhole, Generated!Valid,
           Generated!SwapsLeaveATrace, Generated!Manifest, Generated!Inputs
  <1>5. ASSUME Generated!WriteManifest
        PROVE  GeneratedInvariant'
    BY <1>5
       DEF Generated!WriteManifest, Generated!partition, GeneratedCounts, GeneratedRun, Unannounced,
           WrittenInOrder, HistoryGoesOn, Generated!AnnouncedIsWhole, Generated!Valid,
           Generated!SwapsLeaveATrace, Generated!Manifest, Generated!Inputs
  <1>6. ASSUME Generated!Mark
        PROVE  GeneratedInvariant'
    BY <1>6
       DEF Generated!Mark, Generated!Idle, Generated!partition, GeneratedCounts, GeneratedRun, Unannounced,
           WrittenInOrder, HistoryGoesOn, Generated!AnnouncedIsWhole, Generated!Valid,
           Generated!SwapsLeaveATrace, Generated!Manifest, Generated!Inputs
  <1>7. ASSUME Generated!Crash
        PROVE  GeneratedInvariant'
    <2>1. GeneratedCounts' /\ used'.overwrite = used.overwrite /\ used'.loss = used.loss
      BY <1>7, SpendCounts DEF Generated!Crash
    <2> QED
      BY <1>7, <2>1
         DEF Generated!Crash, Generated!partition, Generated!Idle, GeneratedRun, Unannounced,
             WrittenInOrder, HistoryGoesOn, Generated!AnnouncedIsWhole, Generated!Valid,
             Generated!SwapsLeaveATrace
  <1>8. ASSUME Generated!LoseManifest
        PROVE  GeneratedInvariant'
    <2>1. GeneratedCounts' /\ used'.overwrite = used.overwrite /\ used'.loss # 0
      BY <1>8, SpendCounts DEF Generated!LoseManifest
    <2> QED
      BY <1>8, <2>1
         DEF Generated!LoseManifest, GeneratedRun, Unannounced, WrittenInOrder, HistoryGoesOn,
             Generated!AnnouncedIsWhole, Generated!Valid, Generated!SwapsLeaveATrace
  <1>9. ASSUME UNCHANGED Generated!vars
        PROVE  GeneratedInvariant'
    BY <1>9
       DEF Generated!vars, Generated!partition, GeneratedCounts, GeneratedRun, Unannounced,
           WrittenInOrder, HistoryGoesOn, Generated!AnnouncedIsWhole, Generated!Valid,
           Generated!SwapsLeaveATrace
  <1> QED
    BY <1>1, <1>2, <1>3, <1>4, <1>5, <1>6, <1>7, <1>8, <1>9 DEF Generated!Next

\* The generator's partition, as its inductive invariant has it: a run takes the
\* announcement for granted only where it found none, and writes the log, the
\* manifest and _SUCCESS in this order (extract.py, partition.py).
THEOREM GeneratedInvariantHolds ==
    ASSUME NoManifestIsNone
    PROVE  Generated!Spec => []GeneratedInvariant
  <1>1. Generated!Init => GeneratedInvariant
    BY GeneratedStart
  <1>2. GeneratedInvariant /\ [Generated!Next]_(Generated!vars) => GeneratedInvariant'
    BY GeneratedStep
  <1> QED
    BY <1>1, <1>2, PTL DEF Generated!Spec

\* extract.py: a process killed midway never leaves a partition that announces
\* itself complete without being so, until somebody says --overwrite; and no
\* inputs it was declared with leave its history while its manifest is not lost.
THEOREM GeneratedIsWhole ==
    ASSUME NoManifestIsNone
    PROVE  Generated!Spec => [](Generated!AnnouncedIsWhole /\ Generated!SwapsLeaveATrace)
  <1>1. GeneratedInvariant => Generated!AnnouncedIsWhole /\ Generated!SwapsLeaveATrace
    BY DEF GeneratedInvariant
  <1> QED
    BY <1>1, GeneratedInvariantHolds, PTL

\* A run that does not overwrite found nothing announced, or has ended.
LEMMA GeneratedStaysAnnounced ==
    ASSUME GeneratedInvariant, Generated!Next
    PROVE  Generated!LeavesAnnounced
  <1> SUFFICES ASSUME success, ~run.overwrite
               PROVE  UNCHANGED << events, success >>
    BY DEF Generated!LeavesAnnounced
  <1>1. run.phase = "idle"
    BY DEF GeneratedInvariant, Unannounced
  <1> QED
    BY <1>1
       DEF Generated!Next, Generated!Export, Generated!Start, Generated!Refuse,
           Generated!WriteData, Generated!WriteManifest, Generated!Mark, Generated!Crash,
           Generated!LoseManifest, Generated!partition

\* assert_writable of the generator: what was announced is written over with
\* --overwrite only, its manifest lost or not.
THEOREM GeneratedIsImmutable ==
    ASSUME NoManifestIsNone
    PROVE  Generated!Spec => Generated!Immutable
  <1>1. GeneratedInvariant /\ [Generated!Next]_(Generated!vars)
          => [Generated!LeavesAnnounced]_(Generated!vars)
    BY GeneratedStaysAnnounced
  <1> QED
    BY <1>1, GeneratedInvariantHolds, PTL DEF Generated!Spec, Generated!Immutable

-----------------------------------------------------------------------------
(* The population figures.                                                  *)

PopulationCounts == used \in [{"overwrite", "fail", "crash", "damage"} -> Nat]

PopulationPhases == {"idle", "preliminary", "unmark", "tables", "mark"}

PopulationFiles(files) ==
    /\ files = [t \in DOMAIN files |-> files[t]]
    /\ DOMAIN files \in SUBSET Table

\* What the partition holds and what a run holds in its variables.
PopulationShape ==
    /\ disk \in [Table -> Version \cup {Absent, Damaged}]
    /\ run.phase \in PopulationPhases
    /\ run = [phase |-> run.phase, overwrite |-> run.overwrite, tables |-> run.tables,
              todo |-> run.todo, files |-> run.files, failures |-> run.failures,
              previous |-> run.previous]
    /\ run.tables \in SUBSET Table
    /\ run.todo \in SUBSET run.tables
    /\ run.failures \in SUBSET run.tables

\* What a run has visited lies on disk as it will declare it.
VisitedTables ==
    /\ run.phase \in {"preliminary", "unmark"} =>
         /\ run.todo = run.tables
         /\ run.failures = {} /\ run.files = Population!NoFiles
    /\ run.phase = "tables" =>
         /\ PopulationFiles(run.files)
         /\ run.tables \subseteq run.todo \cup run.failures \cup DOMAIN run.files
         /\ \A t \in DOMAIN run.files : run.files[t] \in Version /\ disk[t] = run.files[t]

\* A run declares the partition incomplete before it touches a file of it.
OpenedFirst ==
    /\ run.phase \in {"unmark", "tables", "copying"} => ~manifest.complete
    /\ run.phase = "preliminary" /\ ~run.overwrite => manifest = NoManifest \/ ~manifest.complete

\* A complete manifest describes the partition, as long as nobody damages a file.
PopulationIsDeclared ==
    manifest # NoManifest /\ manifest.complete =>
        /\ manifest.failures = {}
        /\ Population!Coverage
        /\ used.damage = 0 => Population!DeclaredFilesMatch /\ Population!NoOrphans

NothingIsDamaged == used.damage = 0 => \A t \in Table : disk[t] \in Version \cup {Absent}

PopulationInvariant ==
    /\ PopulationCounts /\ PopulationShape /\ VisitedTables /\ OpenedFirst
    /\ PopulationIsDeclared /\ NothingIsDamaged

LEMMA PopulationStart ==
    ASSUME Population!Init
    PROVE  PopulationInvariant
  BY DEF Population!Init, PopulationInvariant, PopulationCounts, PopulationShape,
         PopulationPhases, VisitedTables, OpenedFirst, PopulationIsDeclared, NothingIsDamaged,
         Population!Idle

LEMMA PopulationSpends ==
    ASSUME PopulationCounts, NEW what \in {"overwrite", "fail", "crash", "damage"}, NEW bound,
           Population!Spend(what, bound)
    PROVE  /\ PopulationCounts'
           /\ used'[what] = used[what] + 1
           /\ \A other \in {"overwrite", "fail", "crash", "damage"} :
                other # what => used'[other] = used[other]
  BY DEF PopulationCounts, Population!Spend

\* A table visited with success is one more file of the run.
LEMMA OneMoreTable ==
    ASSUME PopulationShape, VisitedTables, OpenedFirst, PopulationIsDeclared, NothingIsDamaged,
           NEW t, Population!Visiting(t), NEW content \in Version,
           disk' = [disk EXCEPT ![t] = content],
           run' = [run EXCEPT !.todo = @ \ {t}, !.files = Population!Declared(t, content)],
           UNCHANGED << manifest, success, used >>
    PROVE  /\ PopulationShape' /\ VisitedTables' /\ OpenedFirst' /\ PopulationIsDeclared'
           /\ NothingIsDamaged'
  <1>1. /\ run.phase = "tables" /\ t \in run.todo /\ t \in Table
        /\ PopulationFiles(run.files) /\ ~manifest.complete
    BY DEF Population!Visiting, VisitedTables, PopulationShape, OpenedFirst
  <1> DEFINE files == Population!Declared(t, content)
  <1>2. /\ PopulationFiles(files)
        /\ DOMAIN files = DOMAIN run.files \cup {t}
        /\ files[t] = content
        /\ \A q \in DOMAIN run.files : q # t => files[q] = run.files[q]
    BY <1>1 DEF Population!Declared, PopulationFiles
  <1>3. /\ run'.phase = run.phase /\ run'.overwrite = run.overwrite
        /\ run'.tables = run.tables /\ run'.todo = run.todo \ {t}
        /\ run'.failures = run.failures /\ run'.files = files
    BY DEF PopulationShape
  <1> HIDE DEF files
  <1>4. /\ disk' \in [Table -> Version \cup {Absent, Damaged}]
        /\ disk'[t] = content /\ \A q \in Table : q # t => disk'[q] = disk[q]
    BY <1>1 DEF PopulationShape
  <1>5. PopulationShape'
    BY <1>1, <1>3, <1>4 DEF PopulationShape, files
  <1>6. VisitedTables'
    BY <1>1, <1>2, <1>3, <1>4 DEF VisitedTables, PopulationFiles
  <1> QED
    BY <1>1, <1>3, <1>4, <1>5, <1>6 DEF OpenedFirst, PopulationIsDeclared, NothingIsDamaged

\* The last manifest of a run without failures describes what lies on disk.
LEMMA FinalDeclares ==
    ASSUME PopulationInvariant, Population!Final
    PROVE  /\ \A t \in DOMAIN Population!Inventory : disk[t] = Population!Inventory[t]
           /\ \A t \in Table : disk[t] \in Version => t \in DOMAIN Population!Inventory
           /\ run.failures = {} => run.tables \subseteq DOMAIN Population!Inventory
  BY DEF PopulationInvariant, PopulationShape, VisitedTables, PopulationFiles, Population!Final,
         Population!Inventory

LEMMA PopulationStep ==
    ASSUME PopulationInvariant, [Population!Next]_(Population!vars)
    PROVE  PopulationInvariant'
  <1> USE DEF PopulationInvariant
  <1>1. ASSUME NEW overwrite \in BOOLEAN, NEW tables \in (SUBSET Table) \ {{}},
               Population!Start(overwrite, tables)
        PROVE  PopulationInvariant'
    <2>1. PopulationCounts' /\ used'.damage = used.damage
      <3>1. CASE overwrite
        BY <1>1, <3>1, PopulationSpends DEF Population!Start
      <3>2. CASE ~overwrite
        BY <1>1, <3>2 DEF Population!Start, PopulationCounts
      <3> QED
        BY <3>1, <3>2
    <2>2. /\ run'.phase = "preliminary" /\ run'.overwrite = overwrite
          /\ run'.tables = tables /\ run'.todo = tables
          /\ run'.failures = {} /\ run'.files = Population!NoFiles
          /\ PopulationShape'
      BY <1>1 DEF Population!Start, Population!Idle, Population!partition, PopulationShape,
                  PopulationPhases
    <2> QED
      BY <1>1, <2>1, <2>2
         DEF Population!Start, Population!partition, Population!Writable, VisitedTables,
             OpenedFirst, PopulationIsDeclared, Population!Coverage,
             Population!DeclaredFilesMatch, Population!NoOrphans, NothingIsDamaged
  <1>2. ASSUME Population!Preliminary
        PROVE  PopulationInvariant'
    <2>1. run' = [run EXCEPT !.phase = "unmark"] /\ ~manifest'.complete
      BY <1>2 DEF Population!Preliminary, Population!ManifestOf
    <2>2. PopulationShape' /\ VisitedTables' /\ OpenedFirst'
      BY <1>2, <2>1 DEF Population!Preliminary, PopulationShape, PopulationPhases, VisitedTables,
                        OpenedFirst
    <2> QED
      BY <1>2, <2>1, <2>2 DEF Population!Preliminary, PopulationCounts, PopulationIsDeclared,
                              NothingIsDamaged
  <1>3. ASSUME Population!Unmark
        PROVE  PopulationInvariant'
    <2>1. PopulationShape' /\ VisitedTables' /\ OpenedFirst'
      BY <1>3 DEF Population!Unmark, PopulationShape, PopulationPhases, VisitedTables,
                  OpenedFirst, PopulationFiles, Population!NoFiles
    <2> QED
      BY <1>3, <2>1 DEF Population!Unmark, PopulationCounts, PopulationIsDeclared,
                        Population!Coverage, Population!DeclaredFilesMatch,
                        Population!NoOrphans, NothingIsDamaged
  <1>4. ASSUME NEW t \in Table, Population!Reuse(t)
        PROVE  PopulationInvariant'
    <2>1. disk[t] \in Version /\ disk = [disk EXCEPT ![t] = disk[t]]
      BY <1>4 DEF Population!Reuse, Population!Reusable, PopulationShape
    <2>2. disk' = [disk EXCEPT ![t] = disk[t]]
      BY <1>4, <2>1 DEF Population!Reuse, Population!partition
    <2> QED
      BY <1>4, <2>1, <2>2, OneMoreTable DEF Population!Reuse, Population!partition,
                                            PopulationCounts
  <1>5. ASSUME NEW t \in Table, NEW v \in Version, Population!Download(t, v)
        PROVE  PopulationInvariant'
    BY <1>5, OneMoreTable DEF Population!Download, PopulationCounts
  <1>6. ASSUME NEW t \in Table, Population!TableFails(t)
        PROVE  PopulationInvariant'
    <2>1. PopulationCounts' /\ used'.damage = used.damage
      BY <1>6, PopulationSpends DEF Population!TableFails
    <2>2. PopulationShape' /\ VisitedTables' /\ OpenedFirst'
      BY <1>6 DEF Population!TableFails, Population!Visiting, Population!partition,
                  PopulationShape, PopulationPhases, VisitedTables, OpenedFirst, PopulationFiles
    <2> QED
      BY <1>6, <2>1, <2>2 DEF Population!TableFails, Population!partition,
                              PopulationIsDeclared, Population!Coverage,
                              Population!DeclaredFilesMatch, Population!NoOrphans,
                              NothingIsDamaged
  <1>7. ASSUME Population!Final
        PROVE  PopulationInvariant'
    <2>1. /\ manifest' = Population!ManifestOf(Population!Inventory, run.failures = {})
          /\ run' = [run EXCEPT !.phase = "mark"]
          /\ UNCHANGED << disk, success, used >>
      BY <1>7 DEF Population!Final
    <2>2. /\ manifest'.files = Population!Inventory
          /\ manifest'.tables = run.tables /\ manifest'.failures = run.failures
          /\ manifest'.complete => run.failures = {}
      BY <2>1 DEF Population!ManifestOf
    <2>3. PopulationShape' /\ VisitedTables' /\ OpenedFirst'
      BY <2>1 DEF PopulationShape, PopulationPhases, VisitedTables, OpenedFirst
    <2>4. PopulationIsDeclared'
      <3> SUFFICES ASSUME manifest'.complete
                   PROVE  /\ manifest'.failures = {}
                          /\ Population!Coverage'
                          /\ used.damage = 0 => /\ Population!DeclaredFilesMatch'
                                                /\ Population!NoOrphans'
        BY <2>1 DEF PopulationIsDeclared
      <3>1. used.damage = 0 => Population!DeclaredFilesMatch' /\ Population!NoOrphans'
        BY <1>7, <2>1, <2>2, FinalDeclares
           DEF Population!DeclaredFilesMatch, Population!NoOrphans, NothingIsDamaged
      <3> QED
        BY <1>7, <2>2, <3>1, FinalDeclares DEF Population!Coverage
    <2> QED
      BY <2>1, <2>3, <2>4 DEF PopulationCounts, NothingIsDamaged
  <1>8. ASSUME Population!Mark
        PROVE  PopulationInvariant'
    <2>1. PopulationShape' /\ VisitedTables' /\ OpenedFirst'
      BY <1>8 DEF Population!Mark, Population!Idle, PopulationShape, PopulationPhases,
                  VisitedTables, OpenedFirst
    <2> QED
      BY <1>8, <2>1 DEF Population!Mark, PopulationCounts, PopulationIsDeclared,
                        Population!Coverage, Population!DeclaredFilesMatch,
                        Population!NoOrphans, NothingIsDamaged
  <1>9. ASSUME Population!Crash
        PROVE  PopulationInvariant'
    <2>1. PopulationCounts' /\ used'.damage = used.damage
      BY <1>9, PopulationSpends DEF Population!Crash
    <2>2. PopulationShape' /\ VisitedTables' /\ OpenedFirst'
      BY <1>9 DEF Population!Crash, Population!Idle, Population!partition, PopulationShape,
                  PopulationPhases, VisitedTables, OpenedFirst
    <2> QED
      BY <1>9, <2>1, <2>2 DEF Population!Crash, Population!partition, PopulationIsDeclared,
                              Population!Coverage, Population!DeclaredFilesMatch,
                              Population!NoOrphans, NothingIsDamaged
  <1>10. ASSUME NEW t \in Table, Population!Damage(t)
         PROVE  PopulationInvariant'
    <2>1. PopulationCounts' /\ used'.damage # 0
      BY <1>10, PopulationSpends DEF Population!Damage, PopulationCounts
    <2>2. PopulationShape' /\ VisitedTables' /\ OpenedFirst'
      BY <1>10 DEF Population!Damage, PopulationShape, PopulationPhases, VisitedTables,
                   OpenedFirst
    <2> QED
      BY <1>10, <2>1, <2>2 DEF Population!Damage, PopulationIsDeclared, Population!Coverage,
                               NothingIsDamaged
  <1>11. ASSUME UNCHANGED Population!vars
         PROVE  PopulationInvariant'
    <2>1. UNCHANGED << disk, manifest, success, run, used >>
      BY <1>11 DEF Population!vars, Population!partition
    <2>2. PopulationShape' /\ VisitedTables' /\ OpenedFirst'
      BY <2>1 DEF PopulationShape, VisitedTables, OpenedFirst
    <2> QED
      BY <2>1, <2>2 DEF PopulationCounts, PopulationIsDeclared, Population!Coverage,
                        Population!DeclaredFilesMatch, Population!NoOrphans, NothingIsDamaged
  <1> QED
    BY <1>1, <1>2, <1>3, <1>4, <1>5, <1>6, <1>7, <1>8, <1>9, <1>10, <1>11 DEF Population!Next

\* The population's partition, as its inductive invariant has it: it is declared
\* incomplete before a file of it is touched, and complete after the last one
\* (extract.py, partition.py of ine-population-source).
THEOREM PopulationInvariantHolds == Population!Spec => []PopulationInvariant
  <1>1. Population!Init => PopulationInvariant
    BY PopulationStart
  <1>2. PopulationInvariant /\ [Population!Next]_(Population!vars) => PopulationInvariant'
    BY PopulationStep
  <1> QED
    BY <1>1, <1>2, PTL DEF Population!Spec

\* CONTRACT.md 4, 9 of the population source: a partition that its manifest and
\* _SUCCESS call complete validates, whatever runs went before, --overwrite,
\* failures and deaths included, as long as nobody damaged a file.
THEOREM PopulationIsValid == Population!Spec => []Population!CompleteIsValid
  <1>1. PopulationInvariant => Population!CompleteIsValid
    BY DEF PopulationInvariant, PopulationIsDeclared, Population!CompleteIsValid,
           Population!Valid
  <1> QED
    BY <1>1, PopulationInvariantHolds, PTL

\* Only the last manifest ends the visits, and a table visited without failure is on disk.
LEMMA PopulationRepairs ==
    ASSUME PopulationInvariant, Population!Next
    PROVE  Population!EndsRepaired
  <1> SUFFICES ASSUME run.phase = "tables", run'.phase = "mark", run.failures = {},
                      NEW t \in run.tables
               PROVE  /\ disk[t] \in Version
                      /\ t \in DOMAIN manifest'.files
                      /\ manifest'.files[t] = disk[t]
    BY DEF Population!EndsRepaired
  <1>1. Population!Final
    <2>1. ASSUME NEW q \in Table, \/ Population!Reuse(q) \/ Population!TableFails(q)
                                  \/ \E v \in Version : Population!Download(q, v)
          PROVE  run'.phase = run.phase
      BY <2>1
         DEF Population!Reuse, Population!Download, Population!TableFails,
             PopulationInvariant, PopulationShape
    <2>2. \/ run.phase \in {"idle", "preliminary", "unmark", "mark"}
          \/ run'.phase = "idle"
          \/ Population!Final
          \/ \E q \in Table : \/ Population!Reuse(q) \/ Population!TableFails(q)
                              \/ \E v \in Version : Population!Download(q, v)
      BY DEF Population!Next, Population!Start, Population!Preliminary, Population!Unmark,
             Population!Mark, Population!Crash, Population!Damage, Population!Idle
    <2> QED
      BY <2>1, <2>2
  <1>2. manifest'.files = Population!Inventory /\ run.todo = {}
    BY <1>1 DEF Population!Final, Population!ManifestOf
  <1>3. disk[t] \in Version
    BY <1>2 DEF PopulationInvariant, VisitedTables
  <1> QED
    BY <1>1, <1>2, <1>3, FinalDeclares DEF PopulationInvariant, PopulationShape

\* A run that does not overwrite found no complete partition, or has ended.
LEMMA PopulationStaysComplete ==
    ASSUME PopulationInvariant, Population!Next
    PROVE  Population!LeavesComplete
  <1> SUFFICES ASSUME manifest # NoManifest, manifest.complete, ~run.overwrite,
                      used'.damage = used.damage
               PROVE  UNCHANGED << disk, manifest >>
    BY DEF Population!LeavesComplete
  <1>1. run.phase \in {"idle", "mark"}
    BY DEF PopulationInvariant, PopulationShape, PopulationPhases, OpenedFirst
  <1>2. \A t \in Table : ~Population!Damage(t)
    BY PopulationSpends DEF Population!Damage, PopulationInvariant, PopulationCounts
  <1> QED
    BY <1>1, <1>2
       DEF Population!Next, Population!Start, Population!Preliminary, Population!Unmark,
           Population!Reuse, Population!Download, Population!TableFails, Population!Visiting,
           Population!Final, Population!Mark, Population!Crash, Population!partition

\* README, Resume, and CONTRACT.md 5: a run without failures ends with every table
\* it was asked for on disk and declared, one that was damaged downloaded anew;
\* and while the partition is complete only --overwrite changes it.
THEOREM PopulationSteps ==
    Population!Spec => Population!DamageIsRepaired /\ Population!Immutable
  <1>3. PopulationInvariant /\ [Population!Next]_(Population!vars)
          => [Population!EndsRepaired]_(Population!vars) /\ [Population!LeavesComplete]_(Population!vars)
    BY PopulationRepairs, PopulationStaysComplete
  <1> QED
    BY <1>3, PopulationInvariantHolds, PTL
       DEF Population!Spec, Population!DamageIsRepaired, Population!Immutable

-----------------------------------------------------------------------------
(* The street guide.                                                        *)

StreetsCounts == used \in [{"overwrite", "refresh", "crash"} -> Nat]

StreetsPhases == {"idle", "preliminary", "unmark", "copying", "mark"}

\* What the partition and --in hold, and what a run holds in its variables.
StreetsShape ==
    /\ inbox \in [Streets!Combination -> Streets!File \cup {Absent}]
    /\ disk \in [Streets!Path -> Content \cup {Absent}]
    /\ run.phase \in StreetsPhases
    /\ run = [phase |-> run.phase, overwrite |-> run.overwrite, provinces |-> run.provinces,
              todo |-> run.todo, files |-> run.files, failures |-> run.failures]
    /\ run.provinces \in SUBSET Province
    /\ run.phase # "idle" => run.provinces # {}
    /\ run.todo \in SUBSET (run.provinces \X Dataset)
    /\ run.failures \in SUBSET (run.provinces \X Dataset)

\* What --in holds for c is declared.
DeclaredFor(c, files) ==
    /\ inbox[c] # Absent
    /\ Streets!Target(c) \in DOMAIN files
    /\ files[Streets!Target(c)] = inbox[c].content

StreetsFiles(files) ==
    /\ files = [p \in DOMAIN files |-> files[p]]
    /\ DOMAIN files \in SUBSET Streets!Path
    /\ \A p \in DOMAIN files : disk[p] = files[p]

\* What a run has visited is on disk, and what --in holds, as it will declare it.
VisitedStreets ==
    /\ run.phase \in {"preliminary", "unmark"} =>
         /\ run.todo = run.provinces \X Dataset
         /\ run.failures = {} /\ run.files = Streets!NoFiles
    /\ run.phase = "copying" =>
         /\ StreetsFiles(run.files)
         /\ \A c \in run.provinces \X Dataset :
              c \in run.todo \/ c \in run.failures \/ DeclaredFor(c, run.files)

StreetsAreDeclared ==
    manifest # NoManifest /\ manifest.complete =>
        /\ manifest.failures = {}
        /\ Streets!Coverage /\ Streets!DeclaredFilesMatch
        /\ OneOfEach => Streets!NoOrphans

StreetsInvariant ==
    /\ StreetsCounts /\ StreetsShape /\ VisitedStreets /\ OpenedFirst /\ StreetsAreDeclared

LEMMA StreetsStart ==
    ASSUME Streets!Init
    PROVE  StreetsInvariant
  BY DEF Streets!Init, StreetsInvariant, StreetsCounts, StreetsShape, StreetsPhases,
         VisitedStreets, OpenedFirst, StreetsAreDeclared, Streets!Idle

LEMMA StreetsSpend ==
    ASSUME StreetsCounts, NEW what \in {"overwrite", "refresh", "crash"}, NEW bound,
           Streets!Spend(what, bound)
    PROVE  StreetsCounts'
  BY DEF StreetsCounts, Streets!Spend

\* Files of different combinations lie in different places.
LEMMA TargetFacts ==
    ASSUME StreetsShape, NEW c \in Streets!Combination, inbox[c] # Absent
    PROVE  /\ Streets!Target(c) \in Streets!Path
           /\ inbox[c].content \in Content
           /\ \A d : Streets!Target(d) = Streets!Target(c) => d = c
  BY DEF StreetsShape, Streets!Target, Streets!File, Streets!Path

\* A file visited with success is one more file of the run.
LEMMA OneMoreStreet ==
    ASSUME StreetsShape, VisitedStreets, OpenedFirst, StreetsAreDeclared,
           NEW c, Streets!Visiting(c), inbox[c] # Absent,
           disk' = [disk EXCEPT ![Streets!Target(c)] = inbox[c].content],
           run' = [run EXCEPT !.todo = @ \ {c},
                              !.files = Streets!Declared(Streets!Target(c), inbox[c].content)],
           UNCHANGED << inbox, manifest, success, used >>
    PROVE  StreetsShape' /\ VisitedStreets' /\ OpenedFirst' /\ StreetsAreDeclared'
  <1>1. /\ run.phase = "copying" /\ c \in run.todo /\ c \in Streets!Combination
        /\ c \in run.provinces \X Dataset
        /\ StreetsFiles(run.files) /\ ~manifest.complete
    BY DEF Streets!Visiting, VisitedStreets, StreetsShape, OpenedFirst, Streets!Combination
  <1> DEFINE at      == Streets!Target(c)
             content == inbox[c].content
             files   == Streets!Declared(at, content)
  <1>2. /\ at \in Streets!Path /\ content \in Content
        /\ \A d : Streets!Target(d) = at => d = c
    BY <1>1, TargetFacts
  <1>3. /\ files = [p \in DOMAIN files |-> files[p]]
        /\ DOMAIN files = DOMAIN run.files \cup {at}
        /\ files[at] = content
        /\ \A p \in DOMAIN run.files : p # at => files[p] = run.files[p]
    BY <1>1 DEF Streets!Declared, StreetsFiles
  <1>4. /\ run'.phase = run.phase /\ run'.overwrite = run.overwrite
        /\ run'.provinces = run.provinces /\ run'.todo = run.todo \ {c}
        /\ run'.failures = run.failures /\ run'.files = files
        /\ run' = [phase |-> run'.phase, overwrite |-> run'.overwrite,
                   provinces |-> run'.provinces, todo |-> run'.todo, files |-> run'.files,
                   failures |-> run'.failures]
    BY DEF StreetsShape
  <1>5. /\ disk' \in [Streets!Path -> Content \cup {Absent}]
        /\ disk'[at] = content /\ \A p \in Streets!Path : p # at => disk'[p] = disk[p]
    BY <1>2 DEF StreetsShape
  <1>6. inbox' = inbox /\ manifest' = manifest
    OBVIOUS
  <1> HIDE DEF files, content
  <1>7. StreetsShape'
    BY <1>1, <1>4, <1>5, <1>6 DEF StreetsShape
  <1>8. \A p \in DOMAIN files : p \in Streets!Path /\ disk'[p] = files[p]
    BY <1>1, <1>2, <1>3, <1>5 DEF StreetsFiles
  <1>9. ASSUME NEW d \in run.provinces \X Dataset, d \notin run.todo \ {c}, d \notin run.failures
        PROVE  /\ inbox[d] # Absent
               /\ Streets!Target(d) \in DOMAIN files
               /\ files[Streets!Target(d)] = inbox[d].content
    <2>1. CASE d = c
      BY <1>3, <2>1 DEF content
    <2>2. CASE d # c
      BY <1>1, <1>2, <1>3, <1>9, <2>2 DEF VisitedStreets, DeclaredFor
    <2> QED
      BY <2>1, <2>2
  <1>10. VisitedStreets'
    <2> HIDE DEF at
    <2>1. StreetsFiles(run.files)'
      BY <1>3, <1>4, <1>8 DEF StreetsFiles, Streets!Path, Streets!Combination
    <2>2. \A d \in run.provinces \X Dataset :
            d \in run.todo \ {c} \/ d \in run.failures \/ DeclaredFor(d, run.files)'
      BY <1>4, <1>6, <1>9 DEF DeclaredFor, Streets!Target
    <2> QED
      BY <1>1, <1>4, <2>1, <2>2 DEF VisitedStreets
  <1> QED
    BY <1>1, <1>4, <1>6, <1>7, <1>10 DEF OpenedFirst, StreetsAreDeclared

\* The last manifest of a run without failures describes what lies on disk.
LEMMA StreetsFinal ==
    ASSUME StreetsInvariant, Streets!Final, run.failures = {}
    PROVE  /\ \A c \in run.provinces \X Dataset : DeclaredFor(c, run.files)
           /\ \A c \in run.provinces \X Dataset :
                \E p \in DOMAIN run.files : p[1] = c
           /\ OneOfEach => \A p \in Streets!Path : disk[p] # Absent => p \in DOMAIN run.files
  <1>1. \A c \in run.provinces \X Dataset : DeclaredFor(c, run.files)
    BY DEF StreetsInvariant, VisitedStreets, Streets!Final
  <1>2. \A c \in run.provinces \X Dataset : \E p \in DOMAIN run.files : p[1] = c
    <2> SUFFICES ASSUME NEW c \in run.provinces \X Dataset
                 PROVE  Streets!Target(c) \in DOMAIN run.files /\ Streets!Target(c)[1] = c
      OBVIOUS
    <2> QED
      BY <1>1 DEF DeclaredFor, Streets!Target
  <1>3. ASSUME OneOfEach, NEW p \in Streets!Path
        PROVE  p \in DOMAIN run.files
    <2>1. PICK c \in Streets!Combination, e \in Edition : p = << c, e >>
      BY DEF Streets!Path
    <2>2. run.provinces = Province
      BY <1>3 DEF OneOfEach, StreetsInvariant, StreetsShape, Streets!Final
    <2>3. DeclaredFor(c, run.files) /\ inbox[c] \in Streets!File
      BY <1>1, <2>1, <2>2 DEF Streets!Combination, DeclaredFor, StreetsInvariant, StreetsShape
    <2>4. inbox[c].edition = e
      BY <1>3, <2>1, <2>3 DEF OneOfEach, Streets!File
    <2> QED
      BY <2>1, <2>3, <2>4 DEF DeclaredFor, Streets!Target
  <1> QED
    BY <1>1, <1>2, <1>3

LEMMA StreetsStep ==
    ASSUME StreetsInvariant, [Streets!Next]_(Streets!vars)
    PROVE  StreetsInvariant'
  <1> USE DEF StreetsInvariant
  <1>1. ASSUME NEW overwrite \in BOOLEAN, NEW provinces \in (SUBSET Province) \ {{}},
               Streets!Start(overwrite, provinces)
        PROVE  StreetsInvariant'
    <2>1. StreetsCounts'
      <3>1. CASE overwrite
        BY <1>1, <3>1, StreetsSpend DEF Streets!Start
      <3>2. CASE ~overwrite
        BY <1>1, <3>2 DEF Streets!Start, StreetsCounts
      <3> QED
        BY <3>1, <3>2
    <2>2. /\ run'.phase = "preliminary" /\ run'.overwrite = overwrite
          /\ run'.provinces = provinces /\ run'.todo = provinces \X Dataset
          /\ run'.failures = {} /\ run'.files = Streets!NoFiles
          /\ StreetsShape'
      BY <1>1 DEF Streets!Start, Streets!Idle, Streets!partition, StreetsShape, StreetsPhases
    <2> QED
      BY <1>1, <2>1, <2>2
         DEF Streets!Start, Streets!partition, Streets!Writable, VisitedStreets, OpenedFirst,
             StreetsAreDeclared, Streets!Coverage, Streets!DeclaredFilesMatch,
             Streets!NoOrphans
  <1>2. ASSUME Streets!Preliminary
        PROVE  StreetsInvariant'
    <2>1. run' = [run EXCEPT !.phase = "unmark"] /\ ~manifest'.complete
      BY <1>2 DEF Streets!Preliminary, Streets!ManifestOf
    <2>2. StreetsShape' /\ VisitedStreets' /\ OpenedFirst'
      BY <1>2, <2>1 DEF Streets!Preliminary, StreetsShape, StreetsPhases, VisitedStreets,
                        OpenedFirst
    <2> QED
      BY <1>2, <2>1, <2>2 DEF Streets!Preliminary, StreetsCounts, StreetsAreDeclared
  <1>3. ASSUME Streets!Unmark
        PROVE  StreetsInvariant'
    <2>1. run' = [run EXCEPT !.phase = "copying"] /\ UNCHANGED << inbox, disk, manifest, used >>
      BY <1>3 DEF Streets!Unmark
    <2>2. run.phase = "unmark"
      BY <1>3 DEF Streets!Unmark
    <2>3. StreetsShape' /\ OpenedFirst'
      BY <2>1, <2>2 DEF StreetsShape, StreetsPhases, OpenedFirst
    <2>4. VisitedStreets'
      <3>1. /\ run'.phase = "copying" /\ run'.files = Streets!NoFiles
            /\ run'.todo = run.provinces \X Dataset /\ run'.provinces = run.provinces
        BY <2>1, <2>2 DEF StreetsShape, VisitedStreets
      <3>2. StreetsFiles(run.files)'
        BY <3>1 DEF StreetsFiles, Streets!NoFiles
      <3> QED
        BY <3>1, <3>2 DEF VisitedStreets
    <2> QED
      BY <2>1, <2>3, <2>4 DEF StreetsCounts, StreetsAreDeclared, Streets!Coverage,
                              Streets!DeclaredFilesMatch, Streets!NoOrphans
  <1>4. ASSUME NEW c \in Streets!Combination, Streets!Reuse(c)
        PROVE  StreetsInvariant'
    <2>1. disk' = [disk EXCEPT ![Streets!Target(c)] = inbox[c].content]
      BY <1>4 DEF Streets!Reuse, Streets!partition, StreetsShape
    <2> QED
      BY <1>4, <2>1, OneMoreStreet DEF Streets!Reuse, Streets!partition, StreetsCounts
  <1>5. ASSUME NEW c \in Streets!Combination, Streets!Copy(c)
        PROVE  StreetsInvariant'
    BY <1>5, OneMoreStreet DEF Streets!Copy, StreetsCounts
  <1>6. ASSUME NEW c \in Streets!Combination, Streets!Refuse(c)
        PROVE  StreetsInvariant'
    <2>1. /\ run' = [run EXCEPT !.todo = @ \ {c}, !.failures = @ \cup {c}]
          /\ run.phase = "copying" /\ c \in run.todo
          /\ UNCHANGED << inbox, disk, manifest, used >>
      BY <1>6 DEF Streets!Refuse, Streets!Visiting, Streets!partition
    <2>2. /\ run'.phase = "copying" /\ run'.provinces = run.provinces
          /\ run'.files = run.files /\ run'.todo = run.todo \ {c}
          /\ run'.failures = run.failures \cup {c}
          /\ StreetsShape' /\ OpenedFirst'
      BY <2>1 DEF StreetsShape, StreetsPhases, OpenedFirst
    <2>3. VisitedStreets'
      <3>1. StreetsFiles(run.files)'
        BY <2>1, <2>2 DEF VisitedStreets, StreetsFiles
      <3>2. \A d : DeclaredFor(d, run.files)' <=> DeclaredFor(d, run.files)
        BY <2>1, <2>2 DEF DeclaredFor, Streets!Target
      <3> QED
        BY <2>1, <2>2, <3>1, <3>2 DEF VisitedStreets
    <2> QED
      BY <2>1, <2>2, <2>3 DEF StreetsCounts, StreetsAreDeclared, Streets!Coverage,
                              Streets!DeclaredFilesMatch, Streets!NoOrphans
  <1>7. ASSUME Streets!Final
        PROVE  StreetsInvariant'
    <2>1. /\ manifest' = Streets!ManifestOf(run.failures = {})
          /\ run' = [run EXCEPT !.phase = "mark"]
          /\ UNCHANGED << inbox, disk, success, used >>
      BY <1>7 DEF Streets!Final
    <2>2. /\ manifest'.files = run.files
          /\ manifest'.provinces = run.provinces /\ manifest'.failures = run.failures
          /\ manifest'.complete => run.failures = {}
      BY <2>1 DEF Streets!ManifestOf
    <2>3. StreetsShape' /\ VisitedStreets' /\ OpenedFirst'
      BY <1>7, <2>1
         DEF Streets!Final, StreetsShape, StreetsPhases, VisitedStreets, OpenedFirst
    <2>4. StreetsAreDeclared'
      <3> SUFFICES ASSUME manifest'.complete
                   PROVE  /\ manifest'.failures = {}
                          /\ Streets!Coverage' /\ Streets!DeclaredFilesMatch'
                          /\ OneOfEach => Streets!NoOrphans'
        BY <2>1 DEF StreetsAreDeclared, OneOfEach
      <3>1. Streets!DeclaredFilesMatch'
        BY <1>7, <2>1, <2>2 DEF Streets!Final, Streets!DeclaredFilesMatch, VisitedStreets,
                                StreetsFiles
      <3>2. Streets!Coverage'
        BY <1>7, <2>2, StreetsFinal DEF Streets!Coverage
      <3>3. OneOfEach => Streets!NoOrphans'
        BY <1>7, <2>1, <2>2, StreetsFinal DEF Streets!NoOrphans, Streets!Path,
                                              Streets!Combination
      <3> QED
        BY <2>2, <3>1, <3>2, <3>3
    <2> QED
      BY <2>1, <2>3, <2>4 DEF StreetsCounts
  <1>8. ASSUME Streets!Mark
        PROVE  StreetsInvariant'
    <2>1. StreetsShape' /\ VisitedStreets' /\ OpenedFirst'
      BY <1>8 DEF Streets!Mark, Streets!Idle, StreetsShape, StreetsPhases, VisitedStreets,
                  OpenedFirst
    <2> QED
      BY <1>8, <2>1 DEF Streets!Mark, StreetsCounts, StreetsAreDeclared, Streets!Coverage,
                        Streets!DeclaredFilesMatch, Streets!NoOrphans
  <1>9. ASSUME Streets!Crash
        PROVE  StreetsInvariant'
    <2>1. StreetsShape' /\ VisitedStreets' /\ OpenedFirst'
      BY <1>9 DEF Streets!Crash, Streets!Idle, Streets!partition, StreetsShape, StreetsPhases,
                  VisitedStreets, OpenedFirst
    <2>2. StreetsCounts'
      BY <1>9, StreetsSpend DEF Streets!Crash
    <2> QED
      BY <1>9, <2>1, <2>2 DEF Streets!Crash, Streets!partition, StreetsAreDeclared,
                              Streets!Coverage, Streets!DeclaredFilesMatch, Streets!NoOrphans
  <1>10. ASSUME NEW c \in Streets!Combination, NEW file \in Streets!File \cup {Absent},
                Streets!Refresh(c, file)
         PROVE  StreetsInvariant'
    <2>1. StreetsShape' /\ VisitedStreets' /\ OpenedFirst'
      BY <1>10 DEF Streets!Refresh, Streets!partition, StreetsShape, StreetsPhases,
                   VisitedStreets, OpenedFirst
    <2>2. StreetsCounts'
      BY <1>10, StreetsSpend DEF Streets!Refresh
    <2> QED
      BY <1>10, <2>1, <2>2 DEF Streets!Refresh, Streets!partition, StreetsAreDeclared,
                               Streets!Coverage, Streets!DeclaredFilesMatch, Streets!NoOrphans
  <1>11. ASSUME UNCHANGED Streets!vars
         PROVE  StreetsInvariant'
    <2>1. UNCHANGED << inbox, disk, manifest, success, run, used >>
      BY <1>11 DEF Streets!vars, Streets!partition
    <2>2. StreetsShape' /\ OpenedFirst'
      BY <2>1 DEF StreetsShape, OpenedFirst
    <2>3. VisitedStreets'
      BY <2>1 DEF VisitedStreets, StreetsFiles, DeclaredFor, Streets!Target
    <2> QED
      BY <2>1, <2>2, <2>3 DEF StreetsCounts, StreetsAreDeclared, Streets!Coverage,
                              Streets!DeclaredFilesMatch, Streets!NoOrphans
  <1> QED
    BY <1>1, <1>2, <1>3, <1>4, <1>5, <1>6, <1>7, <1>8, <1>9, <1>10, <1>11
       DEF Streets!Next, Streets!Step

\* The Callejero's partition, as its inductive invariant has it: what a run has
\* visited lies on disk with the bytes of --in (intake.py, partition.py).
THEOREM StreetsInvariantHolds == Streets!Spec => []StreetsInvariant
  <1>1. Streets!Init => StreetsInvariant
    BY StreetsStart
  <1>2. StreetsInvariant /\ [Streets!Next]_(Streets!vars) => StreetsInvariant'
    BY StreetsStep
  <1> QED
    BY <1>1, <1>2, PTL DEF Streets!Spec

\* CONTRACT.md 3, 4, 9, 11 of the Callejero source: a partition that is complete
\* validates, where every run asks for the same province and one edition is out.
\* (With two the file of the other may be an orphan of a complete partition.)
THEOREM StreetsAreValid ==
    ASSUME OneOfEach
    PROVE  Streets!Spec => []Streets!CompleteIsValid
  <1>1. StreetsInvariant => Streets!CompleteIsValid
    BY DEF StreetsInvariant, StreetsAreDeclared, Streets!CompleteIsValid, Streets!Valid
  <1> QED
    BY <1>1, StreetsInvariantHolds, PTL

\* What landed is not copied over, and what was visited without failure agrees.
LEMMA StreetsDecide ==
    ASSUME StreetsInvariant, Streets!Next
    PROVE  Streets!Decides
  <1>1. ASSUME ~run.overwrite, NEW p \in Streets!Path, disk[p] # Absent
        PROVE  disk'[p] = disk[p]
    <2>1. ASSUME NEW c \in Streets!Combination, Streets!Copy(c)
          PROVE  disk'[p] = disk[p]
      BY <1>1, <2>1 DEF Streets!Copy, Streets!Landed, StreetsInvariant, StreetsShape
    <2> QED
      BY <2>1
         DEF Streets!Next, Streets!Step, Streets!Start, Streets!Preliminary, Streets!Unmark,
             Streets!Reuse, Streets!Refuse, Streets!Final, Streets!Mark, Streets!Crash,
             Streets!Refresh, Streets!partition
  <1>2. ASSUME run.phase = "copying", run'.phase = "mark", manifest'.complete,
               NEW c \in run.provinces \X Dataset
        PROVE  /\ inbox[c] # Absent
               /\ << c, inbox[c].edition >> \in DOMAIN manifest'.files
               /\ manifest'.files[<< c, inbox[c].edition >>] = inbox[c].content
    <2>1. Streets!Final
      <3>1. ASSUME NEW d \in Streets!Combination,
                   Streets!Reuse(d) \/ Streets!Copy(d) \/ Streets!Refuse(d)
            PROVE  run'.phase = run.phase
        BY <3>1 DEF Streets!Reuse, Streets!Copy, Streets!Refuse, StreetsInvariant,
                          StreetsShape
      <3>2. \/ run.phase \in {"idle", "preliminary", "unmark", "mark"}
            \/ run'.phase = "idle"
            \/ Streets!Final
            \/ \E d \in Streets!Combination :
                 Streets!Reuse(d) \/ Streets!Copy(d) \/ Streets!Refuse(d)
        <4>1. Streets!Preliminary \/ Streets!Unmark \/ Streets!Mark
                => run.phase \in {"preliminary", "unmark", "mark"}
          BY DEF Streets!Preliminary, Streets!Unmark, Streets!Mark
        <4>2. \A overwrite, provinces : Streets!Start(overwrite, provinces) => run.phase = "idle"
          BY DEF Streets!Start
        <4>3. \A d, file : Streets!Refresh(d, file) => run.phase = "idle"
          BY DEF Streets!Refresh
        <4>4. Streets!Crash => run'.phase = "idle"
          BY DEF Streets!Crash, Streets!Idle
        <4> QED
          BY <4>1, <4>2, <4>3, <4>4 DEF Streets!Next, Streets!Step
      <3> QED
        BY <1>2, <3>1, <3>2
    <2>2. manifest'.files = run.files /\ run.failures = {}
      BY <1>2, <2>1 DEF Streets!Final, Streets!ManifestOf
    <2>3. DeclaredFor(c, run.files)
      BY <1>2, <2>1, <2>2, StreetsFinal
    <2> QED
      BY <2>2, <2>3 DEF DeclaredFor, Streets!Target
  <1> QED
    BY <1>1, <1>2 DEF Streets!Decides

\* CONTRACT.md 6 of the Callejero source: whatever provinces and editions, a file
\* that landed keeps its bytes without --overwrite, and a run that completes has
\* declared what --in held for all it was asked for.
THEOREM StreetsAreDecided == Streets!Spec => Streets!DivergenceIsDecided
  <1>2. StreetsInvariant /\ [Streets!Next]_(Streets!vars) => [Streets!Decides]_(Streets!vars)
    BY StreetsDecide
  <1> QED
    BY <1>2, StreetsInvariantHolds, PTL DEF Streets!Spec, Streets!DivergenceIsDecided

-----------------------------------------------------------------------------
(* The catalogue.                                                           *)

CatalogCounts == used \in [{"overwrite", "fail", "crash", "kill", "tamper"} -> Nat]

\* What the partition holds.
CatalogDisk ==
    /\ disk \in [Catalog!Path -> Catalog!Readable \cup Catalog!Unusable]
    /\ disk["tree"] \in Catalog!TreePayload \cup {Absent}
    /\ manifest \in Catalog!Manifest \cup {NoManifest, Unreadable}
    /\ {success, litter} \subseteq BOOLEAN

CatalogFiles(files) ==
    /\ files = [q \in DOMAIN files |-> files[q]]
    /\ DOMAIN files \in SUBSET Catalog!Path
    /\ \A q \in DOMAIN files : files[q] \in Catalog!Readable

\* What a run holds in its variables.
CatalogRun(r) ==
    /\ r = [phase |-> r.phase, overwrite |-> r.overwrite, lang |-> r.lang,
            limited |-> r.limited, previous |-> r.previous, todo |-> r.todo,
            files |-> r.files, failures |-> r.failures]
    /\ r.phase \in Catalog!Phases
    /\ {r.overwrite, r.limited} \subseteq BOOLEAN
    /\ r.todo \in SUBSET Category
    /\ r.failures \in SUBSET Category
    /\ r.phase = "idle" => ~r.overwrite
    /\ r.phase # "idle" => r.lang \in Lang
    /\ CatalogFiles(r.files)

\* What a run has visited lies on disk as it will declare it.
CatalogVisited(r) ==
    /\ r.phase \in {"tree", "preliminary", "unmark"} => r.failures = {}
    /\ r.phase \in {"preliminary", "unmark", "catalog"} =>
         /\ "tree" \in DOMAIN r.files
         /\ \A q \in DOMAIN r.files : disk[q] = r.files[q]
         /\ disk["tree"] \in Catalog!TreePayload
         /\ ~r.limited =>
              disk["tree"].categories \subseteq r.todo \cup r.failures \cup DOMAIN r.files

\* What assert_writable protects.
Sealed == IF Catalog!HasManifest THEN manifest.complete ELSE success

\* A run that does not overwrite began where nothing was sealed; the manifest
\* says incomplete before a catalog file is touched, and what Complete said last.
CatalogOpened(r) ==
    /\ r.phase \in {"tree", "preliminary"} /\ ~r.overwrite => ~Sealed
    /\ r.phase \in {"unmark", "catalog"} => Catalog!HasManifest /\ ~manifest.complete
    /\ r.phase = "mark" => Catalog!HasManifest /\ manifest.complete = Catalog!Complete(r)

\* A complete manifest describes the partition, and is what _SUCCESS stands on.
CompleteIsTrue ==
    /\ \A p \in Process : ~run[p].overwrite
    /\ \A q \in Catalog!Path : disk[q] \in Catalog!Readable \cup {Absent}
    /\ Catalog!HasManifest /\ manifest.complete =>
         /\ \A q \in DOMAIN manifest.files : disk[q] = manifest.files[q]
         /\ \A q \in Catalog!Path : disk[q] # Absent => q \in DOMAIN manifest.files
         /\ manifest.failures = {}
         /\ disk["tree"] \in Catalog!TreePayload
         /\ disk["tree"].categories \subseteq DOMAIN manifest.files
         /\ \A p \in Process : run[p].phase \in {"idle", "mark"}
    /\ success => Catalog!HasManifest /\ manifest.complete /\ Catalog!Quiet

\* The files are in the language of the manifest; before there is one, there is
\* the tree at most.
LanguageIsKept ==
    /\ Catalog!HasManifest =>
         \A q \in Catalog!Path : disk[q] \notin Catalog!Unusable => disk[q].lang = manifest.lang
    /\ ~Catalog!HasManifest =>
         manifest = NoManifest /\ \A c \in Category : disk[c] = Absent
    /\ \A p \in Process :
         /\ run[p].phase # "idle" /\ Catalog!HasManifest => run[p].lang = manifest.lang
         /\ run[p].phase = "preliminary" => disk["tree"].lang = run[p].lang

CatalogInvariant ==
    /\ CatalogCounts /\ CatalogDisk
    /\ run = [p \in Process |-> run[p]]
    /\ \A p \in Process : CatalogRun(run[p]) /\ CatalogVisited(run[p]) /\ CatalogOpened(run[p])
    /\ LeftAlone => CompleteIsTrue /\ LanguageIsKept
    /\ used.kill = 0 => ~litter

-----------------------------------------------------------------------------

LEMMA IdleFacts ==
    /\ CatalogRun(Catalog!Idle) /\ Catalog!Idle.phase = "idle" /\ ~Catalog!Idle.overwrite
    /\ Catalog!Idle.todo = {} /\ Catalog!Idle.failures = {}
    /\ Catalog!Idle.files = Catalog!NoFiles
    /\ CatalogVisited(Catalog!Idle) /\ CatalogVisited(Catalog!Idle)'
    /\ CatalogOpened(Catalog!Idle) /\ CatalogOpened(Catalog!Idle)'
  <1> DEFINE lang == CHOOSE l \in Lang : TRUE
  <1>1. Catalog!Idle = [phase |-> "idle", overwrite |-> FALSE, lang |-> lang,
          limited |-> FALSE, previous |-> Catalog!NoFiles, todo |-> {},
          files |-> Catalog!NoFiles, failures |-> {}]
    BY DEF Catalog!Idle
  <1> HIDE DEF lang
  <1>2. /\ Catalog!Idle.phase = "idle" /\ ~Catalog!Idle.overwrite
        /\ Catalog!Idle.todo = {} /\ Catalog!Idle.failures = {}
        /\ Catalog!Idle.files = Catalog!NoFiles
    BY <1>1
  <1>3. CatalogFiles(Catalog!NoFiles)
    BY DEF CatalogFiles, Catalog!NoFiles
  <1>4. CatalogRun(Catalog!Idle)
    BY <1>1, <1>3 DEF CatalogRun, Catalog!Phases
  <1> QED
    BY <1>2, <1>4 DEF CatalogVisited, CatalogOpened

LEMMA CatalogStart ==
    ASSUME CatalogConstants, Catalog!Init
    PROVE  CatalogInvariant
  <1> USE DEF Catalog!Init
  <1>1. CatalogCounts /\ used.kill = 0 /\ ~litter
    BY DEF CatalogCounts
  <1>2. CatalogDisk
    BY DEF CatalogDisk, Catalog!Path, Catalog!Unusable
  <1>3. \A p \in Process : run[p] = Catalog!Idle
    OBVIOUS
  <1>4. run = [p \in Process |-> run[p]]
    OBVIOUS
  <1>5. CompleteIsTrue /\ LanguageIsKept
    BY <1>3, IdleFacts DEF CompleteIsTrue, LanguageIsKept, Catalog!HasManifest, Catalog!Path
  <1> QED
    BY <1>1, <1>2, <1>3, <1>4, <1>5, IdleFacts DEF CatalogInvariant

\* What one more of something does to the counts.
LEMMA CatalogCountsUp ==
    ASSUME CatalogCounts, NEW what \in {"overwrite", "fail", "crash", "kill", "tamper"},
           Catalog!Count(what)
    PROVE  /\ CatalogCounts'
           /\ used'[what] # used[what] /\ used'[what] # 0
           /\ \A other \in {"overwrite", "fail", "crash", "kill", "tamper"} :
                other # what => used'[other] = used[other]
  BY DEF CatalogCounts, Catalog!Count

\* A step of the one run there is.
LEMMA TheRun ==
    ASSUME CatalogConstants, CatalogInvariant, NEW p \in Process, NEW r,
           run' = [run EXCEPT ![p] = r]
    PROVE  /\ run' = [q \in Process |-> run'[q]]
           /\ \A q \in Process : q = p /\ run'[q] = r
           /\ CatalogRun(run[p]) /\ CatalogVisited(run[p]) /\ CatalogOpened(run[p])
  BY DEF CatalogConstants, CatalogInvariant

LEMMA ManifestFacts ==
    ASSUME CatalogConstants, NEW r, CatalogRun(r), r.phase # "idle",
           NEW files, CatalogFiles(files), NEW complete \in BOOLEAN,
           manifest' = Catalog!ManifestOf(r, files, complete)
    PROVE  /\ manifest' \in Catalog!Manifest /\ Catalog!HasManifest'
           /\ manifest'.complete = complete /\ manifest'.lang = r.lang
           /\ manifest'.limited = r.limited /\ manifest'.files = files
           /\ manifest'.failures = r.failures
  <1>1. files \in [DOMAIN files -> Catalog!Readable] /\ DOMAIN files \in SUBSET Catalog!Path
    BY DEF CatalogFiles
  <1>2. files \in Catalog!FileList
    BY <1>1 DEF Catalog!FileList
  <1>3. manifest' \in Catalog!Manifest
    BY <1>2 DEF Catalog!ManifestOf, Catalog!Manifest, CatalogRun
  <1>4. Catalog!HasManifest'
    BY <1>3 DEF CatalogConstants, Catalog!HasManifest
  <1> QED
    BY <1>3, <1>4 DEF Catalog!ManifestOf

\* A run that ends without writing leaves what it found.
LEMMA RunEnds ==
    ASSUME CatalogConstants, CatalogInvariant, NEW p \in Process,
           run' = [run EXCEPT ![p] = Catalog!Idle], UNCHANGED << disk, manifest, success >>,
           CatalogCounts', LeftAlone' => LeftAlone, litter' \in BOOLEAN,
           used'.kill = 0 => ~litter'
    PROVE  CatalogInvariant'
  <1>1. run' = [q \in Process |-> run'[q]] /\ \A q \in Process : run'[q] = Catalog!Idle
    BY TheRun
  <1>2. CatalogDisk'
    BY DEF CatalogInvariant, CatalogDisk
  <1>3. \A q \in Process : (CatalogRun(run[q]) /\ CatalogVisited(run[q]) /\ CatalogOpened(run[q]))'
    BY <1>1, IdleFacts DEF CatalogRun, CatalogVisited, CatalogOpened
  <1>4. ASSUME LeftAlone'
        PROVE  CompleteIsTrue' /\ LanguageIsKept'
    <2>1. CompleteIsTrue /\ LanguageIsKept
      BY <1>4 DEF CatalogInvariant
    <2>2. CompleteIsTrue'
      BY <1>1, <2>1, IdleFacts DEF CompleteIsTrue, Catalog!HasManifest, Catalog!Quiet
    <2>3. LanguageIsKept'
      BY <1>1, <2>1, IdleFacts DEF LanguageIsKept, Catalog!HasManifest
    <2> QED
      BY <2>2, <2>3
  <1> QED
    BY <1>1, <1>2, <1>3, <1>4 DEF CatalogInvariant

\* While a run may write, nothing is announced that was not announced before.
LEMMA WhileItRuns ==
    ASSUME CatalogInvariant, LeftAlone, NEW p \in Process,
           run[p].phase \in {"tree", "preliminary", "unmark", "catalog"}
    PROVE  /\ ~success /\ ~(Catalog!HasManifest /\ manifest.complete) /\ ~run[p].overwrite
           /\ \A q \in Catalog!Path : disk[q] \in Catalog!Readable \cup {Absent}
           /\ LanguageIsKept
  BY DEF CatalogInvariant, CompleteIsTrue, Catalog!Quiet

\* What a run that starts holds in its variables.
Started(overwrite, lang, limited, previous) ==
    [Catalog!Idle EXCEPT !.phase = "tree", !.overwrite = overwrite, !.lang = lang,
                         !.limited = limited, !.previous = previous]

LEMMA StartedRun ==
    ASSUME NEW overwrite, NEW lang, NEW limited, NEW previous
    PROVE  LET r == Started(overwrite, lang, limited, previous)
           IN  /\ r.phase = "tree" /\ r.overwrite = overwrite /\ r.lang = lang
               /\ r.limited = limited /\ r.todo = {} /\ r.failures = {}
               /\ r.files = Catalog!NoFiles
               /\ r = [phase |-> r.phase, overwrite |-> r.overwrite, lang |-> r.lang,
                       limited |-> r.limited, previous |-> r.previous, todo |-> r.todo,
                       files |-> r.files, failures |-> r.failures]
  <1>1. \E l, f : Catalog!Idle = [phase |-> "idle", overwrite |-> f, lang |-> l, limited |-> f,
                    previous |-> Catalog!NoFiles, todo |-> {}, files |-> Catalog!NoFiles,
                    failures |-> {}]
    BY DEF Catalog!Idle
  <1>2. PICK l, f : Catalog!Idle = [phase |-> "idle", overwrite |-> f, lang |-> l,
                      limited |-> f, previous |-> Catalog!NoFiles, todo |-> {},
                      files |-> Catalog!NoFiles, failures |-> {}]
    BY <1>1
  <1>3. ASSUME NEW r, r = Started(overwrite, lang, limited, previous)
        PROVE  /\ r.phase = "tree" /\ r.overwrite = overwrite /\ r.lang = lang
               /\ r.limited = limited /\ r.todo = {} /\ r.failures = {}
               /\ r.files = Catalog!NoFiles
               /\ r = [phase |-> r.phase, overwrite |-> r.overwrite, lang |-> r.lang,
                       limited |-> r.limited, previous |-> r.previous, todo |-> r.todo,
                       files |-> r.files, failures |-> r.failures]
    BY <1>2, <1>3 DEF Started
  <1> QED
    BY <1>3, Zenon

LEMMA StartStep ==
    ASSUME CatalogConstants, CatalogInvariant, NEW p \in Process, NEW lang \in Lang,
           NEW overwrite \in BOOLEAN, NEW limited \in BOOLEAN,
           Catalog!Start(p, lang, overwrite, limited)
    PROVE  CatalogInvariant'
  <1> DEFINE previous == IF Catalog!HasManifest THEN manifest.files ELSE Catalog!NoFiles
             r == Started(overwrite, lang, limited, previous)
  <1>1. /\ run[p].phase = "idle" /\ Catalog!Writable(lang, overwrite)
        /\ run' = [run EXCEPT ![p] = r]
        /\ UNCHANGED << disk, manifest, success, litter >>
    BY DEF Catalog!Start, Catalog!partition, Started
  <1>2. /\ r.phase = "tree" /\ r.overwrite = overwrite /\ r.lang = lang
        /\ r.limited = limited /\ r.todo = {} /\ r.failures = {} /\ r.files = Catalog!NoFiles
        /\ r = [phase |-> r.phase, overwrite |-> r.overwrite, lang |-> r.lang,
                limited |-> r.limited, previous |-> r.previous, todo |-> r.todo,
                files |-> r.files, failures |-> r.failures]
    BY StartedRun
  <1> HIDE DEF previous, r
  <1>3. run' = [q \in Process |-> run'[q]] /\ \A q \in Process : q = p /\ run'[q] = r
    BY <1>1, TheRun
  <1>4. CatalogCounts' /\ (LeftAlone' => LeftAlone /\ ~overwrite) /\ (used'.kill = used.kill)
    <2>1. CASE overwrite
      BY <2>1, CatalogCountsUp DEF Catalog!Start, CatalogInvariant, LeftAlone
    <2>2. CASE ~overwrite
      BY <2>2 DEF Catalog!Start, CatalogInvariant, CatalogCounts, LeftAlone
    <2> QED
      BY <2>1, <2>2
  <1>5. CatalogRun(r)
    BY <1>2, IdleFacts DEF CatalogRun, Catalog!Phases, CatalogFiles, Catalog!NoFiles
  <1>6. ~overwrite => ~Sealed
    BY <1>1 DEF Sealed, Catalog!Writable, Catalog!HasManifest
  <1>7. \A q \in Process : (CatalogRun(run[q]) /\ CatalogVisited(run[q]) /\ CatalogOpened(run[q]))'
    BY <1>1, <1>2, <1>3, <1>5, <1>6
       DEF CatalogRun, CatalogVisited, CatalogOpened, Sealed, Catalog!HasManifest
  <1>8. ASSUME LeftAlone'
        PROVE  CompleteIsTrue' /\ LanguageIsKept'
    <2>1. CompleteIsTrue /\ LanguageIsKept /\ ~overwrite
      BY <1>4, <1>8 DEF CatalogInvariant
    <2>2. \/ manifest = NoManifest /\ ~success /\ ~Catalog!HasManifest
          \/ Catalog!HasManifest /\ manifest.lang = lang /\ ~manifest.complete
      BY <1>1, <2>1 DEF Catalog!Writable, Catalog!HasManifest
    <2>3. CompleteIsTrue'
      BY <1>1, <1>2, <1>3, <2>1, <2>2 DEF CompleteIsTrue, Catalog!HasManifest
    <2>4. LanguageIsKept'
      BY <1>1, <1>2, <1>3, <2>1, <2>2 DEF LanguageIsKept, Catalog!HasManifest
    <2> QED
      BY <2>3, <2>4
  <1>9. CatalogDisk'
    BY <1>1 DEF CatalogInvariant, CatalogDisk
  <1> QED
    BY <1>1, <1>3, <1>4, <1>7, <1>8, <1>9 DEF CatalogInvariant

LEMMA FetchTreeStep ==
    ASSUME CatalogConstants, CatalogInvariant, NEW p \in Process,
           NEW S \in SUBSET Category, NEW T \in SUBSET S, Catalog!FetchTree(p, S, T)
    PROVE  CatalogInvariant'
  <1> DEFINE tree  == [lang |-> run[p].lang, categories |-> S]
             files == Catalog!Declare(Catalog!NoFiles, "tree", tree)
             r     == [run[p] EXCEPT !.phase = "preliminary", !.todo = T, !.files = files]
  <1>1. /\ run[p].phase = "tree" /\ (~run[p].limited => T = S)
        /\ disk' = [disk EXCEPT !["tree"] = tree]
        /\ run' = [run EXCEPT ![p] = r]
        /\ UNCHANGED << manifest, success, litter, used >>
    BY DEF Catalog!FetchTree
  <1>2. /\ run' = [q \in Process |-> run'[q]] /\ \A q \in Process : q = p /\ run'[q] = r
        /\ CatalogRun(run[p]) /\ CatalogVisited(run[p]) /\ CatalogOpened(run[p])
    BY <1>1, TheRun
  <1>3. /\ tree \in Catalog!TreePayload /\ tree \in Catalog!Readable
        /\ tree.lang = run[p].lang /\ tree.categories = S
    BY <1>1, <1>2 DEF CatalogRun, Catalog!TreePayload, Catalog!Readable
  <1> HIDE DEF tree
  <1>4. DOMAIN files = {"tree"} /\ files["tree"] = tree /\ CatalogFiles(files)
    BY <1>3 DEF Catalog!Declare, Catalog!NoFiles, CatalogFiles, Catalog!Path
  <1> HIDE DEF files
  <1>5. /\ r.phase = "preliminary" /\ r.overwrite = run[p].overwrite /\ r.lang = run[p].lang
        /\ r.limited = run[p].limited /\ r.todo = T /\ r.failures = run[p].failures
        /\ r.files = files
        /\ r = [phase |-> r.phase, overwrite |-> r.overwrite, lang |-> r.lang,
                limited |-> r.limited, previous |-> r.previous, todo |-> r.todo,
                files |-> r.files, failures |-> r.failures]
    BY <1>2 DEF CatalogRun
  <1> HIDE DEF r
  <1>6. /\ disk' \in [Catalog!Path -> Catalog!Readable \cup Catalog!Unusable]
        /\ disk'["tree"] = tree /\ \A q \in Catalog!Path : q # "tree" => disk'[q] = disk[q]
        /\ CatalogDisk'
    BY <1>1, <1>3 DEF CatalogInvariant, CatalogDisk, Catalog!Path
  <1>7. CatalogRun(r)
    BY <1>1, <1>2, <1>4, <1>5 DEF CatalogRun, Catalog!Phases
  <1>8. \A q \in Process : CatalogRun(run'[q]) /\ run'[q] = r
    BY <1>2, <1>7
  <1>9. \A q \in Process : (CatalogRun(run[q]) /\ CatalogVisited(run[q]) /\ CatalogOpened(run[q]))'
    BY <1>1, <1>2, <1>3, <1>4, <1>5, <1>6, <1>8
       DEF CatalogRun, CatalogVisited, CatalogOpened, Sealed, Catalog!HasManifest
  <1>10. ASSUME LeftAlone'
         PROVE  CompleteIsTrue' /\ LanguageIsKept'
    <2>1. /\ ~success /\ ~(Catalog!HasManifest /\ manifest.complete) /\ ~run[p].overwrite
          /\ \A q \in Catalog!Path : disk[q] \in Catalog!Readable \cup {Absent}
          /\ LanguageIsKept
      BY <1>1, <1>10, WhileItRuns DEF LeftAlone
    <2>2. CompleteIsTrue'
      BY <1>1, <1>2, <1>3, <1>5, <1>6, <2>1 DEF CompleteIsTrue, Catalog!HasManifest
    <2>3. LanguageIsKept'
      <3>1. Catalog!HasManifest =>
              \A q \in Catalog!Path : disk'[q] \notin Catalog!Unusable => disk'[q].lang = manifest.lang
        BY <1>1, <1>3, <1>6, <2>1 DEF LanguageIsKept
      <3>2. \A c \in Category : disk'[c] = disk[c]
        BY <1>6 DEF CatalogConstants, Catalog!Path
      <3> QED
        BY <1>1, <1>2, <1>3, <1>5, <1>6, <2>1, <3>1, <3>2 DEF LanguageIsKept, Catalog!HasManifest
    <2> QED
      BY <2>2, <2>3
  <1> QED
    BY <1>1, <1>2, <1>6, <1>9, <1>10 DEF CatalogInvariant, CatalogCounts

LEMMA PreliminaryStep ==
    ASSUME CatalogConstants, CatalogInvariant, NEW p \in Process, Catalog!Preliminary(p)
    PROVE  CatalogInvariant'
  <1> DEFINE r == [run[p] EXCEPT !.phase = "unmark"]
  <1>1. /\ run[p].phase = "preliminary"
        /\ manifest' = Catalog!ManifestOf(run[p], run[p].files, FALSE)
        /\ run' = [run EXCEPT ![p] = r]
        /\ UNCHANGED << disk, success, litter, used >>
    BY DEF Catalog!Preliminary
  <1>2. /\ run' = [q \in Process |-> run'[q]] /\ \A q \in Process : q = p /\ run'[q] = r
        /\ CatalogRun(run[p]) /\ CatalogVisited(run[p]) /\ CatalogOpened(run[p])
    BY <1>1, TheRun
  <1>3. /\ manifest' \in Catalog!Manifest /\ Catalog!HasManifest'
        /\ ~manifest'.complete /\ manifest'.lang = run[p].lang
    BY <1>1, <1>2, ManifestFacts DEF CatalogRun
  <1>4. /\ r.phase = "unmark" /\ r.overwrite = run[p].overwrite /\ r.lang = run[p].lang
        /\ r.limited = run[p].limited /\ r.todo = run[p].todo
        /\ r.failures = run[p].failures /\ r.files = run[p].files
        /\ CatalogRun(r)
    BY <1>1, <1>2 DEF CatalogRun, Catalog!Phases
  <1> HIDE DEF r
  <1>5. \A q \in Process : CatalogRun(run'[q]) /\ run'[q] = r
    BY <1>2, <1>4
  <1>6. \A q \in Process : (CatalogRun(run[q]) /\ CatalogVisited(run[q]) /\ CatalogOpened(run[q]))'
    <2>1. \A q \in Process : CatalogRun(run[q])'
      BY <1>5 DEF CatalogRun
    <2>2. \A q \in Process : CatalogVisited(run[q])'
      BY <1>1, <1>2, <1>4, <1>5 DEF CatalogVisited
    <2>3. \A q \in Process : CatalogOpened(run[q])'
      BY <1>3, <1>4, <1>5 DEF CatalogOpened
    <2> QED
      BY <2>1, <2>2, <2>3
  <1>7. ASSUME LeftAlone'
        PROVE  CompleteIsTrue' /\ LanguageIsKept'
    <2>1. /\ ~success /\ ~run[p].overwrite
          /\ \A q \in Catalog!Path : disk[q] \in Catalog!Readable \cup {Absent}
          /\ LanguageIsKept
      BY <1>1, <1>7, WhileItRuns DEF LeftAlone
    <2>2. CompleteIsTrue'
      BY <1>1, <1>2, <1>3, <1>4, <2>1 DEF CompleteIsTrue
    <2>3. \A q \in Catalog!Path : disk[q] \notin Catalog!Unusable => disk[q].lang = run[p].lang
      BY <1>1, <2>1 DEF LanguageIsKept, Catalog!Path, Catalog!Unusable
    <2>4. LanguageIsKept'
      BY <1>1, <1>2, <1>3, <1>4, <2>3 DEF LanguageIsKept
    <2> QED
      BY <2>2, <2>4
  <1>8. CatalogDisk'
    BY <1>1, <1>3 DEF CatalogInvariant, CatalogDisk
  <1> QED
    BY <1>1, <1>2, <1>6, <1>7, <1>8 DEF CatalogInvariant, CatalogCounts

LEMMA UnmarkStep ==
    ASSUME CatalogConstants, CatalogInvariant, NEW p \in Process, Catalog!Unmark(p)
    PROVE  CatalogInvariant'
  <1> DEFINE r == IF run[p].todo = {} THEN Catalog!Idle ELSE [run[p] EXCEPT !.phase = "catalog"]
  <1>1. /\ run[p].phase = "unmark" /\ success' = FALSE
        /\ run' = [run EXCEPT ![p] = r]
        /\ UNCHANGED << disk, manifest, litter, used >>
    BY DEF Catalog!Unmark
  <1>2. /\ run' = [q \in Process |-> run'[q]] /\ \A q \in Process : q = p /\ run'[q] = r
        /\ CatalogRun(run[p]) /\ CatalogVisited(run[p]) /\ CatalogOpened(run[p])
    BY <1>1, TheRun
  <1>3. \/ r = Catalog!Idle
        \/ /\ r.phase = "catalog" /\ r.overwrite = run[p].overwrite /\ r.lang = run[p].lang
           /\ r.limited = run[p].limited /\ r.todo = run[p].todo
           /\ r.failures = run[p].failures /\ r.files = run[p].files
           /\ CatalogRun(r)
    BY <1>1, <1>2 DEF CatalogRun, Catalog!Phases
  <1> HIDE DEF r
  <1>4. CatalogRun(r)
    BY <1>3, IdleFacts
  <1>5. \A q \in Process : (CatalogRun(run[q]) /\ CatalogVisited(run[q]) /\ CatalogOpened(run[q]))'
    <2>1. CASE r = Catalog!Idle
      BY <1>2, <1>4, <2>1, IdleFacts DEF CatalogRun, CatalogVisited, CatalogOpened
    <2>2. CASE r # Catalog!Idle
      BY <1>1, <1>2, <1>3, <1>4, <2>2
         DEF CatalogRun, CatalogVisited, CatalogOpened, Catalog!HasManifest
    <2> QED
      BY <2>1, <2>2
  <1>6. /\ r.overwrite => run[p].overwrite
        /\ r.phase \in {"idle", "catalog"}
        /\ r.phase # "idle" => r.lang = run[p].lang
    BY <1>3, IdleFacts
  <1>7. ASSUME LeftAlone'
        PROVE  CompleteIsTrue' /\ LanguageIsKept'
    <2>1. /\ ~(Catalog!HasManifest /\ manifest.complete) /\ ~run[p].overwrite
          /\ \A q \in Catalog!Path : disk[q] \in Catalog!Readable \cup {Absent}
          /\ LanguageIsKept
      BY <1>1, <1>7, WhileItRuns DEF LeftAlone
    <2>2. CompleteIsTrue'
      BY <1>1, <1>2, <1>6, <2>1 DEF CompleteIsTrue, Catalog!HasManifest
    <2>3. LanguageIsKept'
      BY <1>1, <1>2, <1>6, <2>1 DEF LanguageIsKept, Catalog!HasManifest
    <2> QED
      BY <2>2, <2>3
  <1>8. CatalogDisk'
    BY <1>1 DEF CatalogInvariant, CatalogDisk
  <1> QED
    BY <1>1, <1>2, <1>5, <1>7, <1>8 DEF CatalogInvariant, CatalogCounts

\* What a run has once it has visited a category.
LEMMA VisitedIs ==
    ASSUME CatalogConstants, CatalogInvariant, NEW p \in Process, NEW c, NEW content,
           NEW failures, Catalog!Visited(p, c, content, failures)
    PROVE  /\ run' = [q \in Process |-> run'[q]] /\ \A q \in Process : q = p
           /\ CatalogRun(run[p]) /\ CatalogVisited(run[p]) /\ CatalogOpened(run[p])
           /\ run'[p] = [phase |-> run[p].phase, overwrite |-> run[p].overwrite,
                         lang |-> run[p].lang, limited |-> run[p].limited,
                         previous |-> run[p].previous, todo |-> run[p].todo \ {c},
                         files |-> IF content = Absent THEN run[p].files
                                   ELSE Catalog!Declare(run[p].files, c, content),
                         failures |-> run[p].failures \cup failures]
  <1>1. /\ run = [q \in Process |-> run[q]] /\ \A q \in Process : q = p
        /\ CatalogRun(run[p]) /\ CatalogVisited(run[p]) /\ CatalogOpened(run[p])
    BY DEF CatalogConstants, CatalogInvariant
  <1>2. run' = [q \in Process |-> run'[q]]
    BY <1>1 DEF Catalog!Visited
  <1>3. run'[p] = [phase |-> run[p].phase, overwrite |-> run[p].overwrite,
                   lang |-> run[p].lang, limited |-> run[p].limited,
                   previous |-> run[p].previous, todo |-> run[p].todo \ {c},
                   files |-> IF content = Absent THEN run[p].files
                             ELSE Catalog!Declare(run[p].files, c, content),
                   failures |-> run[p].failures \cup failures]
    BY <1>1 DEF Catalog!Visited, CatalogRun
  <1> QED
    BY <1>1, <1>2, <1>3

\* A category visited with success is one more file of the run.
LEMMA VisitStep ==
    ASSUME CatalogConstants, CatalogInvariant, NEW p \in Process, NEW c \in Category,
           NEW content \in Catalog!Readable, LeftAlone => content.lang = run[p].lang,
           Catalog!Visiting(p, c), Catalog!Visited(p, c, content, {}),
           disk' = [disk EXCEPT ![c] = content],
           UNCHANGED << manifest, success, litter, used >>
    PROVE  CatalogInvariant'
  <1> DEFINE files == Catalog!Declare(run[p].files, c, content)
  <1>1. content # Absent /\ c # "tree" /\ c \in Catalog!Path
    BY DEF CatalogConstants, Catalog!Unusable, Catalog!Path
  <1>2. run[p].phase = "catalog"
    BY DEF Catalog!Visiting
  <1>3. /\ run' = [q \in Process |-> run'[q]] /\ \A q \in Process : q = p
        /\ CatalogRun(run[p]) /\ CatalogVisited(run[p]) /\ CatalogOpened(run[p])
    BY VisitedIs
  <1>4. /\ DOMAIN files = DOMAIN run[p].files \cup {c} /\ files[c] = content
        /\ \A q \in DOMAIN run[p].files : q # c => files[q] = run[p].files[q]
        /\ CatalogFiles(files)
    BY <1>1, <1>3 DEF Catalog!Declare, CatalogRun, CatalogFiles
  <1>5. /\ run'[p].phase = "catalog" /\ run'[p].overwrite = run[p].overwrite
        /\ run'[p].lang = run[p].lang /\ run'[p].limited = run[p].limited
        /\ run'[p].todo = run[p].todo \ {c} /\ run'[p].failures = run[p].failures
        /\ run'[p].files = files
        /\ CatalogRun(run'[p])
    <2>1. run'[p] = [phase |-> run[p].phase, overwrite |-> run[p].overwrite,
                     lang |-> run[p].lang, limited |-> run[p].limited,
                     previous |-> run[p].previous, todo |-> run[p].todo \ {c},
                     files |-> files, failures |-> run[p].failures \cup {}]
      BY <1>1, VisitedIs
    <2> HIDE DEF files
    <2> QED
      BY <1>2, <1>3, <1>4, <2>1 DEF CatalogRun
  <1> HIDE DEF files
  <1>6. /\ disk' \in [Catalog!Path -> Catalog!Readable \cup Catalog!Unusable]
        /\ disk'[c] = content /\ \A q \in Catalog!Path : q # c => disk'[q] = disk[q]
        /\ disk'["tree"] = disk["tree"]
        /\ CatalogDisk'
    BY <1>1 DEF CatalogInvariant, CatalogDisk, Catalog!Path
  <1>7. \A q \in Process : CatalogRun(run'[q]) /\ q = p
    BY <1>3, <1>5
  <1>8. CatalogVisited(run[p])'
    <2>1. \A q \in DOMAIN files : q \in Catalog!Path /\ disk'[q] = files[q]
      BY <1>1, <1>2, <1>3, <1>4, <1>6 DEF CatalogVisited, CatalogFiles
    <2> QED
      BY <1>2, <1>3, <1>4, <1>5, <1>6, <2>1 DEF CatalogVisited
  <1>9. CatalogOpened(run[p])'
    BY <1>2, <1>3, <1>5 DEF CatalogOpened, Catalog!HasManifest
  <1>10. \A q \in Process : (CatalogRun(run[q]) /\ CatalogVisited(run[q]) /\ CatalogOpened(run[q]))'
    BY <1>3, <1>7, <1>8, <1>9 DEF CatalogRun
  <1>11. ASSUME LeftAlone'
         PROVE  CompleteIsTrue' /\ LanguageIsKept'
    <2>1. /\ ~success /\ ~(Catalog!HasManifest /\ manifest.complete) /\ ~run[p].overwrite
          /\ \A q \in Catalog!Path : disk[q] \in Catalog!Readable \cup {Absent}
          /\ LanguageIsKept
      BY <1>2, <1>11, WhileItRuns DEF LeftAlone
    <2>2. content.lang = run[p].lang /\ Catalog!HasManifest
      BY <1>2, <1>3, <1>11 DEF LeftAlone, CatalogOpened
    <2>3. CompleteIsTrue'
      BY <1>3, <1>5, <1>6, <2>1 DEF CompleteIsTrue, Catalog!HasManifest
    <2>4. \A q \in Catalog!Path : disk'[q] \notin Catalog!Unusable => disk'[q].lang = manifest.lang
      BY <1>2, <1>6, <2>1, <2>2 DEF LanguageIsKept
    <2>5. LanguageIsKept'
      BY <1>2, <1>3, <1>5, <2>1, <2>2, <2>4 DEF LanguageIsKept, Catalog!HasManifest
    <2> QED
      BY <2>3, <2>5
  <1> QED
    BY <1>3, <1>6, <1>10, <1>11 DEF CatalogInvariant, CatalogCounts

LEMMA ReuseStep ==
    ASSUME CatalogConstants, CatalogInvariant, NEW p \in Process, NEW c \in Category,
           Catalog!Reuse(p, c)
    PROVE  CatalogInvariant'
  <1>1. /\ Catalog!Visiting(p, c) /\ Catalog!Visited(p, c, disk[c], {})
        /\ disk[c] \notin Catalog!Unusable
        /\ UNCHANGED << disk, manifest, success, litter, used >>
    BY DEF Catalog!Reuse, Catalog!Reusable, Catalog!partition
  <1>2. disk[c] \in Catalog!Readable /\ disk' = [disk EXCEPT ![c] = disk[c]]
    BY <1>1 DEF CatalogInvariant, CatalogDisk, Catalog!Path
  <1>3. ASSUME LeftAlone
        PROVE  disk[c].lang = run[p].lang
    <2>1. Catalog!HasManifest /\ run[p].phase = "catalog"
      BY <1>1 DEF Catalog!Visiting, CatalogInvariant, CatalogOpened
    <2> QED
      BY <1>1, <1>3, <2>1 DEF CatalogInvariant, LanguageIsKept, Catalog!Path
  <1> QED
    BY <1>1, <1>2, <1>3, VisitStep

LEMMA DownloadStep ==
    ASSUME CatalogConstants, CatalogInvariant, NEW p \in Process, NEW c \in Category,
           NEW v \in Version, Catalog!Download(p, c, v)
    PROVE  CatalogInvariant'
  <1> DEFINE payload == [lang |-> run[p].lang, v |-> v]
  <1>1. /\ Catalog!Visiting(p, c) /\ Catalog!Visited(p, c, payload, {})
        /\ disk' = [disk EXCEPT ![c] = payload]
        /\ UNCHANGED << manifest, success, litter, used >>
    BY DEF Catalog!Download
  <1>2. payload \in Catalog!Readable /\ payload.lang = run[p].lang
    BY <1>1 DEF Catalog!Readable, Catalog!Payload, Catalog!Visiting, CatalogInvariant,
                CatalogRun
  <1> HIDE DEF payload
  <1> QED
    BY <1>1, <1>2, VisitStep

LEMMA CategoryFailsStep ==
    ASSUME CatalogConstants, CatalogInvariant, NEW p \in Process, NEW c \in Category,
           Catalog!CategoryFails(p, c)
    PROVE  CatalogInvariant'
  <1>1. /\ run[p].phase = "catalog" /\ Catalog!Visited(p, c, Absent, {c})
        /\ UNCHANGED << disk, manifest, success, litter >>
    BY DEF Catalog!CategoryFails, Catalog!Visiting, Catalog!partition
  <1>2. CatalogCounts' /\ (LeftAlone' => LeftAlone) /\ used'.kill = used.kill
    BY CatalogCountsUp DEF Catalog!CategoryFails, CatalogInvariant, LeftAlone
  <1>3. /\ run' = [q \in Process |-> run'[q]] /\ \A q \in Process : q = p
        /\ CatalogRun(run[p]) /\ CatalogVisited(run[p]) /\ CatalogOpened(run[p])
    BY <1>1, VisitedIs
  <1>4. /\ run'[p].phase = "catalog" /\ run'[p].overwrite = run[p].overwrite
        /\ run'[p].lang = run[p].lang /\ run'[p].limited = run[p].limited
        /\ run'[p].todo = run[p].todo \ {c} /\ run'[p].failures = run[p].failures \cup {c}
        /\ run'[p].files = run[p].files
        /\ CatalogRun(run'[p])
    BY <1>1, <1>3, VisitedIs DEF CatalogRun
  <1>5. \A q \in Process : CatalogRun(run'[q]) /\ q = p
    BY <1>3, <1>4
  <1>6. CatalogVisited(run[p])'
    BY <1>1, <1>3, <1>4 DEF CatalogVisited
  <1>7. CatalogOpened(run[p])'
    BY <1>1, <1>3, <1>4 DEF CatalogOpened, Catalog!HasManifest
  <1>8. ASSUME LeftAlone'
        PROVE  CompleteIsTrue' /\ LanguageIsKept'
    <2>1. /\ ~success /\ ~(Catalog!HasManifest /\ manifest.complete) /\ ~run[p].overwrite
          /\ \A q \in Catalog!Path : disk[q] \in Catalog!Readable \cup {Absent}
          /\ LanguageIsKept
      BY <1>1, <1>2, <1>8, WhileItRuns
    <2>2. CompleteIsTrue'
      BY <1>1, <1>3, <1>4, <2>1 DEF CompleteIsTrue, Catalog!HasManifest
    <2>3. LanguageIsKept'
      BY <1>1, <1>3, <1>4, <2>1 DEF LanguageIsKept, Catalog!HasManifest
    <2> QED
      BY <2>2, <2>3
  <1>9. CatalogDisk'
    BY <1>1 DEF CatalogInvariant, CatalogDisk
  <1> QED
    BY <1>1, <1>2, <1>3, <1>5, <1>6, <1>7, <1>8, <1>9 DEF CatalogInvariant, CatalogRun

\* The last manifest declares every file that can be read, as it lies on disk.
LEMMA InventoryFacts ==
    ASSUME CatalogInvariant, NEW p \in Process, run[p].phase = "catalog"
    PROVE  LET files == Catalog!Inventory(run[p].files)
           IN  /\ CatalogFiles(files)
               /\ DOMAIN run[p].files \subseteq DOMAIN files
               /\ \A q \in DOMAIN files : disk[q] = files[q]
               /\ \A q \in Catalog!Path : disk[q] \notin Catalog!Unusable => q \in DOMAIN files
  <1> DEFINE old   == run[p].files
             found == {c \in Category \ DOMAIN old : disk[c] \notin Catalog!Unusable}
             files == Catalog!Inventory(old)
  <1>1. CatalogFiles(old) /\ "tree" \in DOMAIN old /\ \A q \in DOMAIN old : disk[q] = old[q]
    BY DEF CatalogInvariant, CatalogRun, CatalogVisited
  <1>2. /\ disk \in [Catalog!Path -> Catalog!Readable \cup Catalog!Unusable]
        /\ Category \subseteq Catalog!Path
    BY DEF CatalogInvariant, CatalogDisk, Catalog!Path
  <1>3. files = [q \in DOMAIN old \cup found |-> IF q \in found THEN disk[q] ELSE old[q]]
    BY DEF Catalog!Inventory
  <1> HIDE DEF files, old
  <1>4. CatalogFiles(files)
    BY <1>1, <1>2, <1>3 DEF CatalogFiles
  <1>5. \A q \in DOMAIN files : disk[q] = files[q]
    BY <1>1, <1>3
  <1>6. \A q \in Catalog!Path : disk[q] \notin Catalog!Unusable => q \in DOMAIN files
    BY <1>1, <1>3 DEF Catalog!Path
  <1> QED
    BY <1>3, <1>4, <1>5, <1>6 DEF files, old

LEMMA FinalStep ==
    ASSUME CatalogConstants, CatalogInvariant, NEW p \in Process, Catalog!Final(p)
    PROVE  CatalogInvariant'
  <1> DEFINE files == Catalog!Inventory(run[p].files)
             complete == Catalog!Complete(run[p])
             r == [run[p] EXCEPT !.phase = "mark"]
  <1>1. /\ run[p].phase = "catalog" /\ run[p].todo = {}
        /\ manifest' = Catalog!ManifestOf(run[p], files, complete)
        /\ run' = [run EXCEPT ![p] = r]
        /\ UNCHANGED << disk, success, litter, used >>
    BY DEF Catalog!Final
  <1>2. /\ run' = [q \in Process |-> run'[q]] /\ \A q \in Process : q = p /\ run'[q] = r
        /\ CatalogRun(run[p]) /\ CatalogVisited(run[p]) /\ CatalogOpened(run[p])
    BY <1>1, TheRun
  <1>3. /\ CatalogFiles(files) /\ DOMAIN run[p].files \subseteq DOMAIN files
        /\ \A q \in DOMAIN files : disk[q] = files[q]
        /\ \A q \in Catalog!Path : disk[q] \notin Catalog!Unusable => q \in DOMAIN files
    BY <1>1, InventoryFacts
  <1> HIDE DEF files
  <1>4. complete \in BOOLEAN
    BY DEF Catalog!Complete
  <1>5. complete <=> run[p].failures = {} /\ ~run[p].limited
    BY DEF Catalog!Complete
  <1> HIDE DEF complete
  <1>6. /\ manifest' \in Catalog!Manifest /\ Catalog!HasManifest'
        /\ manifest'.complete = complete /\ manifest'.lang = run[p].lang
        /\ manifest'.files = files /\ manifest'.failures = run[p].failures
    BY <1>1, <1>2, <1>3, <1>4, ManifestFacts
  <1>7. /\ r.phase = "mark" /\ r.overwrite = run[p].overwrite /\ r.lang = run[p].lang
        /\ r.limited = run[p].limited /\ r.failures = run[p].failures
        /\ CatalogRun(r)
    BY <1>1, <1>2 DEF CatalogRun, Catalog!Phases
  <1> HIDE DEF r
  <1>8. \A q \in Process : CatalogRun(run'[q]) /\ run'[q] = r
    BY <1>2, <1>7
  <1>9. \A q \in Process : CatalogVisited(run[q])'
    BY <1>7, <1>8 DEF CatalogVisited
  <1>10. \A q \in Process : CatalogOpened(run[q])'
    <2>1. Catalog!Complete(run'[p]) <=> complete
      BY <1>5, <1>7, <1>8 DEF Catalog!Complete
    <2>2. Catalog!Complete(run'[p]) \in BOOLEAN
      BY DEF Catalog!Complete
    <2>3. manifest'.complete = Catalog!Complete(run'[p])
      BY <1>4, <1>6, <2>1, <2>2
    <2> QED
      BY <1>2, <1>6, <1>7, <1>8, <2>3 DEF CatalogOpened
  <1>11. ASSUME LeftAlone'
         PROVE  CompleteIsTrue' /\ LanguageIsKept'
    <2>1. /\ ~success /\ ~run[p].overwrite
          /\ \A q \in Catalog!Path : disk[q] \in Catalog!Readable \cup {Absent}
          /\ LanguageIsKept /\ Catalog!HasManifest
      BY <1>1, <1>2, <1>11, WhileItRuns DEF LeftAlone, CatalogOpened
    <2>2. \A q \in Catalog!Path : disk[q] # Absent => q \in DOMAIN files
      BY <1>3, <2>1 DEF CatalogConstants
    <2>3. /\ disk["tree"] \in Catalog!TreePayload
          /\ complete => disk["tree"].categories \subseteq DOMAIN files
      BY <1>1, <1>2, <1>3, <1>5 DEF CatalogVisited
    <2>4. CompleteIsTrue'
      BY <1>1, <1>2, <1>3, <1>5, <1>6, <1>7, <2>1, <2>2, <2>3 DEF CompleteIsTrue
    <2>5. LanguageIsKept'
      BY <1>1, <1>2, <1>6, <1>7, <2>1 DEF LanguageIsKept
    <2> QED
      BY <2>4, <2>5
  <1>12. CatalogDisk'
    BY <1>1, <1>6 DEF CatalogInvariant, CatalogDisk
  <1> QED
    BY <1>1, <1>2, <1>8, <1>9, <1>10, <1>11, <1>12 DEF CatalogInvariant, CatalogCounts, CatalogRun

LEMMA MarkStep ==
    ASSUME CatalogConstants, CatalogInvariant, NEW p \in Process, Catalog!Mark(p)
    PROVE  CatalogInvariant'
  <1>1. /\ run[p].phase = "mark" /\ success' = Catalog!Complete(run[p])
        /\ run' = [run EXCEPT ![p] = Catalog!Idle]
        /\ UNCHANGED << disk, manifest, litter, used >>
    BY DEF Catalog!Mark
  <1>2. /\ run' = [q \in Process |-> run'[q]]
        /\ \A q \in Process : q = p /\ run'[q] = Catalog!Idle
        /\ CatalogOpened(run[p])
    BY <1>1, TheRun
  <1>3. Catalog!HasManifest /\ success' = manifest.complete /\ success' \in BOOLEAN
    BY <1>1, <1>2 DEF CatalogOpened, Catalog!Complete
  <1>4. \A q \in Process : (CatalogRun(run[q]) /\ CatalogVisited(run[q]) /\ CatalogOpened(run[q]))'
    BY <1>2, IdleFacts DEF CatalogRun, CatalogVisited, CatalogOpened
  <1>5. ASSUME LeftAlone'
        PROVE  CompleteIsTrue' /\ LanguageIsKept'
    <2>1. CompleteIsTrue /\ LanguageIsKept
      BY <1>1, <1>5 DEF CatalogInvariant, LeftAlone
    <2>2. CompleteIsTrue'
      BY <1>1, <1>2, <1>3, <2>1, IdleFacts DEF CompleteIsTrue, Catalog!HasManifest, Catalog!Quiet
    <2>3. LanguageIsKept'
      BY <1>1, <1>2, <2>1, IdleFacts DEF LanguageIsKept, Catalog!HasManifest
    <2> QED
      BY <2>2, <2>3
  <1>6. CatalogDisk'
    BY <1>1, <1>3 DEF CatalogInvariant, CatalogDisk
  <1> QED
    BY <1>1, <1>2, <1>4, <1>5, <1>6 DEF CatalogInvariant, CatalogCounts

\* Hands on the files, between runs.
LEMMA HandsStep ==
    ASSUME CatalogConstants, CatalogInvariant,
           \/ \E c \in Category, content \in Catalog!Forgeries : Catalog!Tamper(c, content)
           \/ \E what \in {NoManifest, Unreadable} : Catalog!LoseManifest(what)
    PROVE  CatalogInvariant'
  <1>1. /\ Catalog!Quiet /\ Catalog!Count("tamper") /\ UNCHANGED << success, litter, run >>
    BY DEF Catalog!Tamper, Catalog!LoseManifest
  <1>2. CatalogCounts' /\ ~LeftAlone' /\ used'.kill = used.kill
    BY <1>1, CatalogCountsUp DEF CatalogInvariant, LeftAlone
  <1>3. CatalogDisk'
    <2>1. ASSUME NEW c \in Category, NEW content \in Catalog!Forgeries,
                 Catalog!Tamper(c, content)
          PROVE  CatalogDisk'
      <3>1. content \in Catalog!Readable \cup Catalog!Unusable
        BY DEF Catalog!Forgeries, Catalog!Readable, Catalog!Payload
      <3> QED
        BY <2>1, <3>1 DEF Catalog!Tamper, CatalogInvariant, CatalogDisk, Catalog!Path,
                          CatalogConstants
    <2>2. ASSUME NEW what \in {NoManifest, Unreadable}, Catalog!LoseManifest(what)
          PROVE  CatalogDisk'
      BY <2>2 DEF Catalog!LoseManifest, CatalogInvariant, CatalogDisk
    <2> QED
      BY <2>1, <2>2
  <1>4. \A q \in Process : run'[q] = run[q] /\ run[q].phase = "idle" /\ CatalogRun(run[q])
    BY <1>1 DEF Catalog!Quiet, CatalogInvariant
  <1>5. \A q \in Process : (CatalogRun(run[q]) /\ CatalogVisited(run[q]) /\ CatalogOpened(run[q]))'
    BY <1>4 DEF CatalogRun, CatalogVisited, CatalogOpened
  <1> QED
    BY <1>1, <1>2, <1>3, <1>5 DEF CatalogInvariant

LEMMA CatalogStep ==
    ASSUME CatalogConstants, CatalogInvariant, [Catalog!Next]_(Catalog!vars)
    PROVE  CatalogInvariant'
  <1>1. ASSUME NEW p \in Process, Catalog!TreeFails(p)
        PROVE  CatalogInvariant'
    <2>1. CatalogCounts' /\ (LeftAlone' => LeftAlone) /\ used'.kill = used.kill
      BY <1>1, CatalogCountsUp DEF Catalog!TreeFails, CatalogInvariant, LeftAlone
    <2> QED
      BY <1>1, <2>1, RunEnds DEF Catalog!TreeFails, Catalog!partition, CatalogInvariant,
                                 CatalogDisk
  <1>2. ASSUME NEW p \in Process, Catalog!Crash(p)
        PROVE  CatalogInvariant'
    <2>1. CatalogCounts' /\ (LeftAlone' => LeftAlone) /\ used'.kill = used.kill
      BY <1>2, CatalogCountsUp DEF Catalog!Crash, CatalogInvariant, LeftAlone
    <2> QED
      BY <1>2, <2>1, RunEnds DEF Catalog!Crash, Catalog!partition, CatalogInvariant,
                                 CatalogDisk
  <1>3. ASSUME NEW p \in Process, Catalog!Kill(p)
        PROVE  CatalogInvariant'
    <2>1. CatalogCounts' /\ (LeftAlone' => LeftAlone) /\ used'.kill # 0
      BY <1>3, CatalogCountsUp DEF Catalog!Kill, CatalogInvariant, LeftAlone
    <2> QED
      BY <1>3, <2>1, RunEnds DEF Catalog!Kill
  <1>4. ASSUME UNCHANGED Catalog!vars
        PROVE  CatalogInvariant'
    <2>1. UNCHANGED << disk, manifest, success, litter, run, used >>
      BY <1>4 DEF Catalog!vars, Catalog!partition
    <2>2. CatalogCounts' /\ CatalogDisk' /\ LeftAlone' = LeftAlone
      BY <2>1 DEF CatalogInvariant, CatalogCounts, CatalogDisk, LeftAlone
    <2>3. \A q \in Process : (CatalogRun(run[q]) /\ CatalogVisited(run[q]) /\ CatalogOpened(run[q]))'
      BY <2>1 DEF CatalogInvariant, CatalogRun, CatalogVisited, CatalogOpened, Sealed,
                  Catalog!HasManifest
    <2>4. LeftAlone => CompleteIsTrue' /\ LanguageIsKept'
      BY <2>1 DEF CatalogInvariant, CompleteIsTrue, LanguageIsKept, Catalog!HasManifest,
                  Catalog!Quiet
    <2> QED
      BY <2>1, <2>2, <2>3, <2>4 DEF CatalogInvariant
  <1> QED
    BY <1>1, <1>2, <1>3, <1>4, StartStep, FetchTreeStep, PreliminaryStep, UnmarkStep, ReuseStep,
       DownloadStep, CategoryFailsStep, FinalStep, MarkStep, HandsStep
       DEF Catalog!Next, Catalog!Step

\* The catalogue's partition, as its inductive invariant has it: what a run keeps
\* of its files is what lies on disk, and a complete manifest describes it
\* (extract.py, partition.py of mercadona-catalog-source).
THEOREM CatalogInvariantHolds ==
    ASSUME CatalogConstants
    PROVE  Catalog!Spec => []CatalogInvariant
  <1>1. Catalog!Init => CatalogInvariant
    BY CatalogStart
  <1>2. CatalogInvariant /\ [Catalog!Next]_(Catalog!vars) => CatalogInvariant'
    BY CatalogStep
  <1> QED
    BY <1>1, <1>2, PTL DEF Catalog!Spec

\* CONTRACT.md 4, 6, 10, 14 of the catalogue: whatever failed, died or was limited
\* before, a partition under _SUCCESS passes its own validation when no run is
\* active, and all its files are in one language; as long as nobody overwrites the
\* partition or touches its files (nor, for the sweep of the validation, is killed
\* inside a write).
THEOREM CatalogIsValid ==
    ASSUME CatalogConstants
    PROVE  Catalog!Spec => [](LeftAlone => /\ used.kill = 0 => Catalog!SuccessIsValid
                                           /\ Catalog!OneLanguage)
  <1>1. ASSUME CatalogInvariant, LeftAlone, used.kill = 0
        PROVE  Catalog!SuccessIsValid
    BY <1>1 DEF CatalogInvariant, CatalogDisk, CompleteIsTrue, Catalog!SuccessIsValid,
                Catalog!Valid, Catalog!DeclaredFilesMatch, Catalog!NoOrphans, Catalog!Coverage
  <1>2. ASSUME CatalogInvariant, LeftAlone
        PROVE  Catalog!OneLanguage
    <2> SUFFICES ASSUME NEW p \in Catalog!Path, NEW q \in Catalog!Path,
                        disk[p] \notin Catalog!Unusable, disk[q] \notin Catalog!Unusable
                 PROVE  disk[p].lang = disk[q].lang
      BY DEF Catalog!OneLanguage
    <2> QED
      BY <1>2 DEF CatalogInvariant, LanguageIsKept, Catalog!Path, Catalog!Unusable
  <1>3. CatalogInvariant
          => (LeftAlone => /\ used.kill = 0 => Catalog!SuccessIsValid
                           /\ Catalog!OneLanguage)
    BY <1>1, <1>2
  <1> QED
    BY <1>3, CatalogInvariantHolds, PTL

\* A run that does not overwrite found no sealed partition, or is about to mark one.
LEMMA CatalogStaysComplete ==
    ASSUME CatalogInvariant, Catalog!Next
    PROVE  Catalog!LeavesComplete
  <1> SUFFICES ASSUME Sealed, \A p \in Process : ~run[p].overwrite,
                      used'.tamper = used.tamper
               PROVE  UNCHANGED << disk, manifest, litter >>
    BY DEF Catalog!LeavesComplete, Sealed
  <1>1. \A p \in Process : run[p].phase \in {"idle", "mark"}
    BY DEF CatalogInvariant, CatalogRun, CatalogOpened, Sealed, Catalog!Phases
  <1>2. ~Catalog!Count("tamper")
    BY CatalogCountsUp DEF CatalogInvariant
  <1> QED
    BY <1>1, <1>2
       DEF Catalog!Next, Catalog!Step, Catalog!Start, Catalog!TreeFails, Catalog!FetchTree,
           Catalog!Preliminary, Catalog!Unmark, Catalog!Reuse, Catalog!Download,
           Catalog!CategoryFails, Catalog!Visiting, Catalog!Final, Catalog!Mark,
           Catalog!Crash, Catalog!Kill, Catalog!Tamper, Catalog!LoseManifest,
           Catalog!partition

\* Only the last manifest ends the visits, and its inventory is of what can be read.
LEMMA CatalogDescribes ==
    ASSUME CatalogConstants, CatalogInvariant, Catalog!Next
    PROVE  Catalog!CompletesWithTheDisk
  <1> SUFFICES ASSUME NEW p \in Process, run[p].phase = "catalog", run'[p].phase = "mark",
                      NEW q \in Catalog!Path, disk[q] \in Catalog!Readable
               PROVE  q \in DOMAIN manifest'.files /\ manifest'.files[q] = disk[q]
    BY DEF Catalog!CompletesWithTheDisk
  <1>1. Catalog!Final(p)
    <2>1. \A r : run' = [run EXCEPT ![p] = r] => run'[p] = r
      BY TheRun
    <2>2. \A c, content, failures :
            Catalog!Visited(p, c, content, failures) => run'[p].phase = run[p].phase
      <3> SUFFICES ASSUME NEW c, NEW content, NEW failures,
                          Catalog!Visited(p, c, content, failures)
                   PROVE  run'[p].phase = run[p].phase
        OBVIOUS
      <3>1. CatalogRun(run[p])
        BY DEF CatalogInvariant
      <3> QED
        BY <2>1, <3>1 DEF Catalog!Visited, CatalogRun
    <2>3. \/ run[p].phase \in {"idle", "tree", "preliminary", "unmark", "mark"}
          \/ run'[p] = Catalog!Idle \/ run' = run
          \/ \E c, content, failures : Catalog!Visited(p, c, content, failures)
          \/ Catalog!Final(p)
      <3>1. ASSUME NEW c \in Category, \/ Catalog!Reuse(p, c) \/ Catalog!CategoryFails(p, c)
                                      \/ \E v \in Version : Catalog!Download(p, c, v)
            PROVE  \E content, failures : Catalog!Visited(p, c, content, failures)
        BY <3>1 DEF Catalog!Reuse, Catalog!CategoryFails, Catalog!Download
      <3>2. ASSUME \/ Catalog!Preliminary(p) \/ Catalog!Unmark(p) \/ Catalog!Mark(p)
                   \/ Catalog!TreeFails(p)
            PROVE  run[p].phase \in {"tree", "preliminary", "unmark", "mark"}
        BY <3>2 DEF Catalog!Preliminary, Catalog!Unmark, Catalog!Mark, Catalog!TreeFails
      <3>3. \A S, T : Catalog!FetchTree(p, S, T) => run[p].phase = "tree"
        BY DEF Catalog!FetchTree
      <3>4. \A lang, overwrite, limited :
              Catalog!Start(p, lang, overwrite, limited) => run[p].phase = "idle"
        BY DEF Catalog!Start
      <3>5. Catalog!Crash(p) \/ Catalog!Kill(p) => run'[p] = Catalog!Idle
        BY <2>1 DEF Catalog!Crash, Catalog!Kill
      <3>6. \A c, content : Catalog!Tamper(c, content) => run' = run
        BY DEF Catalog!Tamper
      <3>7. \A what : Catalog!LoseManifest(what) => run' = run
        BY DEF Catalog!LoseManifest
      <3>8. \A x \in Process : x = p
        BY DEF CatalogConstants
      <3> QED
        <4>1. \/ \E lang, overwrite, limited : Catalog!Start(p, lang, overwrite, limited)
              \/ \E S, T : Catalog!FetchTree(p, S, T)
              \/ \/ Catalog!Preliminary(p) \/ Catalog!Unmark(p) \/ Catalog!Mark(p)
                 \/ Catalog!TreeFails(p)
              \/ \E c \in Category : \/ Catalog!Reuse(p, c) \/ Catalog!CategoryFails(p, c)
                                     \/ \E v \in Version : Catalog!Download(p, c, v)
              \/ Catalog!Final(p)
              \/ Catalog!Crash(p) \/ Catalog!Kill(p)
              \/ \E c, content : Catalog!Tamper(c, content)
              \/ \E what : Catalog!LoseManifest(what)
          BY <3>8 DEF Catalog!Next, Catalog!Step
        <4>2. CASE \E lang, overwrite, limited : Catalog!Start(p, lang, overwrite, limited)
          BY <3>4, <4>2, Zenon
        <4>3. CASE \E S, T : Catalog!FetchTree(p, S, T)
          BY <3>3, <4>3, Zenon
        <4>4. CASE \/ Catalog!Preliminary(p) \/ Catalog!Unmark(p) \/ Catalog!Mark(p)
                   \/ Catalog!TreeFails(p)
          BY <3>2, <4>4
        <4>5. CASE \E c \in Category : \/ Catalog!Reuse(p, c) \/ Catalog!CategoryFails(p, c)
                                       \/ \E v \in Version : Catalog!Download(p, c, v)
          BY <3>1, <4>5, Zenon
        <4>6. CASE Catalog!Crash(p) \/ Catalog!Kill(p)
          BY <3>5, <4>6, Zenon
        <4>7. CASE \E c, content : Catalog!Tamper(c, content)
          BY <3>6, <4>7, Zenon
        <4>8. CASE \E what : Catalog!LoseManifest(what)
          BY <3>7, <4>8, Zenon
        <4> QED
          BY <4>1, <4>2, <4>3, <4>4, <4>5, <4>6, <4>7, <4>8, Zenon
    <2> QED
      BY <2>2, <2>3, IdleFacts
  <1>2. manifest'.files = Catalog!Inventory(run[p].files)
    BY <1>1 DEF Catalog!Final, Catalog!ManifestOf
  <1>3. disk[q] \notin Catalog!Unusable
    BY DEF CatalogConstants
  <1> QED
    BY <1>2, <1>3, InventoryFacts

\* CONTRACT.md 4 and 5 of the catalogue, with hands on the files and deaths inside
\* a write: a complete partition is written by nobody but a run with --overwrite,
\* and the manifest of a run that gets to its end declares every file that can be
\* read as it is at that moment.
THEOREM CatalogSteps ==
    ASSUME CatalogConstants
    PROVE  Catalog!Spec => Catalog!Immutable /\ Catalog!DescribesDisk
  <1>3. CatalogInvariant /\ [Catalog!Next]_(Catalog!vars)
          => /\ [Catalog!LeavesComplete]_(Catalog!vars)
             /\ [Catalog!CompletesWithTheDisk]_(Catalog!vars)
    BY CatalogStaysComplete, CatalogDescribes
  <1> QED
    BY <1>3, CatalogInvariantHolds, PTL
       DEF Catalog!Spec, Catalog!Immutable, Catalog!DescribesDisk

-----------------------------------------------------------------------------
(* The four side by side.                                                   *)

\* The variables of the three partitions whose invariants above say less of them
\* than their shape.
LEMMA GeneratedTypes ==
    ASSUME GeneratedInvariant, GeneratedInvariant', Generated!TypeOK,
           [Generated!Next]_(Generated!vars)
    PROVE  Generated!TypeOK'
  <1>1. GeneratedRun /\ GeneratedRun'
    BY DEF GeneratedInvariant
  <1>2. /\ events' \in Generated!Inputs \cup {Absent}
        /\ success' \in BOOLEAN
        /\ declared' \subseteq Generated!Inputs
    BY <1>1
       DEF Generated!TypeOK, GeneratedRun, Generated!Next, Generated!vars, Generated!partition,
           Generated!Export, Generated!Start, Generated!Refuse, Generated!WriteData,
           Generated!WriteManifest, Generated!Mark, Generated!Crash, Generated!LoseManifest
  <1> QED
    BY <1>1, <1>2 DEF Generated!TypeOK, GeneratedRun

\* What the last manifest of a run declares is tables and versions.
LEMMA InventoryShape ==
    ASSUME PopulationInvariant, Population!Final
    PROVE  Population!Inventory \in UNION {[S -> Version] : S \in SUBSET Table}
  <1>1. /\ DOMAIN run.files \in SUBSET Table
        /\ \A t \in DOMAIN run.files : run.files[t] \in Version
    BY DEF PopulationInvariant, VisitedTables, PopulationFiles, Population!Final
  <1> DEFINE found == {t \in Table \ DOMAIN run.files : disk[t] \in Version}
             S == DOMAIN run.files \cup found
  <1>2. Population!Inventory = [t \in S |-> IF t \in found THEN disk[t] ELSE run.files[t]]
    BY DEF Population!Inventory
  <1>3. \A t \in S : (IF t \in found THEN disk[t] ELSE run.files[t]) \in Version
    BY <1>1
  <1>4. S \in SUBSET Table
    BY <1>1
  <1> HIDE DEF found, S
  <1>5. Population!Inventory \in [S -> Version]
    BY <1>2, <1>3
  <1> QED
    BY <1>4, <1>5

LEMMA PopulationTypes ==
    ASSUME PopulationInvariant, PopulationInvariant', Population!TypeOK,
           [Population!Next]_(Population!vars)
    PROVE  Population!TypeOK'
  <1> USE DEF Population!TypeOK
  <1>1. success' \in BOOLEAN
    BY DEF Population!Next, Population!vars, Population!partition, Population!Start,
           Population!Preliminary, Population!Unmark, Population!Reuse, Population!Download,
           Population!TableFails, Population!Final, Population!Mark, Population!Crash,
           Population!Damage
  <1>2. manifest' \in Population!Manifest \cup {NoManifest}
    <2>1. CASE Population!Preliminary
      <3>1. Population!NoFiles \in UNION {[S -> Version] : S \in SUBSET Table}
        <4>1. Population!NoFiles \in [{} -> Version]
          BY DEF Population!NoFiles
        <4> QED
          BY <4>1
      <3> HIDE DEF Population!TypeOK
      <3>2. run.tables \in SUBSET Table /\ run.failures \in SUBSET Table
        BY DEF PopulationInvariant, PopulationShape
      <3> QED
        BY <2>1, <3>1, <3>2
           DEF Population!Preliminary, Population!ManifestOf, Population!Manifest
    <2>2. CASE Population!Final
      <3> HIDE DEF Population!TypeOK
      <3>1. run.tables \in SUBSET Table /\ run.failures \in SUBSET Table
        BY DEF PopulationInvariant, PopulationShape
      <3> QED
        BY <2>2, <3>1, InventoryShape
           DEF Population!Final, Population!ManifestOf, Population!Manifest
    <2>3. CASE ~Population!Preliminary /\ ~Population!Final
      BY <2>3
         DEF Population!Next, Population!vars, Population!partition, Population!Start,
             Population!Unmark, Population!Reuse, Population!Download, Population!TableFails,
             Population!Mark, Population!Crash, Population!Damage
    <2> QED
      BY <2>1, <2>2, <2>3
  <1> QED
    BY <1>1, <1>2 DEF PopulationInvariant, PopulationShape, PopulationPhases

LEMMA StreetsTypes ==
    ASSUME StreetsInvariant, StreetsInvariant', Streets!TypeOK, [Streets!Next]_(Streets!vars)
    PROVE  Streets!TypeOK'
  <1> USE DEF Streets!TypeOK
  <1>1. success' \in BOOLEAN
    BY DEF Streets!Next, Streets!Step, Streets!vars, Streets!partition, Streets!Start,
           Streets!Preliminary, Streets!Unmark, Streets!Reuse, Streets!Copy, Streets!Refuse,
           Streets!Final, Streets!Mark, Streets!Crash, Streets!Refresh
  <1>2. manifest' # NoManifest => DOMAIN manifest'.files \subseteq Streets!Path
    <2>1. CASE Streets!Preliminary
      <3>1. run.files = Streets!NoFiles
        BY <2>1 DEF StreetsInvariant, VisitedStreets, Streets!Preliminary
      <3> QED
        BY <2>1, <3>1 DEF Streets!Preliminary, Streets!ManifestOf, Streets!NoFiles
    <2>2. CASE Streets!Final
      <3>1. DOMAIN run.files \subseteq Streets!Path
        BY <2>2 DEF StreetsInvariant, VisitedStreets, StreetsFiles, Streets!Final
      <3> QED
        BY <2>2, <3>1 DEF Streets!Final, Streets!ManifestOf
    <2>3. CASE ~Streets!Preliminary /\ ~Streets!Final
      BY <2>3
         DEF Streets!Next, Streets!Step, Streets!vars, Streets!partition, Streets!Start,
             Streets!Unmark, Streets!Reuse, Streets!Copy, Streets!Refuse, Streets!Mark,
             Streets!Crash, Streets!Refresh
    <2> QED
      BY <2>1, <2>2, <2>3
  <1> QED
    BY <1>1, <1>2 DEF StreetsInvariant, StreetsShape, StreetsPhases

LEMMA CatalogTypes ==
    ASSUME CatalogConstants, CatalogInvariant
    PROVE  Catalog!TypeOK
  <1>1. CatalogDisk /\ \A p \in Process : CatalogRun(run[p])
    BY DEF CatalogInvariant
  <1>2. manifest \in {NoManifest, Unreadable}
          \/ (Catalog!HasManifest /\ DOMAIN manifest.files \subseteq Catalog!Path)
    <2>1. ASSUME manifest \in Catalog!Manifest
          PROVE  DOMAIN manifest.files \subseteq Catalog!Path
      <3>1. manifest.files \in Catalog!FileList
        BY <2>1 DEF Catalog!Manifest
      <3> QED
        BY <3>1 DEF Catalog!FileList
    <2> QED
      BY <1>1, <2>1 DEF CatalogDisk, Catalog!HasManifest
  <1>3. \A p \in Catalog!Path : disk[p] \in Catalog!Readable \cup Catalog!Unusable
    BY <1>1 DEF CatalogDisk
  <1> QED
    BY <1>1, <1>2, <1>3 DEF Catalog!TypeOK, CatalogDisk, CatalogRun, CatalogFiles

\* A behaviour stays with the program it is about.
LEMMA EachStarts ==
    ASSUME Init
    PROVE  /\ moves = "generated" => Generated!Init
           /\ moves = "catalog" => Catalog!Init
           /\ moves = "population" => Population!Init
           /\ moves = "streets" => Streets!Init
  BY DEF Init

LEMMA EachMoves ==
    ASSUME [Next]_vars
    PROVE  /\ moves' = moves
           /\ moves = "generated" => [Generated!Next]_(Generated!vars)
           /\ moves = "catalog" => [Catalog!Next]_(Catalog!vars)
           /\ moves = "population" => [Population!Next]_(Population!vars)
           /\ moves = "streets" => [Streets!Next]_(Streets!vars)
  <1>1. CASE Next
    BY <1>1 DEF Next
  <1>2. CASE UNCHANGED vars
    BY <1>2
       DEF vars, generated, Generated!vars, Generated!partition, Catalog!vars,
           Catalog!partition, Population!vars, Population!partition, Streets!vars,
           Streets!partition
  <1> QED
    BY <1>1, <1>2

SourcesInvariant ==
    /\ moves = "generated" => GeneratedInvariant /\ Generated!TypeOK
    /\ moves = "catalog" => CatalogInvariant
    /\ moves = "population" => PopulationInvariant /\ Population!TypeOK
    /\ moves = "streets" => StreetsInvariant /\ Streets!TypeOK

\* The inductive invariants of the four extract.py, each for the behaviours that
\* are about its program.
THEOREM SourcesInvariantHolds ==
    ASSUME Hypotheses
    PROVE  Spec => []SourcesInvariant
  <1>1. ASSUME Init
        PROVE  SourcesInvariant
    <2>1. ASSUME Generated!Init
          PROVE  Generated!TypeOK
      <3>1. GeneratedRun
        BY <2>1, GeneratedStart DEF GeneratedInvariant
      <3> QED
        BY <2>1, <3>1 DEF Generated!Init, Generated!TypeOK, GeneratedRun
    <2>2. ASSUME Population!Init
          PROVE  Population!TypeOK
      <3>1. PopulationShape
        BY <2>2, PopulationStart DEF PopulationInvariant
      <3> QED
        BY <2>2, <3>1
           DEF Population!Init, Population!TypeOK, PopulationShape, PopulationPhases
    <2>3. ASSUME Streets!Init
          PROVE  Streets!TypeOK
      <3>1. StreetsShape
        BY <2>3, StreetsStart DEF StreetsInvariant
      <3> QED
        BY <2>3, <3>1 DEF Streets!Init, Streets!TypeOK, StreetsShape, StreetsPhases
    <2> QED
      BY <1>1, <2>1, <2>2, <2>3, EachStarts, GeneratedStart, CatalogStart, PopulationStart,
         StreetsStart
         DEF SourcesInvariant, Hypotheses
  <1>2. ASSUME SourcesInvariant, [Next]_vars
        PROVE  SourcesInvariant'
    <2>1. CASE moves = "generated"
      BY <1>2, <2>1, EachMoves, GeneratedStep, GeneratedTypes DEF SourcesInvariant, Hypotheses
    <2>2. CASE moves = "catalog"
      BY <1>2, <2>2, EachMoves, CatalogStep DEF SourcesInvariant, Hypotheses
    <2>3. CASE moves = "population"
      BY <1>2, <2>3, EachMoves, PopulationStep, PopulationTypes DEF SourcesInvariant
    <2>4. CASE moves = "streets"
      BY <1>2, <2>4, EachMoves, StreetsStep, StreetsTypes DEF SourcesInvariant
    <2>5. CASE moves \notin {"generated", "catalog", "population", "streets"}
      BY <1>2, <2>5, EachMoves DEF SourcesInvariant
    <2> QED
      BY <2>1, <2>2, <2>3, <2>4, <2>5
  <1> QED
    BY <1>1, <1>2, PTL DEF Spec

\* CONTRACT.md of the four sources: what one of them announces complete, to all who
\* wait for _SUCCESS, passes its own validate.py, however many runs failed, died
\* between or inside two writes or were limited over the same files before.
THEOREM AnnouncedIsAlwaysValid ==
    ASSUME Hypotheses, OneOfEach
    PROVE  Spec => []AnnouncedIsValid
  <1>1. ASSUME SourcesInvariant
        PROVE  AnnouncedIsValid
    <2>1. TypeOK
      BY <1>1, CatalogTypes DEF SourcesInvariant, TypeOK, Hypotheses
    <2>2. moves = "generated" => Generated!AnnouncedIsWhole
      BY <1>1 DEF SourcesInvariant, GeneratedInvariant
    <2>3. moves = "catalog" /\ LeftAlone /\ used.kill = 0 => Catalog!SuccessIsValid
      BY <1>1 DEF SourcesInvariant, CatalogInvariant, CatalogDisk, CompleteIsTrue,
                  Catalog!SuccessIsValid, Catalog!Valid, Catalog!DeclaredFilesMatch,
                  Catalog!NoOrphans, Catalog!Coverage
    <2>4. moves = "population" => Population!CompleteIsValid
      BY <1>1 DEF SourcesInvariant, PopulationInvariant, PopulationIsDeclared,
                  Population!CompleteIsValid, Population!Valid
    <2>5. moves = "streets" => Streets!CompleteIsValid
      BY <1>1 DEF SourcesInvariant, StreetsInvariant, StreetsAreDeclared,
                  Streets!CompleteIsValid, Streets!Valid
    <2> QED
      BY <2>1, <2>2, <2>3, <2>4, <2>5 DEF AnnouncedIsValid
  <1> QED
    BY <1>1, SourcesInvariantHolds, PTL

\* --lang of the catalogue and build_history of the simulated orders: what a
\* manifest says of its partition is true of every file, however it was resumed,
\* and of every run that ever announced it.
THEOREM ManifestIsAlwaysTrue ==
    ASSUME Hypotheses
    PROVE  Spec => []ManifestIsTrue
  <1>1. ASSUME SourcesInvariant
        PROVE  ManifestIsTrue
    <2>1. moves = "catalog" /\ LeftAlone => Catalog!OneLanguage
      BY <1>1 DEF SourcesInvariant, CatalogInvariant, LanguageIsKept, Catalog!OneLanguage,
                  Catalog!Path, Catalog!Unusable
    <2>2. moves = "generated" => Generated!SwapsLeaveATrace
      BY <1>1 DEF SourcesInvariant, GeneratedInvariant
    <2> QED
      BY <2>1, <2>2 DEF ManifestIsTrue
  <1> QED
    BY <1>1, SourcesInvariantHolds, PTL

\* assert_writable of the three programs that have one: a complete partition is
\* written by nobody but a run with --overwrite, its manifest lost or not.
THEOREM CompleteIsAlwaysLeftAlone ==
    ASSUME Hypotheses
    PROVE  Spec => CompleteIsLeftAlone
  <1>1. ASSUME SourcesInvariant, Next
        PROVE  /\ moves = "generated" => Generated!LeavesAnnounced
               /\ moves = "catalog" => Catalog!LeavesComplete
               /\ moves = "population" => Population!LeavesComplete
    <2>1. moves = "generated" => Generated!LeavesAnnounced
      BY <1>1, GeneratedStaysAnnounced DEF SourcesInvariant, Next
    <2>2. moves = "catalog" => Catalog!LeavesComplete
      BY <1>1, CatalogStaysComplete DEF SourcesInvariant, Next, Hypotheses
    <2>3. moves = "population" => Population!LeavesComplete
      BY <1>1, PopulationStaysComplete DEF SourcesInvariant, Next
    <2> QED
      BY <2>1, <2>2, <2>3
  <1>2. SourcesInvariant /\ [Next]_vars
          => [/\ moves = "generated" => Generated!LeavesAnnounced
              /\ moves = "catalog" => Catalog!LeavesComplete
              /\ moves = "population" => Population!LeavesComplete]_vars
    BY <1>1
  <1> QED
    BY <1>2, SourcesInvariantHolds, PTL DEF Spec, CompleteIsLeftAlone

\* build_manifest, reusable_document and copy_verbatim: over files that somebody
\* altered, damaged or replaced, a run ends with a manifest of what is on disk,
\* the damage downloaded anew and the divergence refused.
THEOREM DamageIsAlwaysSettled ==
    ASSUME Hypotheses
    PROVE  Spec => DamageIsSettled
  <1>1. ASSUME SourcesInvariant, Next
        PROVE  /\ moves = "catalog" => Catalog!CompletesWithTheDisk
               /\ moves = "population" => Population!EndsRepaired
               /\ moves = "streets" => Streets!Decides
    <2>1. moves = "catalog" => Catalog!CompletesWithTheDisk
      BY <1>1, CatalogDescribes DEF SourcesInvariant, Next, Hypotheses
    <2>2. moves = "population" => Population!EndsRepaired
      BY <1>1, PopulationRepairs DEF SourcesInvariant, Next
    <2>3. moves = "streets" => Streets!Decides
      BY <1>1, StreetsDecide DEF SourcesInvariant, Next
    <2> QED
      BY <2>1, <2>2, <2>3
  <1>2. SourcesInvariant /\ [Next]_vars
          => [/\ moves = "catalog" => Catalog!CompletesWithTheDisk
              /\ moves = "population" => Population!EndsRepaired
              /\ moves = "streets" => Streets!Decides]_vars
    BY <1>1
  <1> QED
    BY <1>2, SourcesInvariantHolds, PTL DEF Spec, DamageIsSettled

=============================================================================
