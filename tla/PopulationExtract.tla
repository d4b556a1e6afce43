------------------------- MODULE PopulationExtract -------------------------
(***************************************************************************)
(* A partition of the INE population source: one file per configured table,*)
(* extract.py, partition.py and validate.py of ine-population-source.      *)
(*                                                                         *)
(* Unlike the catalog (CatalogExtract) nothing is downloaded before the    *)
(* partition has been declared incomplete, and what is to be downloaded is *)
(* asked for, not discovered.  Tables may therefore differ between runs.   *)
(***************************************************************************)
EXTENDS Integers, FiniteSets

CONSTANTS
    Table,         \* table_ids
    Version,       \* what the INE may answer for a table
    Absent,        \* no such file
    Damaged,       \* a file that does not parse or is not in canonical form
    NoManifest,
    MaxOverwrite,  \* bound: runs with --overwrite
    MaxFail,       \* bound: tables that could not be downloaded
    MaxCrash,      \* bound: runs that die between two writes
    MaxDamage      \* bound: files damaged between runs

VARIABLES
    disk,      \* disk[t]: content of tables/table_id=t.json
    manifest,  \* _manifest.json
    success,   \* whether _SUCCESS exists
    run,       \* local variables of extract.run
    used       \* what the bounds count

partition == << disk, manifest, success >>
vars == << partition, run, used >>

NoFiles == [t \in {} |-> Absent]
Idle == [phase |-> "idle", overwrite |-> FALSE, tables |-> {}, previous |-> NoFiles,
         todo |-> {}, files |-> NoFiles, failures |-> {}]
Manifest == [complete : BOOLEAN, tables : SUBSET Table, failures : SUBSET Table,
             files : UNION {[S -> Version] : S \in SUBSET Table}]

Init ==
    /\ disk = [t \in Table |-> Absent]
    /\ manifest = NoManifest
    /\ success = FALSE
    /\ run = Idle
    /\ used = [overwrite |-> 0, fail |-> 0, crash |-> 0, damage |-> 0]

Spend(what, bound) ==
    /\ used[what] < bound
    /\ used' = [used EXCEPT ![what] = @ + 1]

-----------------------------------------------------------------------------
(* extract.run.                                                            *)

\* Mutant of Writable: the previous manifest is not consulted.
WritableMarked(overwrite) == overwrite \/ ~success

\* assert_writable.
Writable(overwrite) ==
    \/ overwrite
    \/ manifest = NoManifest /\ ~success
    \/ manifest # NoManifest /\ ~manifest.complete

Start(overwrite, tables) ==
    /\ run.phase = "idle"
    /\ Writable(overwrite)
    /\ IF overwrite THEN Spend("overwrite", MaxOverwrite) ELSE UNCHANGED used
    /\ run' = [Idle EXCEPT !.phase = "preliminary", !.overwrite = overwrite,
                 !.tables = tables, !.todo = tables,
                 !.previous = IF manifest = NoManifest THEN NoFiles ELSE manifest.files]
    /\ UNCHANGED partition

\* snapshot_manifest.
ManifestOf(files, complete) ==
    [complete |-> complete, tables |-> run.tables, failures |-> run.failures, files |-> files]

Preliminary ==
    /\ run.phase = "preliminary"
    /\ manifest' = ManifestOf(NoFiles, FALSE)
    /\ run' = [run EXCEPT !.phase = "unmark"]
    /\ UNCHANGED << disk, success, used >>

Unmark ==
    /\ run.phase = "unmark"
    /\ success' = FALSE
    /\ run' = [run EXCEPT !.phase = "tables"]
    /\ UNCHANGED << disk, manifest, used >>

\* Mutant of Reusable: a file that exists is taken as it is.
ReusableUnread(t) == ~run.overwrite /\ disk[t] # Absent

\* The file parses, is canonical and is what the previous manifest declared, if
\* it declared it.
Reusable(t) ==
    /\ ~run.overwrite
    /\ disk[t] \in Version
    /\ t \in DOMAIN run.previous => run.previous[t] = disk[t]

Visiting(t) == run.phase = "tables" /\ t \in run.todo

Declared(t, content) ==
    [q \in DOMAIN run.files \union {t} |-> IF q = t THEN content ELSE run.files[q]]

Reuse(t) ==
    /\ Visiting(t)
    /\ Reusable(t)
    /\ run' = [run EXCEPT !.todo = @ \ {t}, !.files = Declared(t, disk[t])]
    /\ UNCHANGED << partition, used >>

Download(t, v) ==
    /\ Visiting(t)
    /\ ~Reusable(t)
    /\ disk' = [disk EXCEPT ![t] = v]
    /\ run' = [run EXCEPT !.todo = @ \ {t}, !.files = Declared(t, v)]
    /\ UNCHANGED << manifest, success, used >>

\* No answer, or one validate_payload rejects.
TableFails(t) ==
    /\ Visiting(t)
    /\ ~Reusable(t)
    /\ Spend("fail", MaxFail)
    /\ run' = [run EXCEPT !.todo = @ \ {t}, !.failures = @ \union {t}]
    /\ UNCHANGED partition

\* Mutant of Inventory: nothing but what the run has visited.
InventoryNone == run.files

\* Files of tables the run was not asked for, or failed to get, declared as they are.
Inventory ==
    LET found == {t \in Table \ DOMAIN run.files : disk[t] \in Version}
    IN  [t \in DOMAIN run.files \union found |-> IF t \in found THEN disk[t] ELSE run.files[t]]

Final ==
    /\ run.phase = "tables"
    /\ run.todo = {}
    /\ manifest' = ManifestOf(Inventory, run.failures = {})
    /\ run' = [run EXCEPT !.phase = "mark"]
    /\ UNCHANGED << disk, success, used >>

\* Mutant of Mark: the run stays in its last phase.
MarkMisnamed ==
    /\ run.phase = "mark"
    /\ success' = (run.failures = {})
    /\ run' = [Idle EXCEPT !.phase = "done"]
    /\ UNCHANGED << disk, manifest, used >>

Mark ==
    /\ run.phase = "mark"
    /\ success' = (run.failures = {})
    /\ run' = Idle
    /\ UNCHANGED << disk, manifest, used >>

Crash ==
    /\ run.phase # "idle"
    /\ Spend("crash", MaxCrash)
    /\ run' = Idle
    /\ UNCHANGED partition

\* Between runs a file is truncated or rewritten with another spelling.
Damage(t) ==
    /\ run.phase = "idle"
    /\ disk[t] \in Version
    /\ Spend("damage", MaxDamage)
    /\ disk' = [disk EXCEPT ![t] = Damaged]
    /\ UNCHANGED << manifest, success, run >>

Next ==
    \/ \E overwrite \in BOOLEAN, tables \in (SUBSET Table) \ {{}} : Start(overwrite, tables)
    \/ Preliminary \/ Unmark \/ Final \/ Mark \/ Crash
    \/ \E t \in Table : Reuse(t) \/ TableFails(t) \/ Damage(t) \/ \E v \in Version : Download(t, v)

Spec == Init /\ [][Next]_vars

-----------------------------------------------------------------------------
(* validate.run.                                                           *)

DeclaredFilesMatch == \A t \in DOMAIN manifest.files : disk[t] = manifest.files[t]
NoOrphans == \A t \in Table : disk[t] # Absent => t \in DOMAIN manifest.files
Coverage == manifest.tables \subseteq DOMAIN manifest.files

Valid ==
    /\ manifest # NoManifest
    /\ DeclaredFilesMatch
    /\ manifest.failures = {}
    /\ NoOrphans
    /\ success = manifest.complete
    /\ Coverage

-----------------------------------------------------------------------------
(* Properties.                                                             *)

\* Every variable keeps its shape.
TypeOK ==
    /\ disk \in [Table -> Version \union {Absent, Damaged}]
    /\ manifest \in Manifest \union {NoManifest}
    /\ success \in BOOLEAN
    /\ run.phase \in {"idle", "preliminary", "unmark", "tables", "mark"}
    /\ run.todo \union run.failures \subseteq run.tables

\* CONTRACT.md 4, 9: a partition whose manifest and _SUCCESS both say it is
\* complete validates, whatever runs with other tables, --overwrite, failures
\* and deaths went before, as long as nobody damaged a file.
CompleteIsValid ==
    /\ run.phase = "idle"
    /\ used.damage = 0
    /\ success
    /\ manifest # NoManifest /\ manifest.complete
    => Valid

\* README, Resume: a run without failures leaves, for every table it was asked
\* for, a file that parses and that its manifest declares: one that was damaged,
\* or differs from what was declared, is downloaded anew.
EndsRepaired ==
    run.phase = "tables" /\ run'.phase = "mark" /\ run.failures = {} =>
        \A t \in run.tables :
            /\ disk[t] \in Version
            /\ t \in DOMAIN manifest'.files
            /\ manifest'.files[t] = disk[t]
DamageIsRepaired == [][EndsRepaired]_vars

\* CONTRACT.md 5: while a partition is complete, only --overwrite changes it; and
\* once a run has taken the seal off, nothing is put back until it has ended.
LeavesComplete ==
    /\ manifest # NoManifest /\ manifest.complete
    /\ ~run.overwrite
    /\ used'.damage = used.damage
    => UNCHANGED << disk, manifest >>
Immutable == [][LeavesComplete]_vars
=============================================================================
