-------------------------- MODULE CallejeroIntake --------------------------
(***************************************************************************)
(* A partition of the INE Callejero source: files somebody downloaded into *)
(* --in, copied verbatim, one per province and dataset (intake.py,         *)
(* partition.py and validate.py of ine-callejero-source).                  *)
(*                                                                         *)
(* The name of a file carries the edition the INE gave it, so two editions *)
(* of one dataset are two paths of the partition.                          *)
(***************************************************************************)
EXTENDS Integers, FiniteSets

CONSTANTS
    Province, Dataset,
    Edition,       \* the D and G dates in a file name
    Content,
    Absent,        \* no such file
    NoManifest,
    MaxOverwrite,  \* bound: runs with --overwrite
    MaxRefresh,    \* bound: changes of --in
    MaxCrash       \* bound: runs that die between two writes

VARIABLES
    inbox,     \* inbox[c]: the file of --in discover_input_files finds for c
    disk,      \* disk[<<c, e>>]: what the partition holds under that name
    manifest,  \* _manifest.json
    success,   \* whether _SUCCESS exists
    run,       \* local variables of intake.run
    used       \* what the bounds count

partition == << disk, manifest, success >>
vars == << inbox, partition, run, used >>

Combination == Province \X Dataset
Path == Combination \X Edition
File == [edition : Edition, content : Content]

NoFiles == [p \in {} |-> Absent]
Idle == [phase |-> "idle", overwrite |-> FALSE, provinces |-> {}, todo |-> {},
         files |-> NoFiles, failures |-> {}]

Init ==
    /\ inbox = [c \in Combination |-> Absent]
    /\ disk = [p \in Path |-> Absent]
    /\ manifest = NoManifest
    /\ success = FALSE
    /\ run = Idle
    /\ used = [overwrite |-> 0, refresh |-> 0, crash |-> 0]

Spend(what, bound) ==
    /\ used[what] < bound
    /\ used' = [used EXCEPT ![what] = @ + 1]

\* Between runs, somebody downloads a file into --in, over another edition of
\* it or not.
Refresh(c, file) ==
    /\ run.phase = "idle"
    /\ inbox[c] # file
    /\ Spend("refresh", MaxRefresh)
    /\ inbox' = [inbox EXCEPT ![c] = file]
    /\ UNCHANGED << partition, run >>

-----------------------------------------------------------------------------
(* intake.run.                                                             *)

\* Mutant of Writable: only the marker counts.
WritableMarked(overwrite) == overwrite \/ ~success

\* assert_writable.
Writable(overwrite) ==
    \/ overwrite
    \/ manifest = NoManifest /\ ~success
    \/ manifest # NoManifest /\ ~manifest.complete

Start(overwrite, provinces) ==
    /\ run.phase = "idle"
    /\ Writable(overwrite)
    /\ IF overwrite THEN Spend("overwrite", MaxOverwrite) ELSE UNCHANGED used
    /\ run' = [Idle EXCEPT !.phase = "preliminary", !.overwrite = overwrite,
                 !.provinces = provinces, !.todo = provinces \X Dataset]
    /\ UNCHANGED << inbox, partition >>

\* snapshot_manifest.
ManifestOf(complete) ==
    [complete |-> complete, provinces |-> run.provinces, files |-> run.files,
     failures |-> run.failures]

Preliminary ==
    /\ run.phase = "preliminary"
    /\ manifest' = ManifestOf(FALSE)
    /\ run' = [run EXCEPT !.phase = "unmark"]
    /\ UNCHANGED << inbox, disk, success, used >>

Unmark ==
    /\ run.phase = "unmark"
    /\ success' = FALSE
    /\ run' = [run EXCEPT !.phase = "copying"]
    /\ UNCHANGED << inbox, disk, manifest, used >>

Visiting(c) == run.phase = "copying" /\ c \in run.todo
Target(c) == << c, inbox[c].edition >>
Landed(c) == disk[Target(c)] # Absent /\ ~run.overwrite

Declared(p, content) ==
    [q \in DOMAIN run.files \union {p} |-> IF q = p THEN content ELSE run.files[q]]

\* What landed before is still what --in holds.
Reuse(c) ==
    /\ Visiting(c)
    /\ inbox[c] # Absent
    /\ Landed(c)
    /\ disk[Target(c)] = inbox[c].content
    /\ run' = [run EXCEPT !.todo = @ \ {c}, !.files = Declared(Target(c), disk[Target(c)])]
    /\ UNCHANGED << inbox, partition, used >>

\* Mutant of Copy: what landed before is replaced by what --in holds.
CopyOver(c) ==
    /\ Visiting(c)
    /\ inbox[c] # Absent
    /\ disk' = [disk EXCEPT ![Target(c)] = inbox[c].content]
    /\ run' = [run EXCEPT !.todo = @ \ {c}, !.files = Declared(Target(c), inbox[c].content)]
    /\ UNCHANGED << inbox, manifest, success, used >>

\* copy_verbatim.
Copy(c) ==
    /\ Visiting(c)
    /\ inbox[c] # Absent
    /\ ~Landed(c)
    /\ disk' = [disk EXCEPT ![Target(c)] = inbox[c].content]
    /\ run' = [run EXCEPT !.todo = @ \ {c}, !.files = Declared(Target(c), inbox[c].content)]
    /\ UNCHANGED << inbox, manifest, success, used >>

\* Mutant of Refuse: a landed file that differs is skipped in silence.
RefuseSilently(c) ==
    /\ Visiting(c)
    /\ inbox[c] # Absent => Landed(c) /\ disk[Target(c)] # inbox[c].content
    /\ run' = [run EXCEPT !.todo = @ \ {c}]
    /\ UNCHANGED << inbox, partition, used >>

\* Mutant of Refuse: a file that landed before is always refused.
RefuseForEver(c) ==
    /\ Visiting(c)
    /\ inbox[c] # Absent => Landed(c)
    /\ run' = [run EXCEPT !.todo = @ \ {c}, !.failures = @ \union {c}]
    /\ UNCHANGED << inbox, partition, used >>

\* Nothing in --in for c, or something else than what landed.
Refuse(c) ==
    /\ Visiting(c)
    /\ inbox[c] # Absent => Landed(c) /\ disk[Target(c)] # inbox[c].content
    /\ run' = [run EXCEPT !.todo = @ \ {c}, !.failures = @ \union {c}]
    /\ UNCHANGED << inbox, partition, used >>

Final ==
    /\ run.phase = "copying"
    /\ run.todo = {}
    /\ manifest' = ManifestOf(run.failures = {})
    /\ run' = [run EXCEPT !.phase = "mark"]
    /\ UNCHANGED << inbox, disk, success, used >>

\* Mutant of Mark: the run stays in its last phase.
MarkMisnamed ==
    /\ run.phase = "mark"
    /\ success' = (run.failures = {})
    /\ run' = [Idle EXCEPT !.phase = "done"]
    /\ UNCHANGED << inbox, disk, manifest, used >>

Mark ==
    /\ run.phase = "mark"
    /\ success' = (run.failures = {})
    /\ run' = Idle
    /\ UNCHANGED << inbox, disk, manifest, used >>

Crash ==
    /\ run.phase # "idle"
    /\ Spend("crash", MaxCrash)
    /\ run' = Idle
    /\ UNCHANGED << inbox, partition >>

Step ==
    \/ Preliminary \/ Unmark \/ Final \/ Mark
    \/ \E c \in Combination : Reuse(c) \/ Copy(c) \/ Refuse(c)

Next ==
    \/ Step
    \/ \E overwrite \in BOOLEAN, provinces \in (SUBSET Province) \ {{}} :
          Start(overwrite, provinces)
    \/ Crash
    \/ \E c \in Combination, file \in File \union {Absent} : Refresh(c, file)

Spec == Init /\ [][Next]_vars

\* The same command is run again until the partition is complete.
FairSpec == Spec /\ WF_vars(Step) /\ SF_vars(Start(FALSE, Province))

-----------------------------------------------------------------------------
(* validate.run.                                                           *)

DeclaredFilesMatch == \A p \in DOMAIN manifest.files : disk[p] = manifest.files[p]
NoOrphans == \A p \in Path : disk[p] # Absent => p \in DOMAIN manifest.files
Coverage == manifest.provinces \X Dataset \subseteq {p[1] : p \in DOMAIN manifest.files}

Valid ==
    /\ manifest # NoManifest
    /\ DeclaredFilesMatch
    /\ manifest.failures = {}
    /\ NoOrphans
    /\ success = manifest.complete
    /\ Coverage

-----------------------------------------------------------------------------
(* Properties.                                                             *)

\* Every variable keeps its shape.
TypeOK ==
    /\ inbox \in [Combination -> File \union {Absent}]
    /\ disk \in [Path -> Content \union {Absent}]
    /\ manifest # NoManifest => DOMAIN manifest.files \subseteq Path
    /\ success \in BOOLEAN
    /\ run.phase \in {"idle", "preliminary", "unmark", "copying", "mark"}
    /\ run.todo \union run.failures \subseteq run.provinces \X Dataset

\* CONTRACT.md 3, 4, 9, 11: a partition whose manifest and _SUCCESS say it is
\* complete validates.
CompleteIsValid ==
    /\ run.phase = "idle"
    /\ success
    /\ manifest # NoManifest /\ manifest.complete
    => Valid

\* CONTRACT.md 6: without --overwrite a file that landed keeps its bytes, and a
\* run that ends complete has declared exactly what --in held for each of them.
Decides ==
    /\ ~run.overwrite => \A p \in Path : disk[p] # Absent => disk'[p] = disk[p]
    /\ run.phase = "copying" /\ run'.phase = "mark" /\ manifest'.complete =>
         \A c \in run.provinces \X Dataset :
            /\ inbox[c] # Absent
            /\ << c, inbox[c].edition >> \in DOMAIN manifest'.files
            /\ manifest'.files[<< c, inbox[c].edition >>] = inbox[c].content
DivergenceIsDecided == [][Decides]_vars

\* What --in holds is what landed, or nothing has landed under its name.
Agrees ==
    \A c \in Combination :
        /\ inbox[c] # Absent
        /\ disk[Target(c)] \in {Absent, inbox[c].content}

\* CONTRACT.md 7: once --in holds every file, none of which differs from what
\* landed, running the same command again completes the partition.
Completed == manifest # NoManifest /\ manifest.complete
Completes == <>[]Agrees => <>[]Completed
=============================================================================
