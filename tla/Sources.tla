------------------------------ MODULE Sources ------------------------------
(***************************************************************************)
(* The partitions of the sources, side by side: the simulated orders, the  *)
(* catalogue, the population figures and the street guide.  They are four  *)
(* programs, each with a directory of its own, that do the same job in     *)
(* four ways.  They share no state, so a behaviour moves one of them: what *)
(* holds of each alone holds of all.  Their variables share their names.   *)
(***************************************************************************)
EXTENDS Integers, FiniteSets

CONSTANTS
    Absent, NoManifest, Unreadable, Foreign, Damaged,
    Seed, Reference,                               \* GeneratedPartition
    Process, Category, Lang, MayLimit,             \* CatalogExtract
    Table,                                         \* PopulationExtract
    Version,                                       \* of a category, of a table
    Province, Dataset, Edition, Content,           \* CallejeroIntake
    MaxOverwrite, MaxExport, MaxCrash, MaxLoss, MaxFail, MaxKill, MaxTamper, MaxDamage,
    MaxRefresh,                                    \* the bounds of the four
    Trouble       \* bound: what may befall one catalogue partition, all together

ASSUME SourcesAssumption ==
    /\ {MaxOverwrite, MaxExport, MaxCrash, MaxLoss, MaxFail, MaxKill, MaxTamper, MaxDamage,
        MaxRefresh} \subseteq Nat
    /\ Trouble \subseteq [{"overwrite", "fail", "crash", "kill", "tamper"} -> Nat]

VARIABLES
    moves,                                         \* what this behaviour is about
    manifest, success, run, used, disk,
    reference, events, declared,                   \* GeneratedPartition
    litter,                                        \* CatalogExtract
    inbox                                          \* CallejeroIntake

Generated == INSTANCE GeneratedPartition
Catalog == INSTANCE CatalogExtract
Population == INSTANCE PopulationExtract
Streets == INSTANCE CallejeroIntake

generated == << reference, events, declared >>
vars == << moves, manifest, success, run, used, disk, generated, litter, inbox >>

-----------------------------------------------------------------------------
NothingGenerated == reference = Absent /\ events = Absent /\ declared = {}

Init ==
    \/ /\ moves = "generated" /\ Generated!Init
       /\ disk = Absent /\ litter = FALSE /\ inbox = Absent
    \/ /\ moves = "catalog" /\ Catalog!Init
       /\ NothingGenerated /\ inbox = Absent
    \/ /\ moves = "population" /\ Population!Init
       /\ NothingGenerated /\ litter = FALSE /\ inbox = Absent
    \/ /\ moves = "streets" /\ Streets!Init
       /\ NothingGenerated /\ litter = FALSE

Troubled == \E t \in Trouble : \A what \in DOMAIN t : used'[what] <= t[what]

Next ==
    \/ moves = "generated" /\ Generated!Next /\ UNCHANGED << moves, disk, litter, inbox >>
    \/ moves = "catalog" /\ Catalog!Next /\ Troubled /\ UNCHANGED << moves, generated, inbox >>
    \/ moves = "population" /\ Population!Next /\ UNCHANGED << moves, generated, litter, inbox >>
    \/ moves = "streets" /\ Streets!Next /\ UNCHANGED << moves, generated, litter >>

Spec == Init /\ [][Next]_vars

-----------------------------------------------------------------------------
(* What the properties suppose.                                            *)

\* Model values are no manifests and no payloads, the tree is not a category,
\* and the extractions of a partition are one after the other ("One run at a
\* time": max_active_runs=1 in mercadona_catalog_daily.py).
CatalogConstants ==
    /\ "tree" \notin Category
    /\ {NoManifest, Unreadable} \cap Catalog!Manifest = {}
    /\ Catalog!Unusable \cap Catalog!Readable = {}
    /\ \A p, q \in Process : p = q

\* One province and one edition: whoever completes the street guide was asked for
\* all there is in it.
OneOfEach ==
    /\ \A p, q \in Province : p = q
    /\ \A e, f \in Edition : e = f

\* No manifest is not one.
NoManifestIsNone == NoManifest \notin Generated!Manifest

Hypotheses == CatalogConstants /\ NoManifestIsNone

\* Nobody has said --overwrite nor touched the files of the catalogue.
LeftAlone == used.overwrite = 0 /\ used.tamper = 0

-----------------------------------------------------------------------------
(* Properties.                                                             *)

\* The variables of the program at hand keep their shape.
TypeOK ==
    /\ moves = "generated" => Generated!TypeOK
    /\ moves = "catalog" => Catalog!TypeOK
    /\ moves = "population" => Population!TypeOK
    /\ moves = "streets" => Streets!TypeOK

\* What a Source announces complete passes its own validate.py, however many runs
\* failed, died or were limited over the same files before: the simulated orders
\* until somebody overwrites them, the catalogue until somebody does, alters a
\* file or kills a run inside a write, the population while no file is damaged.
AnnouncedIsValid ==
    /\ TypeOK
    /\ moves = "generated" => Generated!AnnouncedIsWhole
    /\ moves = "catalog" /\ LeftAlone /\ used.kill = 0 => Catalog!SuccessIsValid
    /\ moves = "population" => Population!CompleteIsValid
    /\ moves = "streets" => Streets!CompleteIsValid

\* A manifest's account of its partition is true of all of it: one language in
\* every file of a catalogue that was left alone, resumed or not (--lang); and in
\* the history every seed the orders were ever announced with (build_history).
ManifestIsTrue ==
    /\ moves = "catalog" /\ LeftAlone => Catalog!OneLanguage
    /\ moves = "generated" => Generated!SwapsLeaveATrace

\* assert_writable of three programs: only --overwrite changes a complete
\* partition, a manifest that was lost in between included.
CompleteIsLeftAlone ==
    [][/\ moves = "generated" => Generated!LeavesAnnounced
       /\ moves = "catalog" => Catalog!LeavesComplete
       /\ moves = "population" => Population!LeavesComplete]_vars

\* A run that completes over files somebody changed ends with a manifest of what
\* is on disk (build_manifest), the damage downloaded anew (the population's
\* extract.py) or the divergence refused (CONTRACT.md of the street guide).
DamageIsSettled ==
    [][/\ moves = "catalog" => Catalog!CompletesWithTheDisk
       /\ moves = "population" => Population!EndsRepaired
       /\ moves = "streets" => Streets!Decides]_vars
=============================================================================
