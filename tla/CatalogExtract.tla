--------------------------- MODULE CatalogExtract ---------------------------
(***************************************************************************)
(* One snapshot partition of the Mercadona catalog: the files on disk, the *)
(* manifest, the _SUCCESS marker, and the processes that extract into it   *)
(* (extract.py, partition.py) or judge it (validate.py).                   *)
(*                                                                         *)
(* Files are replaced atomically (canonical.write_json), so a step of the  *)
(* model is one write of the program.  A payload is its language and a     *)
(* version; checksums, sizes, counts and the schema fingerprint are        *)
(* functions of the payload and are equal when payloads are.               *)
(***************************************************************************)
EXTENDS Integers, FiniteSets

CONSTANTS
    Process,       \* extractions that may run over the partition
    Category,      \* level-2 categories
    Lang,          \* --lang
    Version,       \* what the API may answer for a category
    MayLimit,      \* whether --limit 1 is used
    Absent, Unreadable, Foreign,   \* a file that is not there, does not parse,
                                   \* or is not in canonical form
    NoManifest,
    MaxOverwrite,  \* bound: runs with --overwrite
    MaxFail,       \* bound: requests that fail after their retries
    MaxCrash,      \* bound: runs that die between two writes
    MaxKill,       \* bound: runs that die inside a write
    MaxTamper      \* bound: files altered by hand

VARIABLES
    disk,          \* disk[p]: content of categories.json ("tree") and of each catalog file
    manifest,      \* _manifest.json
    success,       \* whether _SUCCESS exists
    litter,        \* a .tmp- file left behind
    run,           \* run[p]: the local variables of extract.run
    used           \* what the bounds count

partition == << disk, manifest, success, litter >>
vars == << partition, run, used >>

Path == Category \union {"tree"}
Payload == [lang : Lang, v : Version \union {"forged"}]
TreePayload == [lang : Lang, categories : SUBSET Category]
Readable == Payload \union TreePayload
Unusable == {Absent, Unreadable, Foreign}
FileList == UNION {[S -> Readable] : S \in SUBSET Path}   \* path -> sha256
Manifest == [complete : BOOLEAN, lang : Lang, limited : BOOLEAN,
             files : FileList, failures : SUBSET Category]

NoFiles == [p \in {} |-> Absent]
Declare(files, p, content) ==
    [q \in DOMAIN files \union {p} |-> IF q = p THEN content ELSE files[q]]

Idle == [phase |-> "idle", overwrite |-> FALSE, lang |-> CHOOSE l \in Lang : TRUE,
         limited |-> FALSE, previous |-> NoFiles, todo |-> {}, files |-> NoFiles,
         failures |-> {}]

Init ==
    /\ disk = [p \in Path |-> Absent]
    /\ manifest = NoManifest
    /\ success = FALSE
    /\ litter = FALSE
    /\ run = [p \in Process |-> Idle]
    /\ used = [overwrite |-> 0, fail |-> 0, crash |-> 0, kill |-> 0, tamper |-> 0]

Bounded(what, bound) == used[what] < bound
Count(what) == used' = [used EXCEPT ![what] = @ + 1]

HasManifest == manifest \notin {NoManifest, Unreadable}

-----------------------------------------------------------------------------
(* extract.run.                                                            *)

\* Mutant of Writable: no check of the language of the previous manifest.
WritableAnyLanguage(lang, overwrite) ==
    \/ overwrite
    \/ manifest = NoManifest /\ ~success
    \/ HasManifest /\ ~manifest.complete

\* Mutant of Writable: a partition that has a manifest is not reopened.
WritableFresh(lang, overwrite) == overwrite \/ (manifest = NoManifest /\ ~success)

\* Mutant of Writable: _SUCCESS is not looked at when there is no manifest.
WritableUnmarked(lang, overwrite) ==
    \/ overwrite
    \/ manifest = NoManifest
    \/ HasManifest /\ manifest.lang = lang /\ ~manifest.complete

\* assert_writable: without --overwrite, a partition that has nothing to lose.
Writable(lang, overwrite) ==
    \/ overwrite
    \/ manifest = NoManifest /\ ~success
    \/ HasManifest /\ manifest.lang = lang /\ ~manifest.complete

Start(p, lang, overwrite, limited) ==
    /\ run[p].phase = "idle"
    /\ Writable(lang, overwrite)
    /\ limited => MayLimit
    /\ IF overwrite THEN Bounded("overwrite", MaxOverwrite) /\ Count("overwrite")
                    ELSE UNCHANGED used
    /\ run' = [run EXCEPT ![p] =
                 [Idle EXCEPT !.phase = "tree", !.overwrite = overwrite, !.lang = lang,
                              !.limited = limited,
                              !.previous = IF HasManifest THEN manifest.files ELSE NoFiles]]
    /\ UNCHANGED partition

\* The tree cannot be fetched: nothing has been written.
TreeFails(p) ==
    /\ run[p].phase = "tree"
    /\ Bounded("fail", MaxFail)
    /\ Count("fail")
    /\ run' = [run EXCEPT ![p] = Idle]
    /\ UNCHANGED partition

\* The tree is written before it is interpreted; a tree without categories
\* stands for one whose format is not the expected one.
FetchTree(p, categories, targets) ==
    LET tree == [lang |-> run[p].lang, categories |-> categories]
    IN  /\ run[p].phase = "tree"
        /\ IF run[p].limited /\ categories # {} THEN Cardinality(targets) = 1
                                                ELSE targets = categories
        /\ disk' = [disk EXCEPT !["tree"] = tree]
        /\ run' = [run EXCEPT ![p] = [@ EXCEPT !.phase = "preliminary", !.todo = targets,
                                               !.files = Declare(NoFiles, "tree", tree)]]
        /\ UNCHANGED << manifest, success, litter, used >>

\* snapshot_manifest, write_manifest.
ManifestOf(r, files, complete) ==
    [complete |-> complete, lang |-> r.lang, limited |-> r.limited,
     files |-> files, failures |-> r.failures]

\* The preliminary manifest declares the tree and nothing else.
Preliminary(p) ==
    /\ run[p].phase = "preliminary"
    /\ manifest' = ManifestOf(run[p], run[p].files, FALSE)
    /\ run' = [run EXCEPT ![p].phase = "unmark"]
    /\ UNCHANGED << disk, success, litter, used >>

\* Mutant of Unmark: the run is left in a phase that does not exist.
UnmarkMisnamed(p) ==
    /\ run[p].phase = "unmark"
    /\ success' = FALSE
    /\ run' = [run EXCEPT ![p] = IF run[p].todo = {} THEN Idle
                                 ELSE [@ EXCEPT !.phase = "listing"]]
    /\ UNCHANGED << disk, manifest, litter, used >>

\* mark_success(partition, False): a run over a tree without categories ends here.
Unmark(p) ==
    /\ run[p].phase = "unmark"
    /\ success' = FALSE
    /\ run' = [run EXCEPT ![p] = IF run[p].todo = {} THEN Idle
                                 ELSE [@ EXCEPT !.phase = "catalog"]]
    /\ UNCHANGED << disk, manifest, litter, used >>

\* A file that is kept: it parses, is canonical, and the previous manifest does
\* not declare another content for it.
Reusable(r, c) ==
    /\ ~r.overwrite
    /\ disk[c] \notin Unusable
    /\ c \in DOMAIN r.previous => r.previous[c] = disk[c]

Visited(p, c, content, failures) ==
    run' = [run EXCEPT ![p].todo = @ \ {c},
                       ![p].files = IF content = Absent THEN @ ELSE Declare(@, c, content),
                       ![p].failures = @ \union failures]

Visiting(p, c) == run[p].phase = "catalog" /\ c \in run[p].todo

Reuse(p, c) ==
    /\ Visiting(p, c)
    /\ Reusable(run[p], c)
    /\ Visited(p, c, disk[c], {})
    /\ UNCHANGED << partition, used >>

Download(p, c, v) ==
    LET payload == [lang |-> run[p].lang, v |-> v]
    IN  /\ Visiting(p, c)
        /\ ~Reusable(run[p], c)
        /\ disk' = [disk EXCEPT ![c] = payload]
        /\ Visited(p, c, payload, {})
        /\ UNCHANGED << manifest, success, litter, used >>

\* No answer, one that is not an object, or an id that cannot name a file.
CategoryFails(p, c) ==
    /\ Visiting(p, c)
    /\ ~Reusable(run[p], c)
    /\ Bounded("fail", MaxFail)
    /\ Count("fail")
    /\ Visited(p, c, Absent, {c})
    /\ UNCHANGED partition

\* Mutant of Inventory: nothing but what the run has visited.
InventoryNone(files) == files

\* Catalog files the run did not visit, declared as they are.
Inventory(files) ==
    LET found == {c \in Category \ DOMAIN files : disk[c] \notin Unusable}
    IN  [q \in DOMAIN files \union found |-> IF q \in found THEN disk[q] ELSE files[q]]

\* Mutant of Complete: a run with --limit can be complete.
CompleteIgnoresLimit(r) == r.failures = {}

Complete(r) == r.failures = {} /\ ~r.limited

Final(p) ==
    /\ run[p].phase = "catalog"
    /\ run[p].todo = {}
    /\ manifest' = ManifestOf(run[p], Inventory(run[p].files), Complete(run[p]))
    /\ run' = [run EXCEPT ![p].phase = "mark"]
    /\ UNCHANGED << disk, success, litter, used >>

Mark(p) ==
    /\ run[p].phase = "mark"
    /\ success' = Complete(run[p])
    /\ run' = [run EXCEPT ![p] = Idle]
    /\ UNCHANGED << disk, manifest, litter, used >>

\* The process ends between two writes.
Crash(p) ==
    /\ run[p].phase # "idle"
    /\ Bounded("crash", MaxCrash)
    /\ Count("crash")
    /\ run' = [run EXCEPT ![p] = Idle]
    /\ UNCHANGED partition

\* It is killed inside one: os.replace has not happened, nor the unlink.
Kill(p) ==
    /\ run[p].phase \in {"tree", "preliminary", "catalog"}
    /\ Bounded("kill", MaxKill)
    /\ Count("kill")
    /\ litter' = TRUE
    /\ run' = [run EXCEPT ![p] = Idle]
    /\ UNCHANGED << disk, manifest, success >>

\* No extraction is running.
Quiet == \A p \in Process : run[p].phase = "idle"

\* Between runs, somebody alters a catalog file the manifest declares.
Tamper(c, content) ==
    /\ Quiet
    /\ HasManifest
    /\ c \in DOMAIN manifest.files
    /\ Bounded("tamper", MaxTamper)
    /\ Count("tamper")
    /\ disk' = [disk EXCEPT ![c] = content]
    /\ UNCHANGED << manifest, success, litter, run >>

\* Or damages or deletes the manifest.
LoseManifest(what) ==
    /\ Quiet
    /\ HasManifest
    /\ Bounded("tamper", MaxTamper)
    /\ Count("tamper")
    /\ manifest' = what
    /\ UNCHANGED << disk, success, litter, run >>

Forgeries == [lang : Lang, v : {"forged"}] \union Unusable

Step(p) ==
    \/ \E S, T \in SUBSET Category : T \subseteq S /\ FetchTree(p, S, T)
    \/ Preliminary(p)
    \/ Unmark(p)
    \/ \E c \in Category : Reuse(p, c) \/ \E v \in Version : Download(p, c, v)
    \/ Final(p)
    \/ Mark(p)

Next ==
    \/ \E p \in Process :
          \/ \E lang \in Lang, overwrite, limited \in BOOLEAN : Start(p, lang, overwrite, limited)
          \/ Step(p)
          \/ TreeFails(p)
          \/ \E c \in Category : CategoryFails(p, c)
          \/ Crash(p)
          \/ Kill(p)
    \/ \E c \in Category, content \in Forgeries : Tamper(c, content)
    \/ \E what \in {NoManifest, Unreadable} : LoseManifest(what)

Spec == Init /\ [][Next]_vars

\* Whoever reads "re-run the same command" does, again and again; a run that is
\* not killed goes on; the source answers with a usable tree now and then.
Rerun(p) == \E lang \in Lang : Start(p, lang, FALSE, FALSE)
GoodTree(p) == ~run[p].limited /\ \E S \in (SUBSET Category) \ {{}} : FetchTree(p, S, S)

FairSpec ==
    /\ Spec
    /\ \A p \in Process : WF_vars(Step(p)) /\ SF_vars(Rerun(p)) /\ SF_vars(GoodTree(p))

-----------------------------------------------------------------------------
(* validate.run.                                                           *)

\* Every declared file is there with the content that was declared.
DeclaredFilesMatch == \A p \in DOMAIN manifest.files : disk[p] = manifest.files[p]

\* The recursive sweep finds nothing that is not declared.
NoOrphans == ~litter /\ \A p \in Path : disk[p] # Absent => p \in DOMAIN manifest.files

\* Every level-2 category of the tree has a file, unless the run was limited.
Coverage ==
    /\ disk["tree"] \in TreePayload
    /\ manifest.limited \/ disk["tree"].categories \subseteq DOMAIN manifest.files

Valid ==
    /\ HasManifest
    /\ DeclaredFilesMatch
    /\ manifest.failures = {}
    /\ NoOrphans
    /\ success = manifest.complete
    /\ Coverage

-----------------------------------------------------------------------------
(* Properties.                                                             *)

Phases == {"idle", "tree", "preliminary", "unmark", "catalog", "mark"}

\* Every variable keeps its shape, and what a run knows was on disk or declared.
TypeOK ==
    /\ \A p \in Path : disk[p] \in Readable \union Unusable
    /\ disk["tree"] \in TreePayload \union {Absent}
    /\ manifest \in {NoManifest, Unreadable} \/ (HasManifest /\ DOMAIN manifest.files \subseteq Path)
    /\ {success, litter} \subseteq BOOLEAN
    /\ \A p \in Process :
          /\ run[p].phase \in Phases
          /\ run[p].todo \union run[p].failures \subseteq Category
          /\ \A q \in DOMAIN run[p].files : run[p].files[q] \in Readable

\* CONTRACT.md 4, 10, 14: when no extraction is running, a partition that carries
\* _SUCCESS passes its own validation and lacks no category of its tree, however
\* many runs failed, were limited or died before it was completed.
SuccessIsValid ==
    Quiet /\ success => Valid /\ disk["tree"].categories \subseteq DOMAIN manifest.files

\* CONTRACT.md 6: every file of a partition is in one language.
OneLanguage ==
    \A p, q \in Path :
        {disk[p], disk[q]} \intersect Unusable = {} => disk[p].lang = disk[q].lang

\* CONTRACT.md 5: a partition that is complete, by its manifest or by a _SUCCESS
\* that outlived its manifest, is written by nobody but a run with --overwrite.
LeavesComplete ==
    /\ IF HasManifest THEN manifest.complete ELSE success
    /\ \A p \in Process : ~run[p].overwrite
    /\ used'.tamper = used.tamper
    => UNCHANGED << disk, manifest, litter >>
Immutable == [][LeavesComplete]_vars

\* CONTRACT.md 4: a run that completes the partition declares every catalog file
\* that can be read, with the content it has at that moment.
CompletesWithTheDisk ==
    \A p \in Process : run[p].phase = "catalog" /\ run'[p].phase = "mark"
      => \A q \in Path : disk[q] \in Readable =>
             q \in DOMAIN manifest'.files /\ manifest'.files[q] = disk[q]
DescribesDisk == [][CompletesWithTheDisk]_vars

\* CONTRACT.md 5: what somebody wrote over a declared file is never declared by
\* a complete manifest.
NotPromoted ==
    HasManifest /\ manifest.complete =>
        \A c \in DOMAIN manifest.files \ {"tree"} : manifest.files[c].v # "forged"

\* partition.py: between runs, where _SUCCESS is there the manifest is complete and its files
\* are the ones on disk.
SuccessOnlyWhenComplete == Quiet /\ success => HasManifest /\ manifest.complete /\ DeclaredFilesMatch

\* CONTRACT.md 7: an incomplete partition is completed by running the same
\* command again.
Completed == HasManifest /\ manifest.complete
Completes == <>[]Completed

\* CONTRACT.md 7 and 10: and ends with the marker its consumers look at.
Sealed == <>[]success

\* CONTRACT.md 4 and 7: and ends as a partition that validates.
EventuallyValid == <>[]Valid
=============================================================================
