------------------------------ MODULE RawLanding ------------------------------
(***************************************************************************)
(* L1 landing of one partition: `land` uploads it object by object to the  *)
(* bucket, `verify` reads it back, `prune-local` deletes the local copy    *)
(* once both sides agree, `freeze` seals what the bucket's manifest        *)
(* declares.  The Source that writes the local partition is external here  *)
(* (CatalogExtract and its siblings model it): it publishes whole editions.*)
(*                                                                         *)
(* A blob stands for the bytes of a file.  The blob of a data file is a    *)
(* member of Contents, that of the manifest a record, that of the run log  *)
(* and of _SUCCESS the run id.                                             *)
(***************************************************************************)
EXTENDS Integers

CONSTANTS
    Files,          \* the data files a manifest may declare
    Contents,       \* what a data file may hold
    Absent,         \* no such file, no such object
    Landers,        \* processes that run `land`
    SameFiles,      \* TRUE: every edition declares every file
    Concurrent,     \* TRUE: two commands may run at the same time
    MaxEditions,    \* how often the Source publishes
    MaxDamage,      \* how many local files are damaged behind its back
    MaxCrashes      \* how many commands die half way or have an object refused

Manifests == [run : 1 .. MaxEditions, complete : BOOLEAN, files : [Files -> Contents \cup {Absent}]]

ASSUME KeysAssumption ==
    /\ Files \cap {"_manifest.json", "_run.log", "_SUCCESS"} = {}
    /\ Absent \notin Contents \cup Manifests

ASSUME BoundsAssumption ==
    /\ SameFiles \in BOOLEAN /\ Concurrent \in BOOLEAN
    /\ MaxEditions \in Nat /\ MaxDamage \in Nat /\ MaxCrashes \in Nat

VARIABLES
    disk,       \* the local partition: a blob of every key
    remote,     \* the objects under the partition's prefix
    lander,     \* each `land` under way
    check,      \* the `verify-landing` or `prune-local` under way
    seal,       \* what `freeze` wrote
    published,  \* every manifest the Source completed
    used        \* what has been spent of each bound

vars == <<disk, remote, lander, check, seal, published, used>>

Undeclared == {"_manifest.json", "_run.log", "_SUCCESS"}
Keys == Files \cup Undeclared

Declared(mf) == {f \in Files : mf.files[f] # Absent}

(* manifest.read: both marks of completeness, or the partition is refused. *)
Readable ==
    /\ disk["_manifest.json"] # Absent
    /\ disk["_manifest.json"].complete
    /\ disk["_SUCCESS"] # Absent

Resting == [step |-> "rest", manifest |-> Absent, todo |-> {}, key |-> Absent, blob |-> Absent]
Unchecked == [step |-> "rest", manifest |-> Absent, todo |-> {}, wrong |-> FALSE,
              unread |-> FALSE, prune |-> FALSE]

Init ==
    /\ disk = [k \in Keys |-> Absent]
    /\ remote = [k \in Keys |-> Absent]
    /\ lander = [l \in Landers |-> Resting]
    /\ check = Unchecked
    /\ seal = Absent
    /\ published = {}
    /\ used = [editions |-> 0, damage |-> 0, crashes |-> 0]

Busy(l) == lander[l].step \in {"head", "put"}
Checking == check.step # "rest"
Alone == Concurrent \/ (~Checking /\ \A l \in Landers : ~Busy(l))

(***************************************************************************)
(* The partition on disk.                                                  *)
(***************************************************************************)
Editions == {files \in [Files -> Contents \cup {Absent}] :
                /\ \E f \in Files : files[f] # Absent
                /\ SameFiles => \A f \in Files : files[f] # Absent}

(* A Source run over a partition that is complete begins by taking both    *)
(* marks back ...                                                          *)
Reopen ==
    /\ Alone
    /\ Readable
    /\ used.editions < MaxEditions
    /\ disk' = [disk EXCEPT !["_manifest.json"].complete = FALSE, !["_SUCCESS"] = Absent]
    /\ UNCHANGED <<remote, lander, check, seal, published, used>>

(* ... and ends with the files, the final manifest and the mark.           *)
Publish(files) ==
    LET run == used.editions + 1
        mf == [run |-> run, complete |-> TRUE, files |-> files]
    IN  /\ Alone
        /\ ~Readable
        /\ used.editions < MaxEditions
        /\ disk' = [k \in Keys |-> IF k \in Files THEN files[k]
                                   ELSE IF k = "_manifest.json" THEN mf ELSE run]
        /\ published' = published \cup {mf}
        /\ used' = [used EXCEPT !.editions = run]
        /\ UNCHANGED <<remote, lander, check, seal>>

Damage(f, blob) ==
    /\ Concurrent \/ ~Checking
    /\ used.damage < MaxDamage
    /\ disk[f] \notin {Absent, blob}
    /\ disk' = [disk EXCEPT ![f] = blob]
    /\ used' = [used EXCEPT !.damage = @ + 1]
    /\ UNCHANGED <<remote, lander, check, seal, published>>

(***************************************************************************)
(* land                                                                    *)
(***************************************************************************)
(* Mutant of KeysOf: the marks of the last run are left to the bucket.     *)
KeysOfUnmarked(mf) == Declared(mf) \cup {"_manifest.json", "_run.log"}
(* What is uploaded, and later compared.                                   *)
KeysOf(mf) == Declared(mf) \cup Undeclared

(* Mutant of Rank: the mark goes first.                                    *)
RankMarkFirst(k) ==
    CASE k = "_SUCCESS" -> 0 [] k \in Files -> 1 [] k = "_manifest.json" -> 2 [] OTHER -> 3
(* The declared files, in the order the manifest happens to list them,     *)
(* then the manifest and the log, _SUCCESS last.                           *)
Rank(k) ==
    CASE k \in Files -> 0 [] k = "_manifest.json" -> 1 [] k = "_run.log" -> 2 [] OTHER -> 3

(* The keys of a list that may come next.                                  *)
Turn(todo) == {k \in todo : \A other \in todo : Rank(k) <= Rank(other)}

BeginLand(l) ==
    /\ ~Busy(l)
    /\ Alone
    /\ Readable
    /\ LET mf == disk["_manifest.json"]
       IN  lander' = [lander EXCEPT ![l] = [step |-> "head", manifest |-> mf,
                                            todo |-> KeysOf(mf), key |-> Absent, blob |-> Absent]]
    /\ UNCHANGED <<disk, remote, check, seal, published, used>>

(* Mutant of Refused: the checksum of the local file is not recomputed.    *)
RefusedMissingOnly(l, k) ==
    disk[k] = Absent /\ k \in Files \cup {"_SUCCESS"}

(* The file is not there, or not what the manifest declares: LandingError. *)
Refused(l, k) ==
    \/ disk[k] = Absent /\ k \in Files \cup {"_SUCCESS"}
    \/ k \in Files /\ disk[k] # lander[l].manifest.files[k]

(* Mutant of Done: the lander reports success after its first key.         *)
DoneEarly(l, k) ==
    [lander[l] EXCEPT !.step = "landed", !.todo = {}, !.key = Absent, !.blob = Absent]

(* The lander l is done with the key k.                                    *)
Done(l, k) ==
    LET rest == lander[l].todo \ {k}
    IN  [lander[l] EXCEPT !.step = IF rest = {} THEN "landed" ELSE "head",
                          !.todo = rest, !.key = Absent, !.blob = Absent]

(* Reads the local file and asks the bucket for the checksum of the object.*)
HeadObject(l) ==
    /\ lander[l].step = "head"
    /\ \E k \in Turn(lander[l].todo) :
          lander' = [lander EXCEPT ![l] =
              IF Refused(l, k) THEN [Resting EXCEPT !.step = "failed"]
              ELSE IF disk[k] \in {Absent, remote[k]} THEN Done(l, k)
              ELSE [@ EXCEPT !.step = "put", !.key = k, !.blob = disk[k]]]
    /\ UNCHANGED <<disk, remote, check, seal, published, used>>

PutObject(l) ==
    /\ lander[l].step = "put"
    /\ remote' = [remote EXCEPT ![lander[l].key] = lander[l].blob]
    /\ lander' = [lander EXCEPT ![l] = Done(l, lander[l].key)]
    /\ UNCHANGED <<disk, check, seal, published, used>>

(* The process dies, or a request fails and the exception ends it.         *)
Crash(l) ==
    /\ Busy(l)
    /\ used.crashes < MaxCrashes
    /\ lander' = [lander EXCEPT ![l] = Resting]
    /\ used' = [used EXCEPT !.crashes = @ + 1]
    /\ UNCHANGED <<disk, remote, check, seal, published>>

(***************************************************************************)
(* verify-landing and prune-local                                          *)
(***************************************************************************)
(* Mutant of LocallyIntact: the manifest is read, the files are not.       *)
LocallyIntactUnread == Readable

(* prune-local first rereads the local files against their own manifest.   *)
LocallyIntact ==
    /\ Readable
    /\ \A f \in Declared(disk["_manifest.json"]) : disk[f] = disk["_manifest.json"].files[f]

BeginCheck(prune) ==
    /\ ~Checking
    /\ Alone
    /\ IF prune THEN LocallyIntact ELSE Readable
    /\ LET mf == disk["_manifest.json"]
       IN  check' = [step |-> "objects", manifest |-> mf, wrong |-> FALSE, unread |-> FALSE,
                     prune |-> prune, todo |-> KeysOf(mf)]
    /\ UNCHANGED <<disk, remote, lander, seal, published, used>>

Expected(k) == IF k \in Files THEN check.manifest.files[k] ELSE disk[k]

(* One object is fetched and compared; a GET that fails is an objection    *)
(* like any other, and the next object's turn comes.                       *)
CheckObject(fetched) ==
    /\ check.step = "objects"
    /\ ~fetched => used.crashes < MaxCrashes
    /\ \E k \in Turn(check.todo) :
          /\ ~fetched => Expected(k) # Absent
          /\ check' = [check EXCEPT
                !.todo = @ \ {k},
                !.wrong = @ \/ ~fetched \/ (Expected(k) # Absent /\ remote[k] # Expected(k)),
                !.unread = @ \/ ~fetched,
                !.step = IF check.todo = {k} THEN "prefix" ELSE @]
    /\ used' = [used EXCEPT !.crashes = @ + IF fetched THEN 0 ELSE 1]
    /\ UNCHANGED <<disk, remote, lander, seal, published>>

(* Mutant of Orphans: the prefix is not scanned.                           *)
OrphansIgnored == {}

(* Objects under the prefix that nothing declares.                         *)
Orphans ==
    {k \in Keys : /\ remote[k] # Absent
                  /\ IF k \in Files THEN k \notin Declared(check.manifest) ELSE disk[k] = Absent}

CheckPrefix ==
    /\ check.step = "prefix"
    /\ LET wrong == check.wrong \/ Orphans # {} \/ remote["_SUCCESS"] = Absent
       IN  check' = IF wrong \/ ~check.prune
                    THEN [Unchecked EXCEPT !.step = "rest", !.wrong = wrong]
                    ELSE [check EXCEPT !.step = "remove"]
    /\ UNCHANGED <<disk, remote, lander, seal, published, used>>

(* rmtree, to the end or cut short.                                        *)
Prune(left) ==
    /\ check.step = "remove"
    /\ left # {} => used.crashes < MaxCrashes
    /\ disk' = [k \in Keys |-> IF k \in left THEN disk[k] ELSE Absent]
    /\ check' = Unchecked
    /\ used' = [used EXCEPT !.crashes = @ + IF left = {} THEN 0 ELSE 1]
    /\ UNCHANGED <<remote, lander, seal, published>>

(***************************************************************************)
(* freeze and freeze-check                                                 *)
(***************************************************************************)
(* Mutant of Content: the whole manifest is sealed, run id included.       *)
ContentOfRun(mf) == mf

(* The seal covers the declared files, not the run that wrote them.        *)
Content(mf) == mf.files

(* The objects are those the manifest beside them declares, and no others. *)
BucketWhole ==
    /\ remote["_manifest.json"] # Absent
    /\ \A f \in Files : remote[f] = remote["_manifest.json"].files[f]

(* The page and the seed.  `data` and `whole` record what the bucket then   *)
(* held: freeze reads the manifest alone.                                  *)
Freeze ==
    /\ remote["_manifest.json"] # Absent
    /\ Alone
    /\ seal' = [content |-> Content(remote["_manifest.json"]),
                data |-> [f \in Files |-> remote[f]], whole |-> BucketWhole]
    /\ UNCHANGED <<disk, remote, lander, check, published, used>>

FreezeCheck == Content(remote["_manifest.json"]) = seal.content

Next ==
    \/ Reopen
    \/ \E files \in Editions : Publish(files)
    \/ \E f \in Files, blob \in Contents \cup {Absent} : Damage(f, blob)
    \/ \E l \in Landers : BeginLand(l) \/ HeadObject(l) \/ PutObject(l) \/ Crash(l)
    \/ \E prune \in BOOLEAN : BeginCheck(prune)
    \/ \E fetched \in BOOLEAN : CheckObject(fetched)
    \/ CheckPrefix
    \/ \E left \in SUBSET Keys : Prune(left)
    \/ Freeze

Spec == Init /\ [][Next]_vars

(* Whoever lands does so to the end, and lands again what is not there: the *)
(* DAG runs the branch again as long as verify-landing objects.            *)
Exact ==
    /\ Readable
    /\ \A k \in Keys : remote[k] = disk[k]

LandAgain(l) == ~Exact /\ BeginLand(l)
Fair ==
    /\ \A l \in Landers : /\ SF_vars(LandAgain(l))
                          /\ WF_vars(HeadObject(l)) /\ WF_vars(PutObject(l))
    /\ WF_vars(\E fetched \in BOOLEAN : CheckObject(fetched)) /\ WF_vars(CheckPrefix)
    /\ WF_vars(\E left \in SUBSET Keys : Prune(left))
FairSpec == Spec /\ Fair

-----------------------------------------------------------------------------
Blob(k) == IF k \in Files THEN Contents
           ELSE IF k = "_manifest.json" THEN Manifests ELSE 1 .. MaxEditions

(* Every key holds a blob of its own kind on both sides, and a lander or a  *)
(* check under way has keys left to visit.                                 *)
TypeOK ==
    /\ \A k \in Keys : disk[k] \in Blob(k) \cup {Absent} /\ remote[k] \in Blob(k) \cup {Absent}
    /\ \A l \in Landers :
          /\ lander[l].step \in {"rest", "head", "put", "landed", "failed"}
          /\ lander[l].todo \subseteq Keys
          /\ Busy(l) <=> lander[l].todo # {}
          /\ lander[l].step = "put" => lander[l].key \in lander[l].todo
                                       /\ lander[l].blob \in Blob(lander[l].key)
    /\ check.step \in {"rest", "objects", "prefix", "remove"}
    /\ check.todo \subseteq Keys
    /\ check.step = "objects" <=> check.todo # {}
    /\ published \subseteq Manifests

(* "Do not propagate corruption": an object of the bucket is a file some    *)
(* completed manifest declares, whatever happened to the disk since.       *)
NothingCorruptLands ==
    \A f \in Files : remote[f] # Absent => \E mf \in published : mf.files[f] = remote[f]

(* land.py:13, "_SUCCESS LAST.  An interrupted upload never looks complete":*)
(* a prefix that carries the mark carries its manifest, and every file this *)
(* manifest declares with the declared content.                            *)
MarkedIsWhole ==
    remote["_SUCCESS"] # Absent =>
        /\ remote["_manifest.json"] # Absent
        /\ \A f \in Declared(remote["_manifest.json"]) :
              remote[f] = remote["_manifest.json"].files[f]

(* So it is of one edition.  (Landing the next one puts its files under the *)
(* mark of the one before, and may die there.)                             *)
AnnouncedIsWhole == used.editions <= 1 => MarkedIsWhole

(* A land that returns leaves the edition it read in the bucket: every file  *)
(* it declares, its manifest and the mark of its run.                      *)
LandedIsThere ==
    [][\A l \in Landers :
          (Busy(l) /\ lander'[l].step = "landed") =>
             LET mf == lander[l].manifest
             IN  /\ \A f \in Declared(mf) : remote'[f] = mf.files[f]
                 /\ remote'["_manifest.json"] = mf
                 /\ remote'["_SUCCESS"] = mf.run]_vars

(* verify-landing objects if and only if an object could not be fetched or  *)
(* the prefix is not exactly the edition the local manifest declares,      *)
(* objects left over included.                                             *)
JudgesRightly ==
    (check.step = "prefix" /\ check'.step # "prefix") =>
        (check'.wrong <=> \/ check.unread
                          \/ \E k \in Keys : remote[k] # Expected(k))
VerdictIsTrue == [][JudgesRightly]_vars

(* prune-local deletes a file only if the bucket holds these very bytes.    *)
RemovesWhatIsLanded ==
    \A k \in Keys : (check.step = "remove" /\ disk[k] # Absent /\ disk'[k] = Absent)
                    => remote[k] = disk[k]
PrunedIsInTheBucket == [][RemovesWhatIsLanded]_vars

(* Between two prefixes that were landed to the end freeze-check tells       *)
(* exactly whether a data object changed, and a run alone changes nothing. *)
SealTellsEditions ==
    (seal # Absent /\ seal.whole /\ BucketWhole) =>
        (FreezeCheck <=> \A f \in Files : remote[f] = seal.data[f])

(* land and freeze, whatever happens between two of their steps: nothing   *)
(* damaged gets into the bucket, what carries _SUCCESS is a whole edition, *)
(* and a seal is of one edition.                                           *)
BucketIsFaithful ==
    /\ TypeOK
    /\ NothingCorruptLands
    /\ AnnouncedIsWhole
    /\ SealTellsEditions

(* freeze-check that passes means the bytes under seal are the bytes in     *)
(* the bucket.                                                             *)
SealGuardsTheBytes ==
    (seal # Absent /\ FreezeCheck) => \A f \in Files : remote[f] = seal.data[f]

(* Once the crashes and the new editions are over, the bucket ends up with  *)
(* exactly the partition on the disk, if that is intact, so that           *)
(* verify-landing passes.                                                  *)
Delivered == LocallyIntact /\ disk["_run.log"] # Absent => Exact
Completes == <>[]Delivered
=============================================================================
