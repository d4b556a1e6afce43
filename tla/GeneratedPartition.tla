------------------------- MODULE GeneratedPartition -------------------------
(***************************************************************************)
(* A partition of simulated orders: one file the generator writes, then    *)
(* the manifest, then _SUCCESS (extract.py, partition.py of                *)
(* simulated-orders-source; simulated-oltp-source writes its customers the *)
(* same way).                                                              *)
(*                                                                         *)
(* The generator is deterministic, so a file is known by its inputs: the   *)
(* seed and the reference it was generated from.                           *)
(***************************************************************************)
EXTENDS Integers

CONSTANTS
    Seed,          \* --seed
    Reference,     \* exports of the references, one after the other on disk
    Absent,
    NoManifest,
    MaxOverwrite,  \* bound: runs with --overwrite
    MaxExport,     \* bound: new exports of the reference
    MaxCrash,      \* bound: runs that die between two writes
    MaxLoss        \* bound: manifests deleted by hand

VARIABLES
    reference,   \* the reference on disk
    events,      \* order_events.jsonl
    manifest,    \* _manifest.json
    success,     \* whether _SUCCESS exists
    run,         \* local variables of extract.run
    used,        \* what the bounds count
    declared     \* inputs any manifest has declared, for a property

partition == << events, manifest, success >>
vars == << reference, partition, run, used, declared >>

Inputs == [seed : Seed, reference : Reference]
Manifest == [inputs : Inputs, history : SUBSET Inputs]   \* "complete" is always true
Idle == [phase |-> "idle", overwrite |-> FALSE, inputs |-> Absent, history |-> {}]

Init ==
    /\ reference \in Reference
    /\ events = Absent
    /\ manifest = NoManifest
    /\ success = FALSE
    /\ run = Idle
    /\ used = [overwrite |-> 0, export |-> 0, crash |-> 0, loss |-> 0]
    /\ declared = {}

Spend(what, bound) ==
    /\ used[what] < bound
    /\ used' = [used EXCEPT ![what] = @ + 1]

\* The platform exports the references again.
Export(r) ==
    /\ r # reference
    /\ Spend("export", MaxExport)
    /\ reference' = r
    /\ UNCHANGED << partition, run, declared >>

\* Mutant of Writable: _SUCCESS does not count once the manifest is gone.
WritableNoMarker(overwrite) == overwrite \/ manifest = NoManifest

\* assert_writable: every manifest this source writes says complete.
Writable(overwrite) == overwrite \/ (manifest = NoManifest /\ ~success)

\* Mutant of History: an overwrite starts a new history.
HistoryNone(previous) == {}

\* build_history: what the previous manifest knew, and its own inputs.
History(previous) ==
    IF previous = NoManifest THEN {} ELSE previous.history \union {previous.inputs}

\* The inputs are read and the log generated in memory before anything is written.
Start(overwrite, seed) ==
    /\ run.phase = "idle"
    /\ Writable(overwrite)
    /\ IF overwrite THEN Spend("overwrite", MaxOverwrite) ELSE UNCHANGED used
    /\ run' = [phase |-> "data", overwrite |-> overwrite,
               inputs |-> [seed |-> seed, reference |-> reference],
               history |-> History(manifest)]
    /\ UNCHANGED << reference, partition, declared >>

\* The reference does not load, or an event lacks a field: nothing is written.
Refuse ==
    /\ run.phase = "data"
    /\ run' = Idle
    /\ UNCHANGED << reference, partition, used, declared >>

WriteData ==
    /\ run.phase = "data"
    /\ events' = run.inputs
    /\ run' = [run EXCEPT !.phase = "manifest"]
    /\ UNCHANGED << reference, manifest, success, used, declared >>

\* Mutant of WriteManifest: it declares the reference of the moment.
WriteManifestLate ==
    /\ run.phase = "manifest"
    /\ manifest' = [inputs |-> [run.inputs EXCEPT !.reference = reference],
                    history |-> run.history]
    /\ declared' = declared \union {manifest'.inputs}
    /\ run' = [run EXCEPT !.phase = "mark"]
    /\ UNCHANGED << reference, events, success, used >>

WriteManifest ==
    /\ run.phase = "manifest"
    /\ manifest' = [inputs |-> run.inputs, history |-> run.history]
    /\ declared' = declared \union {run.inputs}
    /\ run' = [run EXCEPT !.phase = "mark"]
    /\ UNCHANGED << reference, events, success, used >>

\* Mutant of Mark: the run stays in its last phase.
MarkMisnamed ==
    /\ run.phase = "mark"
    /\ success' = TRUE
    /\ run' = [Idle EXCEPT !.phase = "done"]
    /\ UNCHANGED << reference, events, manifest, used, declared >>

Mark ==
    /\ run.phase = "mark"
    /\ success' = TRUE
    /\ run' = Idle
    /\ UNCHANGED << reference, events, manifest, used, declared >>

Crash ==
    /\ run.phase # "idle"
    /\ Spend("crash", MaxCrash)
    /\ run' = Idle
    /\ UNCHANGED << reference, partition, declared >>

LoseManifest ==
    /\ run.phase = "idle"
    /\ manifest # NoManifest
    /\ Spend("loss", MaxLoss)
    /\ manifest' = NoManifest
    /\ UNCHANGED << reference, events, success, run, declared >>

Next ==
    \/ \E r \in Reference : Export(r)
    \/ \E overwrite \in BOOLEAN, seed \in Seed : Start(overwrite, seed)
    \/ Refuse \/ WriteData \/ WriteManifest \/ Mark \/ Crash \/ LoseManifest

Spec == Init /\ [][Next]_vars

-----------------------------------------------------------------------------
(* What the source's own validate accepts, and the properties.             *)

\* validate.run, up to the coherence with the reference at hand: the manifest is
\* there, every declared file has its digest, size and records, nothing else
\* lies in the partition, the totals are those of the log re-read, and _SUCCESS
\* agrees with "complete".
Valid == manifest # NoManifest /\ success /\ events = manifest.inputs

\* Every variable keeps its shape.
TypeOK ==
    /\ reference \in Reference
    /\ events \in Inputs \union {Absent}
    /\ manifest \in Manifest \union {NoManifest}
    /\ success \in BOOLEAN
    /\ run.phase \in {"idle", "data", "manifest", "mark"}
    /\ declared \subseteq Inputs

\* extract.py: a process killed midway never leaves a partition that announces
\* itself complete without being so: what carries _SUCCESS and a manifest
\* validates, its log being that of the inputs the manifest names.  (Only until somebody says --overwrite:
\* the new log is written under the old manifest and _SUCCESS, and a process
\* killed between the two leaves them so.)
AnnouncedIsWhole ==
    success /\ manifest # NoManifest /\ used.overwrite = 0 => Valid

\* partition.py, build_history: no inputs the partition was once declared with
\* disappear from its manifest, whatever is written over it, as long as the
\* manifest itself is not lost.
SwapsLeaveATrace ==
    manifest # NoManifest /\ used.loss = 0 => declared \subseteq manifest.history \union {manifest.inputs}

\* partition.py: what has been announced is written over with --overwrite only,
\* the manifest lost or not.
LeavesAnnounced == success /\ ~run.overwrite => UNCHANGED << events, success >>
Immutable == [][LeavesAnnounced]_vars
=============================================================================
