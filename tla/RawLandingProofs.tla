---------------------------- MODULE RawLandingProofs ----------------------------
(***************************************************************************)
(* For any files and contents, any number of processes that land, check or *)
(* prune the partition, of editions, damaged files and crashes: the bucket *)
(* is faithful (BucketIsFaithful).  When one command runs at a time, a     *)
(* land that returns has left its edition there, verify-landing tells the  *)
(* truth and prune-local deletes nothing the bucket does not hold.         *)
(*                                                                         *)
(* For any branches and failures of a source DAG: silver builds on what    *)
(* the run has verified, prices are filed under their day, and what has    *)
(* landed is kept.                                                         *)
(***************************************************************************)
EXTENDS RawLanding, LandingDag, TLAPS

-----------------------------------------------------------------------------
(* The inductive invariant.                                                *)

Blobs == Contents \cup Manifests \cup (1 .. MaxEditions) \cup {Absent}

\* The variables are functions and records of a shape.
Shape ==
    /\ disk \in [Keys -> Blobs]
    /\ remote \in [Keys -> Blobs]
    /\ lander \in [Landers -> [step : {"rest", "head", "put", "landed", "failed"},
                               manifest : Manifests \cup {Absent}, todo : SUBSET Keys,
                               key : Keys \cup {Absent}, blob : Blobs]]
    /\ check \in [step : {"rest", "objects", "prefix", "remove"},
                  manifest : Manifests \cup {Absent}, todo : SUBSET Keys,
                  wrong : BOOLEAN, unread : BOOLEAN, prune : BOOLEAN]
    /\ used \in [editions : 0 .. MaxEditions, damage : Nat, crashes : Nat]

\* Each run of the Source completes one manifest.
OneManifestPerRun ==
    /\ \A mf \in published : mf.run <= used.editions /\ mf.complete
    /\ \A mf, other \in published : mf.run = other.run => mf = other

\* The files of mf are those of an edition.
OfAnEdition(mf) == \E edition \in published : edition.files = mf.files

\* What lies on the disk belongs to the manifest beside it.
DiskIsAnEdition ==
    disk["_manifest.json"] # Absent =>
        LET mf == disk["_manifest.json"]
        IN  /\ OfAnEdition(mf)
            /\ mf.complete => mf \in published
            /\ disk["_SUCCESS"] # Absent => disk["_SUCCESS"] = mf.run
            /\ \A f \in Files : disk[f] # Absent => f \in Declared(mf)

\* What is in the bucket, or in the hands of a lander, has been declared.
LandsEditions ==
    /\ remote["_manifest.json"] # Absent => OfAnEdition(remote["_manifest.json"])
    /\ \A l \in Landers : Busy(l) =>
         /\ lander[l].manifest \in published
         /\ lander[l].todo \subseteq KeysOf(lander[l].manifest)
         /\ lander[l].step = "put" =>
              /\ lander[l].key \in Files =>
                   lander[l].blob = lander[l].manifest.files[lander[l].key]
              /\ lander[l].key = "_manifest.json" => OfAnEdition(lander[l].blob)

\* prune-local takes the manifest off the disk when the bucket has one.
ManifestIsSomewhere ==
    /\ used.editions > 0 /\ disk["_manifest.json"] = Absent =>
         remote["_manifest.json"] # Absent
    /\ Checking => disk["_manifest.json"] # Absent
    /\ check.step = "remove" => ~check.wrong
    /\ (Checking /\ "_manifest.json" \notin check.todo /\ ~check.wrong) =>
         remote["_manifest.json"] # Absent

\* While there is one edition, every lander adds to it and none takes away.
OneEdition ==
    /\ remote["_SUCCESS"] # Absent =>
         /\ remote["_manifest.json"] # Absent
         /\ \A mf \in published : \A f \in Declared(mf) : remote[f] = mf.files[f]
    /\ \A l \in Landers : Busy(l) =>
         /\ \A f \in Declared(lander[l].manifest) \ lander[l].todo :
              remote[f] = lander[l].manifest.files[f]
         /\ "_manifest.json" \notin lander[l].todo => remote["_manifest.json"] # Absent
         /\ lander[l].step = "put" => lander[l].key \in Turn(lander[l].todo)

\* What freeze wrote down.
SealIsOfTheBucket ==
    seal # Absent =>
        /\ seal.content \in [Files -> Contents \cup {Absent}]
        /\ seal.whole => \A f \in Files : seal.data[f] = seal.content[f]

Invariant ==
    /\ TypeOK
    /\ Shape
    /\ NothingCorruptLands
    /\ OneManifestPerRun
    /\ DiskIsAnEdition
    /\ LandsEditions
    /\ ManifestIsSomewhere
    /\ used.editions <= 1 => OneEdition
    /\ SealIsOfTheBucket

\* One command at a time: a land finds the partition it began with.
Landing ==
    \A l \in Landers : Busy(l) =>
        LET mf == lander[l].manifest
        IN  /\ Readable /\ ~Checking
            /\ disk["_manifest.json"] = mf
            /\ \A other \in Landers : Busy(other) => other = l
            /\ \A k \in KeysOf(mf) \ lander[l].todo :
                 /\ k \in Files => remote[k] = mf.files[k]
                 /\ k = "_manifest.json" => remote[k] = mf
                 /\ k = "_SUCCESS" => remote[k] = mf.run
            /\ lander[l].step = "put" /\ lander[l].key \in Undeclared =>
                 lander[l].blob = disk[lander[l].key]

\* And so does a check, which has seen every key that is not to do.
CheckIsTrue ==
    Checking =>
        /\ Readable
        /\ check.manifest = disk["_manifest.json"]
        /\ check.wrong <=> \/ check.unread
                           \/ \E k \in KeysOf(check.manifest) \ check.todo :
                                 Expected(k) # Absent /\ remote[k] # Expected(k)
        /\ check.todo \subseteq KeysOf(check.manifest)
        /\ check.prune => LocallyIntact
        /\ check.step = "remove" => check.prune /\ \A k \in Keys : remote[k] = Expected(k)

AloneInvariant == Landing /\ CheckIsTrue

-----------------------------------------------------------------------------
(* What the actions do, said once.                                         *)

LEMMA KeyFacts ==
    /\ Undeclared \subseteq Keys /\ Files \subseteq Keys
    /\ "_manifest.json" \in Keys /\ "_run.log" \in Keys /\ "_SUCCESS" \in Keys
    /\ "_manifest.json" \notin Files /\ "_run.log" \notin Files /\ "_SUCCESS" \notin Files
    /\ \A k \in Keys : \/ k \in Files
                       \/ k = "_manifest.json" \/ k = "_run.log" \/ k = "_SUCCESS"
    /\ Absent \notin Manifests /\ Absent \notin Contents
    /\ MaxEditions \in Nat
    /\ \A k \in Keys : Blob(k) \subseteq Blobs
    /\ Absent \in Blobs
  BY KeysAssumption, BoundsAssumption DEF Keys, Undeclared, Blob, Blobs

\* The keys that may come next are keys of the list; the mark comes last.
LEMMA TurnFacts ==
    ASSUME NEW todo \in SUBSET Keys, NEW k \in Turn(todo)
    PROVE  /\ k \in todo
           /\ k = "_SUCCESS" => todo = {"_SUCCESS"}
  <1>1. k \in todo /\ \A other \in todo : Rank(k) <= Rank(other)
    BY DEF Turn
  <1>2. ASSUME k = "_SUCCESS"
        PROVE  todo \subseteq {"_SUCCESS"}
    <2> SUFFICES ASSUME NEW other \in todo, other # "_SUCCESS"
                 PROVE  FALSE
      OBVIOUS
    <2>1. Rank(k) = 3 /\ Rank(other) \in {0, 1, 2}
      BY <1>2, KeyFacts DEF Rank
    <2> QED
      BY <1>1, <2>1
  <1> QED
    BY <1>1, <1>2

LEMMA DoneFacts ==
    ASSUME Shape, NEW l \in Landers, NEW k \in Keys
    PROVE  /\ Done(l, k).step = IF lander[l].todo \ {k} = {} THEN "landed" ELSE "head"
           /\ Done(l, k).manifest = lander[l].manifest
           /\ Done(l, k).todo = lander[l].todo \ {k}
           /\ Done(l, k).key = Absent
           /\ Done(l, k).blob = Absent
           /\ Done(l, k) \in [step : {"rest", "head", "put", "landed", "failed"},
                              manifest : Manifests \cup {Absent}, todo : SUBSET Keys,
                              key : Keys \cup {Absent}, blob : Blobs]
  <1>1. lander[l].manifest \in Manifests \cup {Absent} /\ lander[l].todo \in SUBSET Keys
    BY DEF Shape
  <1>2. /\ Absent \in Keys \cup {Absent} /\ Absent \in Blobs
        /\ lander[l].todo \ {k} \in SUBSET Keys
    BY <1>1, KeyFacts
  <1>3. Done(l, k).step = IF lander[l].todo \ {k} = {} THEN "landed" ELSE "head"
    BY DEF Shape, Done
  <1> QED
    BY <1>1, <1>2, <1>3 DEF Shape, Done

\* Reading the local file ends the land, or the key, or asks for a put.
LEMMA HeadFacts ==
    ASSUME TypeOK, Shape, NEW l \in Landers, HeadObject(l)
    PROVE  /\ lander[l].step = "head"
           /\ UNCHANGED << disk, remote, check, seal, published, used >>
           /\ \A x \in Landers : x # l => lander'[x] = lander[x]
           /\ \E k \in lander[l].todo :
                /\ k \in Keys /\ k \in Turn(lander[l].todo)
                /\ \/ lander'[l] = [Resting EXCEPT !.step = "failed"]
                   \/ /\ ~Refused(l, k) /\ disk[k] \in {Absent, remote[k]}
                      /\ lander'[l] = Done(l, k)
                   \/ /\ ~Refused(l, k) /\ disk[k] \notin {Absent, remote[k]}
                      /\ lander'[l] = [lander[l] EXCEPT !.step = "put", !.key = k, !.blob = disk[k]]
  <1>1. PICK k \in Turn(lander[l].todo) :
          lander' = [lander EXCEPT ![l] =
              IF Refused(l, k) THEN [Resting EXCEPT !.step = "failed"]
              ELSE IF disk[k] \in {Absent, remote[k]} THEN Done(l, k)
              ELSE [@ EXCEPT !.step = "put", !.key = k, !.blob = disk[k]]]
    BY DEF HeadObject
  <1>2. k \in lander[l].todo /\ k \in Keys
    BY TurnFacts DEF TypeOK
  <1>3. \A x \in Landers : x # l => lander'[x] = lander[x]
    BY <1>1 DEF Shape
  <1>4. lander'[l] = IF Refused(l, k) THEN [Resting EXCEPT !.step = "failed"]
                     ELSE IF disk[k] \in {Absent, remote[k]} THEN Done(l, k)
                     ELSE [lander[l] EXCEPT !.step = "put", !.key = k, !.blob = disk[k]]
    BY <1>1 DEF Shape
  <1> QED
    BY <1>2, <1>3, <1>4 DEF HeadObject

\* The object is there, and the others as they were.
LEMMA PutFacts ==
    ASSUME TypeOK, Shape, NEW l \in Landers, PutObject(l)
    PROVE  /\ lander[l].step = "put"
           /\ lander[l].key \in lander[l].todo /\ lander[l].key \in Keys
           /\ UNCHANGED << disk, check, seal, published, used >>
           /\ \A x \in Landers : x # l => lander'[x] = lander[x]
           /\ lander'[l] = Done(l, lander[l].key)
           /\ remote' \in [Keys -> Blobs]
           /\ \A k \in Keys : remote'[k] = IF k = lander[l].key THEN lander[l].blob ELSE remote[k]
  <1>1. lander[l].step = "put" /\ lander[l].key \in lander[l].todo /\ lander[l].key \in Keys
    BY DEF PutObject, TypeOK
  <1>2. lander[l].blob \in Blobs
    BY DEF Shape
  <1> QED
    BY <1>1, <1>2 DEF PutObject, Shape

\* A land begins with everything to do.
LEMMA BeginFacts ==
    ASSUME TypeOK, Shape, NEW l \in Landers, BeginLand(l)
    PROVE  /\ ~Busy(l) /\ Alone /\ Readable
           /\ UNCHANGED << disk, remote, check, seal, published, used >>
           /\ \A x \in Landers : x # l => lander'[x] = lander[x]
           /\ lander'[l] = [step |-> "head", manifest |-> disk["_manifest.json"],
                            todo |-> KeysOf(disk["_manifest.json"]), key |-> Absent, blob |-> Absent]
           /\ disk["_manifest.json"] \in Manifests
           /\ KeysOf(disk["_manifest.json"]) \in SUBSET Keys
           /\ "_SUCCESS" \in KeysOf(disk["_manifest.json"])
  <1>1. disk["_manifest.json"] \in Manifests
    BY KeyFacts DEF BeginLand, Readable, TypeOK, Blob
  <1>2. KeysOf(disk["_manifest.json"]) \in SUBSET Keys
    BY KeyFacts DEF KeysOf, Declared
  <1>3. "_SUCCESS" \in KeysOf(disk["_manifest.json"])
    BY DEF KeysOf, Undeclared
  <1> QED
    BY <1>1, <1>2, <1>3 DEF BeginLand, Shape

\* A new edition on the disk.
LEMMA PublishFacts ==
    ASSUME TypeOK, Shape, NEW files \in Editions, Publish(files),
           NEW mf, mf = [run |-> used.editions + 1, complete |-> TRUE, files |-> files]
    PROVE  /\ Alone /\ ~Readable
           /\ mf \in Manifests /\ mf # Absent /\ mf.run = used.editions + 1 /\ mf.complete
           /\ mf.files = files
           /\ disk' \in [Keys -> Blobs]
           /\ \A f \in Files : disk'[f] = files[f] /\ files[f] \in Contents \cup {Absent}
           /\ disk'["_manifest.json"] = mf
           /\ disk'["_run.log"] = mf.run /\ disk'["_SUCCESS"] = mf.run
           /\ published' = published \cup {mf}
           /\ used' \in [editions : 0 .. MaxEditions, damage : Nat, crashes : Nat]
           /\ used'.editions = used.editions + 1
           /\ used.editions \in Nat
           /\ mf.run \in 1 .. MaxEditions
           /\ UNCHANGED << remote, lander, check, seal >>
  <1>1. /\ used.editions \in Nat /\ used.editions + 1 \in 1 .. MaxEditions
        /\ files \in [Files -> Contents \cup {Absent}]
    BY KeyFacts DEF Publish, Shape, Editions
  <1>2. mf \in Manifests /\ mf # Absent
    <2>1. mf \in Manifests
      BY <1>1 DEF Manifests
    <2> QED
      BY <2>1, KeyFacts
  <1>3. /\ Alone /\ ~Readable /\ used.editions < MaxEditions
        /\ disk' = [k \in Keys |-> IF k \in Files THEN files[k]
                                   ELSE IF k = "_manifest.json" THEN mf ELSE used.editions + 1]
        /\ published' = published \cup {mf}
        /\ used' = [used EXCEPT !.editions = used.editions + 1]
        /\ UNCHANGED << remote, lander, check, seal >>
    BY DEF Publish
  <1>4. /\ disk'["_manifest.json"] = mf
        /\ disk'["_run.log"] = used.editions + 1 /\ disk'["_SUCCESS"] = used.editions + 1
        /\ \A f \in Files : disk'[f] = files[f]
    BY <1>3, KeyFacts
  <1>5. disk' \in [Keys -> Blobs]
    <2>1. mf \in Blobs /\ used.editions + 1 \in Blobs /\ \A f \in Files : files[f] \in Blobs
      BY <1>1, <1>2 DEF Blobs
    <2> QED
      BY <1>3, <2>1
  <1>6. used' \in [editions : 0 .. MaxEditions, damage : Nat, crashes : Nat]
        /\ used'.editions = used.editions + 1
    BY <1>1, <1>3 DEF Shape
  <1> QED
    BY <1>1, <1>2, <1>3, <1>4, <1>5, <1>6

\* Both marks of completeness taken back.
LEMMA ReopenFacts ==
    ASSUME TypeOK, Shape, Reopen
    PROVE  /\ Alone /\ Readable
           /\ UNCHANGED << remote, lander, check, seal, published, used >>
           /\ disk' \in [Keys -> Blobs]
           /\ disk'["_SUCCESS"] = Absent
           /\ disk'["_run.log"] = disk["_run.log"]
           /\ \A f \in Files : disk'[f] = disk[f]
           /\ disk'["_manifest.json"] \in Manifests
           /\ ~disk'["_manifest.json"].complete
           /\ disk'["_manifest.json"].files = disk["_manifest.json"].files
           /\ disk'["_manifest.json"].run = disk["_manifest.json"].run
  <1>1. disk["_manifest.json"] \in Manifests
    BY KeyFacts DEF Reopen, Readable, TypeOK, Blob
  <1>2. disk' = [disk EXCEPT !["_manifest.json"] = [disk["_manifest.json"] EXCEPT !.complete = FALSE],
                             !["_SUCCESS"] = Absent]
    BY DEF Reopen
  <1>3. PICK mf : mf = [disk["_manifest.json"] EXCEPT !.complete = FALSE]
    OBVIOUS
  <1>4. mf \in Manifests /\ ~mf.complete /\ mf.files = disk["_manifest.json"].files
        /\ mf.run = disk["_manifest.json"].run
    BY <1>1, <1>3 DEF Manifests
  <1>5. disk' = [disk EXCEPT !["_manifest.json"] = mf, !["_SUCCESS"] = Absent]
    BY <1>2, <1>3
  <1>6. disk' \in [Keys -> Blobs]
    BY <1>4, <1>5 DEF Shape, Blobs
  <1>7. /\ disk'["_SUCCESS"] = Absent /\ disk'["_manifest.json"] = mf
        /\ disk'["_run.log"] = disk["_run.log"]
        /\ \A f \in Files : disk'[f] = disk[f]
    BY <1>5, KeyFacts DEF Shape
  <1> QED
    BY <1>4, <1>6, <1>7 DEF Reopen

-----------------------------------------------------------------------------
(* Types.                                                                  *)

LanderTypes ==
    \A l \in Landers :
        /\ lander[l].step \in {"rest", "head", "put", "landed", "failed"}
        /\ lander[l].todo \subseteq Keys
        /\ Busy(l) <=> lander[l].todo # {}
        /\ lander[l].step = "put" => lander[l].key \in lander[l].todo
                                     /\ lander[l].blob \in Blob(lander[l].key)

CheckTypes ==
    /\ check.step \in {"rest", "objects", "prefix", "remove"}
    /\ check.todo \subseteq Keys
    /\ check.step = "objects" <=> check.todo # {}

LEMMA LanderTypeStep ==
    ASSUME TypeOK, Shape, [Next]_vars
    PROVE  /\ lander' \in [Landers -> [step : {"rest", "head", "put", "landed", "failed"},
                               manifest : Manifests \cup {Absent}, todo : SUBSET Keys,
                               key : Keys \cup {Absent}, blob : Blobs]]
           /\ LanderTypes'
  <1> DEFINE Rec == [step : {"rest", "head", "put", "landed", "failed"},
                     manifest : Manifests \cup {Absent}, todo : SUBSET Keys,
                     key : Keys \cup {Absent}, blob : Blobs]
             Good(p) == /\ (p.step \in {"head", "put"}) <=> p.todo # {}
                        /\ p.step = "put" => p.key \in p.todo /\ p.blob \in Blob(p.key)
  <1>1. lander \in [Landers -> Rec] /\ \A l \in Landers : Good(lander[l])
    BY DEF Shape, TypeOK, Busy
  <1>2. ASSUME lander' \in [Landers -> Rec], \A l \in Landers : Good(lander'[l])
        PROVE  /\ lander' \in [Landers -> Rec]
               /\ LanderTypes'
    BY <1>2 DEF LanderTypes, Busy
  <1>3. ASSUME NEW l \in Landers, NEW p \in Rec, Good(p), lander' = [lander EXCEPT ![l] = p]
        PROVE  lander' \in [Landers -> Rec] /\ \A x \in Landers : Good(lander'[x])
    <2>1. lander' \in [Landers -> Rec]
      BY <1>1, <1>3
    <2>2. \A x \in Landers : lander'[x] = IF x = l THEN p ELSE lander[x]
      BY <1>1, <1>3
    <2> QED
      BY <1>1, <1>3, <2>1, <2>2
  <1>4. CASE lander' = lander
    BY <1>1, <1>2, <1>4
  <1>5. ASSUME NEW l \in Landers, BeginLand(l)
        PROVE  lander' \in [Landers -> Rec] /\ \A x \in Landers : Good(lander'[x])
    <2>1. PICK p : p = [step |-> "head", manifest |-> disk["_manifest.json"],
                        todo |-> KeysOf(disk["_manifest.json"]), key |-> Absent, blob |-> Absent]
      OBVIOUS
    <2>2. p \in Rec
      BY <1>5, <2>1, BeginFacts, KeyFacts
    <2>3. Good(p)
      BY <1>5, <2>1, BeginFacts
    <2>4. lander' = [lander EXCEPT ![l] = p]
      BY <1>5, <2>1 DEF BeginLand
    <2> QED
      BY <1>3, <2>2, <2>3, <2>4
  <1>6. ASSUME NEW l \in Landers, NEW k \in Keys, k \in lander[l].todo
        PROVE  Done(l, k) \in Rec /\ Good(Done(l, k))
    BY <1>6, DoneFacts
  <1>7. /\ [Resting EXCEPT !.step = "failed"] \in Rec
        /\ Good([Resting EXCEPT !.step = "failed"])
        /\ Resting \in Rec /\ Good(Resting)
    BY KeyFacts DEF Resting
  <1>8. ASSUME NEW l \in Landers, HeadObject(l)
        PROVE  lander' \in [Landers -> Rec] /\ \A x \in Landers : Good(lander'[x])
    <2>1. PICK k \in Turn(lander[l].todo) :
            lander' = [lander EXCEPT ![l] =
              IF Refused(l, k) THEN [Resting EXCEPT !.step = "failed"]
              ELSE IF disk[k] \in {Absent, remote[k]} THEN Done(l, k)
              ELSE [@ EXCEPT !.step = "put", !.key = k, !.blob = disk[k]]]
      BY <1>8 DEF HeadObject
    <2>2. k \in lander[l].todo /\ k \in Keys
      BY TurnFacts DEF TypeOK
    <2>3. PICK p : p = [lander[l] EXCEPT !.step = "put", !.key = k, !.blob = disk[k]]
      OBVIOUS
    <2>4. p \in Rec /\ p.step = "put" /\ p.todo = lander[l].todo /\ p.key = k /\ p.blob = disk[k]
      <3>1. lander[l] \in Rec /\ disk[k] \in Blobs
        BY <2>2 DEF Shape
      <3>2. /\ p.step = "put" /\ p.todo = lander[l].todo /\ p.key = k /\ p.blob = disk[k]
            /\ p \in [step : {"rest", "head", "put", "landed", "failed"},
                     manifest : Manifests \cup {Absent}, todo : SUBSET Keys,
                     key : Keys \cup {Absent}, blob : Blobs]
        BY <2>2, <2>3, <3>1
      <3> QED
        BY <3>2
    <2>5. disk[k] # Absent => Good(p)
      BY <2>2, <2>4 DEF TypeOK
    <2>6. \/ lander' = [lander EXCEPT ![l] = [Resting EXCEPT !.step = "failed"]]
          \/ lander' = [lander EXCEPT ![l] = Done(l, k)]
          \/ disk[k] # Absent /\ lander' = [lander EXCEPT ![l] = p]
      BY <2>1, <2>3
    <2> QED
      BY <1>3, <1>6, <1>7, <2>2, <2>4, <2>5, <2>6
  <1>9. ASSUME NEW l \in Landers, PutObject(l)
        PROVE  lander' \in [Landers -> Rec] /\ \A x \in Landers : Good(lander'[x])
    <2>1. lander' = [lander EXCEPT ![l] = Done(l, lander[l].key)]
      BY <1>9 DEF PutObject
    <2> QED
      BY <1>3, <1>6, <1>9, <2>1, PutFacts
  <1>10. ASSUME NEW l \in Landers, Crash(l)
         PROVE  lander' \in [Landers -> Rec] /\ \A x \in Landers : Good(lander'[x])
    BY <1>3, <1>7, <1>10 DEF Crash
  <1>11. \/ lander' = lander
         \/ \E l \in Landers : BeginLand(l) \/ HeadObject(l) \/ PutObject(l) \/ Crash(l)
    BY DEF Next, Reopen, Publish, Damage, BeginCheck, CheckObject, CheckPrefix, Prune, Freeze, vars
  <1> QED
    BY <1>2, <1>4, <1>5, <1>8, <1>9, <1>10, <1>11

LEMMA CheckTypeStep ==
    ASSUME TypeOK, Shape, [Next]_vars
    PROVE  /\ check' \in [step : {"rest", "objects", "prefix", "remove"},
                          manifest : Manifests \cup {Absent}, todo : SUBSET Keys,
                          wrong : BOOLEAN, unread : BOOLEAN, prune : BOOLEAN]
           /\ CheckTypes'
  <1> DEFINE Rec == [step : {"rest", "objects", "prefix", "remove"},
                     manifest : Manifests \cup {Absent}, todo : SUBSET Keys,
                     wrong : BOOLEAN, unread : BOOLEAN, prune : BOOLEAN]
  <1>1. check \in Rec /\ CheckTypes
    BY DEF Shape, TypeOK, CheckTypes
  <1>2. Unchecked \in Rec /\ Unchecked.step = "rest" /\ Unchecked.todo = {}
    BY DEF Unchecked
  <1>3. CASE check' = check
    BY <1>1, <1>3 DEF CheckTypes
  <1>4. ASSUME NEW prune \in BOOLEAN, BeginCheck(prune)
        PROVE  check' \in Rec /\ CheckTypes'
    <2>1. disk["_manifest.json"] \in Manifests
      BY <1>4, KeyFacts DEF BeginCheck, LocallyIntact, Readable, TypeOK, Blob
    <2>2. KeysOf(disk["_manifest.json"]) \in SUBSET Keys /\ KeysOf(disk["_manifest.json"]) # {}
      BY KeyFacts DEF KeysOf, Declared, Undeclared
    <2>3. check' = [step |-> "objects", manifest |-> disk["_manifest.json"], wrong |-> FALSE,
                    unread |-> FALSE, prune |-> prune, todo |-> KeysOf(disk["_manifest.json"])]
      BY <1>4 DEF BeginCheck
    <2> QED
      BY <2>1, <2>2, <2>3 DEF CheckTypes
  <1>5. CASE \E fetched \in BOOLEAN : CheckObject(fetched)
    <2>1. PICK k \in Turn(check.todo), fetched \in BOOLEAN :
            /\ ~fetched => Expected(k) # Absent
            /\ check' = [check EXCEPT
                 !.todo = @ \ {k},
                 !.wrong = @ \/ ~fetched \/ (Expected(k) # Absent /\ remote[k] # Expected(k)),
                 !.unread = @ \/ ~fetched,
                 !.step = IF check.todo = {k} THEN "prefix" ELSE @]
      BY <1>5 DEF CheckObject
    <2>2. PICK w \in BOOLEAN, u \in BOOLEAN :
            /\ w = (check.wrong \/ ~fetched \/ (Expected(k) # Absent /\ remote[k] # Expected(k)))
            /\ u = (check.unread \/ ~fetched)
      BY DEF Shape
    <2>3. PICK st \in {"rest", "objects", "prefix", "remove"} :
            st = IF check.todo = {k} THEN "prefix" ELSE check.step
      BY DEF Shape
    <2>4. check' = [check EXCEPT !.todo = check.todo \ {k}, !.wrong = w, !.unread = u, !.step = st]
      BY <2>1, <2>2, <2>3
    <2>5. check' \in Rec /\ check'.todo = check.todo \ {k} /\ check'.step = st
      BY <2>4 DEF Shape
    <2>6. k \in check.todo /\ check.step = "objects"
      BY <1>5 DEF CheckObject, Turn
    <2> QED
      BY <2>3, <2>5, <2>6 DEF CheckTypes
  <1>6. CASE CheckPrefix
    <2>1. check.step = "prefix" /\ check.todo = {}
      BY <1>1, <1>6 DEF CheckPrefix, CheckTypes
    <2>2. PICK w \in BOOLEAN : w = (check.wrong \/ Orphans # {} \/ remote["_SUCCESS"] = Absent)
      BY DEF Shape
    <2>3. \/ check' = [Unchecked EXCEPT !.step = "rest", !.wrong = w]
          \/ check' = [check EXCEPT !.step = "remove"]
      BY <1>6, <2>2 DEF CheckPrefix
    <2> QED
      BY <1>1, <1>2, <2>1, <2>3 DEF CheckTypes, Unchecked
  <1>7. ASSUME NEW left \in SUBSET Keys, Prune(left)
        PROVE  check' \in Rec /\ CheckTypes'
    BY <1>2, <1>7 DEF Prune, CheckTypes
  <1>8. \/ check' = check
        \/ \E prune \in BOOLEAN : BeginCheck(prune)
        \/ \E fetched \in BOOLEAN : CheckObject(fetched)
        \/ CheckPrefix
        \/ \E left \in SUBSET Keys : Prune(left)
    BY DEF Next, Reopen, Publish, Damage, BeginLand, HeadObject, PutObject, Crash, Freeze, vars
  <1> QED
    BY <1>3, <1>4, <1>5, <1>6, <1>7, <1>8

\* A step of verify touches nothing of the store.
LEMMA CheckObjectFacts ==
    ASSUME \E fetched \in BOOLEAN : CheckObject(fetched)
    PROVE  /\ UNCHANGED << disk, remote, lander, seal, published >>
           /\ \E n \in Nat : used' = [used EXCEPT !.crashes = used.crashes + n]
           /\ Shape => used'.editions = used.editions
  <1>1. PICK fetched \in BOOLEAN : CheckObject(fetched)
    OBVIOUS
  <1>2. PICK n \in Nat : n = IF fetched THEN 0 ELSE 1
    OBVIOUS
  <1>3. used' = [used EXCEPT !.crashes = used.crashes + n]
    BY <1>1, <1>2 DEF CheckObject
  <1>4. Shape => used'.editions = used.editions
    BY <1>3 DEF Shape
  <1> QED
    BY <1>1, <1>3, <1>4 DEF CheckObject

LEMMA StoreTypeStep ==
    ASSUME TypeOK, Shape, [Next]_vars
    PROVE  /\ disk' \in [Keys -> Blobs] /\ remote' \in [Keys -> Blobs]
           /\ used' \in [editions : 0 .. MaxEditions, damage : Nat, crashes : Nat]
           /\ \A k \in Keys : /\ disk'[k] \in Blob(k) \cup {Absent}
                              /\ remote'[k] \in Blob(k) \cup {Absent}
           /\ published' \subseteq Manifests
  <1> DEFINE Types == /\ disk' \in [Keys -> Blobs] /\ remote' \in [Keys -> Blobs]
                      /\ used' \in [editions : 0 .. MaxEditions, damage : Nat, crashes : Nat]
                      /\ \A k \in Keys : /\ disk'[k] \in Blob(k) \cup {Absent}
                                         /\ remote'[k] \in Blob(k) \cup {Absent}
                      /\ published' \subseteq Manifests
  <1>0. /\ disk \in [Keys -> Blobs] /\ remote \in [Keys -> Blobs]
        /\ used \in [editions : 0 .. MaxEditions, damage : Nat, crashes : Nat]
        /\ \A k \in Keys : /\ disk[k] \in Blob(k) \cup {Absent}
                           /\ remote[k] \in Blob(k) \cup {Absent}
        /\ published \subseteq Manifests
    BY DEF Shape, TypeOK
  <1>1. CASE UNCHANGED << disk, remote, used, published >>
    BY <1>0, <1>1
  <1>2. CASE Reopen
    <2>1. \A k \in Keys : disk'[k] \in Blob(k) \cup {Absent}
      BY <1>0, <1>2, ReopenFacts, KeyFacts DEF Blob
    <2> QED
      BY <1>0, <1>2, <2>1, ReopenFacts
  <1>3. ASSUME NEW files \in Editions, Publish(files)
        PROVE  Types
    <2>1. PICK mf : mf = [run |-> used.editions + 1, complete |-> TRUE, files |-> files]
      OBVIOUS
    <2>2. \A k \in Keys : disk'[k] \in Blob(k) \cup {Absent}
      BY <1>3, <2>1, PublishFacts, KeyFacts DEF Blob
    <2>3. published' \subseteq Manifests
      BY <1>0, <1>3, <2>1, PublishFacts
    <2> QED
      BY <1>0, <1>3, <2>1, <2>2, <2>3, PublishFacts
  <1>4. ASSUME NEW f \in Files, NEW blob \in Contents \cup {Absent}, Damage(f, blob)
        PROVE  Types
    <2>1. disk' = [disk EXCEPT ![f] = blob] /\ UNCHANGED << remote, published >>
      BY <1>4 DEF Damage
    <2>2. blob \in Blobs /\ blob \in Blob(f) \cup {Absent}
      BY DEF Blobs, Blob
    <2>3. used' \in [editions : 0 .. MaxEditions, damage : Nat, crashes : Nat]
      <3>1. used' = [used EXCEPT !.damage = used.damage + 1]
        BY <1>4 DEF Damage
      <3>2. used.damage + 1 \in Nat
        BY <1>0
      <3> QED
        BY <1>0, <3>1, <3>2
    <2> QED
      BY <1>0, <2>1, <2>2, <2>3
  <1>5. ASSUME NEW n \in Nat, used' = [used EXCEPT !.crashes = used.crashes + n]
        PROVE  used' \in [editions : 0 .. MaxEditions, damage : Nat, crashes : Nat]
    <2>1. used.crashes + n \in Nat
      BY <1>0
    <2> QED
      BY <1>0, <1>5, <2>1
  <1>6. ASSUME NEW l \in Landers, Crash(l)
        PROVE  Types
    <2>1. used' = [used EXCEPT !.crashes = used.crashes + 1] /\ UNCHANGED << disk, remote, published >>
      BY <1>6 DEF Crash
    <2> QED
      BY <1>0, <1>5, <2>1
  <1>7. ASSUME NEW l \in Landers, PutObject(l)
        PROVE  Types
    <2>1. lander[l].blob \in Blob(lander[l].key)
      BY <1>7, PutFacts DEF TypeOK
    <2> QED
      BY <1>0, <1>7, <2>1, PutFacts
  <1>8. ASSUME NEW left \in SUBSET Keys, Prune(left)
        PROVE  Types
    <2>1. disk' = [k \in Keys |-> IF k \in left THEN disk[k] ELSE Absent]
          /\ UNCHANGED << remote, published >>
      BY <1>8 DEF Prune
    <2>2. PICK n \in Nat : n = IF left = {} THEN 0 ELSE 1
      OBVIOUS
    <2>3. used' = [used EXCEPT !.crashes = used.crashes + n]
      BY <1>8, <2>2 DEF Prune
    <2>4. disk' \in [Keys -> Blobs] /\ \A k \in Keys : disk'[k] \in Blob(k) \cup {Absent}
      BY <1>0, <2>1, KeyFacts
    <2> QED
      BY <1>0, <1>5, <2>1, <2>3, <2>4
  <1>10. CASE \E fetched \in BOOLEAN : CheckObject(fetched)
    <2>1. PICK n \in Nat : used' = [used EXCEPT !.crashes = used.crashes + n]
      BY <1>10, CheckObjectFacts
    <2> QED
      BY <1>0, <1>5, <1>10, <2>1, CheckObjectFacts
  <1>9. \/ UNCHANGED << disk, remote, used, published >>
        \/ \E fetched \in BOOLEAN : CheckObject(fetched)
        \/ Reopen
        \/ \E files \in Editions : Publish(files)
        \/ \E f \in Files, blob \in Contents \cup {Absent} : Damage(f, blob)
        \/ \E l \in Landers : PutObject(l) \/ Crash(l)
        \/ \E left \in SUBSET Keys : Prune(left)
    BY DEF Next, BeginLand, HeadObject, BeginCheck, CheckPrefix, Freeze, vars
  <1> QED
    BY <1>1, <1>2, <1>3, <1>4, <1>6, <1>7, <1>8, <1>9, <1>10

LEMMA TypeStep ==
    ASSUME TypeOK, Shape, [Next]_vars
    PROVE  TypeOK' /\ Shape'
  <1>1. LanderTypes' /\ CheckTypes'
    BY LanderTypeStep, CheckTypeStep
  <1>2. TypeOK'
    BY <1>1, StoreTypeStep DEF TypeOK, LanderTypes, CheckTypes, Busy
  <1>3. Shape'
    BY LanderTypeStep, CheckTypeStep, StoreTypeStep DEF Shape
  <1> QED
    BY <1>2, <1>3

-----------------------------------------------------------------------------
(* Any number of commands at a time.                                       *)

LEMMA InitInvariant == Init => Invariant
  <1> SUFFICES ASSUME Init
               PROVE  Invariant
    OBVIOUS
  <1> USE KeyFacts DEF Init
  <1>1. /\ \A k \in Keys : disk[k] = Absent /\ remote[k] = Absent
        /\ \A l \in Landers : lander[l] = Resting
        /\ check = Unchecked
    OBVIOUS
  <1>2. /\ Resting.step = "rest" /\ Resting.todo = {}
        /\ Unchecked.step = "rest" /\ Unchecked.todo = {}
    BY DEF Resting, Unchecked
  <1>3. \A l \in Landers : ~Busy(l)
    BY <1>1, <1>2 DEF Busy
  <1>4. ~Checking
    BY <1>1, <1>2 DEF Checking
  <1>5. used.editions = 0
    OBVIOUS
  <1>6. TypeOK
    BY <1>1, <1>2, <1>3 DEF TypeOK
  <1>7. Shape
    <2>1. Resting \in [step : {"rest", "head", "put", "landed", "failed"},
                       manifest : Manifests \cup {Absent}, todo : SUBSET Keys,
                       key : Keys \cup {Absent}, blob : Blobs]
      BY DEF Resting
    <2>2. Unchecked \in [step : {"rest", "objects", "prefix", "remove"},
                         manifest : Manifests \cup {Absent}, todo : SUBSET Keys,
                         wrong : BOOLEAN, unread : BOOLEAN, prune : BOOLEAN]
      BY DEF Unchecked
    <2>3. used \in [editions : 0 .. MaxEditions, damage : Nat, crashes : Nat]
      OBVIOUS
    <2> QED
      BY <2>1, <2>2, <2>3 DEF Shape
  <1>8. NothingCorruptLands /\ OneManifestPerRun /\ DiskIsAnEdition /\ LandsEditions
    BY <1>1, <1>3 DEF NothingCorruptLands, OneManifestPerRun, DiskIsAnEdition, LandsEditions
  <1>9. ManifestIsSomewhere
    BY <1>1, <1>2, <1>4, <1>5 DEF ManifestIsSomewhere
  <1>10. OneEdition
    BY <1>1, <1>3 DEF OneEdition
  <1>11. SealIsOfTheBucket
    BY DEF SealIsOfTheBucket
  <1> QED
    BY <1>6, <1>7, <1>8, <1>9, <1>10, <1>11 DEF Invariant

\* Only the Source counts editions and completes manifests.
LEMMA OnlyTheSource ==
    ASSUME Shape, [Next]_vars, ~\E files \in Editions : Publish(files)
    PROVE  UNCHANGED published /\ used'.editions = used.editions
  <1>1. ASSUME used' = [used EXCEPT !.damage = @ + 1] PROVE used'.editions = used.editions
    BY <1>1 DEF Shape
  <1>2. ASSUME NEW n, used' = [used EXCEPT !.crashes = @ + n] PROVE used'.editions = used.editions
    BY <1>2 DEF Shape
  <1>3. ASSUME NEW left \in SUBSET Keys, Prune(left) PROVE used'.editions = used.editions
    <2>1. PICK n : n = IF left = {} THEN 0 ELSE 1
      OBVIOUS
    <2>2. used' = [used EXCEPT !.crashes = @ + n]
      BY <1>3, <2>1 DEF Prune
    <2> QED
      BY <1>2, <2>2
  <1>4. \/ UNCHANGED used
        \/ \E fetched \in BOOLEAN : CheckObject(fetched)
        \/ \E f \in Files, blob \in Contents \cup {Absent} : Damage(f, blob)
        \/ \E l \in Landers : Crash(l)
        \/ \E left \in SUBSET Keys : Prune(left)
    BY DEF Next, Reopen, BeginLand, HeadObject, PutObject, BeginCheck, CheckPrefix, Freeze, vars
  <1>5. used'.editions = used.editions
    BY <1>1, <1>2, <1>3, <1>4, CheckObjectFacts DEF Damage, Crash
  <1>6. UNCHANGED published
    BY DEF Next, Reopen, Damage, BeginLand, HeadObject, PutObject, Crash, BeginCheck, CheckObject,
           CheckPrefix, Prune, Freeze, vars
  <1> QED
    BY <1>5, <1>6

LEMMA EditionsStep ==
    ASSUME TypeOK, Shape, OneManifestPerRun, [Next]_vars
    PROVE  OneManifestPerRun'
  <1>1. CASE ~\E files \in Editions : Publish(files)
    BY <1>1, OnlyTheSource DEF OneManifestPerRun
  <1>2. ASSUME NEW files \in Editions, Publish(files)
        PROVE  OneManifestPerRun'
    <2>1. PICK mf : mf = [run |-> used.editions + 1, complete |-> TRUE, files |-> files]
      OBVIOUS
    <2>2. /\ published' = published \cup {mf} /\ used'.editions = used.editions + 1
          /\ used.editions \in Nat /\ mf.run = used.editions + 1 /\ mf.complete
      BY <1>2, <2>1, PublishFacts
    <2>3. \A other \in published : other.run \in Int /\ other.run <= used.editions
      BY KeyFacts DEF OneManifestPerRun, TypeOK, Manifests
    <2> QED
      BY <2>2, <2>3 DEF OneManifestPerRun
  <1> QED
    BY <1>1, <1>2

LEMMA DiskStep ==
    ASSUME TypeOK, Shape, DiskIsAnEdition, [Next]_vars
    PROVE  DiskIsAnEdition'
  <1>1. CASE UNCHANGED << disk, published >>
    BY <1>1 DEF DiskIsAnEdition, OfAnEdition, Declared
  <1>2. CASE Reopen
    <2>1. disk["_manifest.json"] # Absent
      BY <1>2, ReopenFacts DEF Readable
    <2>2. \A f \in Files : f \in Declared(disk["_manifest.json"]) =>
                           f \in Declared(disk'["_manifest.json"])
      BY <1>2, ReopenFacts DEF Declared
    <2> QED
      BY <1>2, <2>1, <2>2, ReopenFacts DEF DiskIsAnEdition, OfAnEdition
  <1>3. ASSUME NEW files \in Editions, Publish(files)
        PROVE  DiskIsAnEdition'
    <2>1. PICK mf : mf = [run |-> used.editions + 1, complete |-> TRUE, files |-> files]
      OBVIOUS
    <2>2. /\ published' = published \cup {mf} /\ mf.files = files
          /\ disk'["_manifest.json"] = mf /\ disk'["_SUCCESS"] = mf.run
          /\ \A f \in Files : disk'[f] = files[f]
      BY <1>3, <2>1, PublishFacts
    <2>3. \A f \in Files : disk'[f] # Absent => f \in Declared(mf)
      BY <2>2 DEF Declared
    <2> QED
      BY <2>2, <2>3 DEF DiskIsAnEdition, OfAnEdition
  <1>4. ASSUME NEW f \in Files, NEW blob \in Contents \cup {Absent}, Damage(f, blob)
        PROVE  DiskIsAnEdition'
    <2>1. /\ disk[f] # Absent /\ UNCHANGED published
          /\ \A k \in Keys : disk'[k] = IF k = f THEN blob ELSE disk[k]
      BY <1>4 DEF Damage, Shape
    <2>2. disk'["_manifest.json"] = disk["_manifest.json"] /\ disk'["_SUCCESS"] = disk["_SUCCESS"]
      BY <2>1, KeyFacts
    <2>3. \A x \in Files : disk'[x] # Absent => disk[x] # Absent
      BY <2>1, KeyFacts
    <2> QED
      BY <2>1, <2>2, <2>3 DEF DiskIsAnEdition, OfAnEdition
  <1>5. ASSUME NEW left \in SUBSET Keys, Prune(left)
        PROVE  DiskIsAnEdition'
    <2>1. UNCHANGED published /\ \A k \in Keys : disk'[k] \in {disk[k], Absent}
      BY <1>5 DEF Prune
    <2>2. disk'["_manifest.json"] \in {disk["_manifest.json"], Absent}
          /\ disk'["_SUCCESS"] \in {disk["_SUCCESS"], Absent}
          /\ \A x \in Files : disk'[x] # Absent => disk[x] # Absent
      BY <2>1, KeyFacts
    <2> QED
      BY <2>1, <2>2 DEF DiskIsAnEdition, OfAnEdition
  <1>6. \/ UNCHANGED << disk, published >>
        \/ Reopen
        \/ \E files \in Editions : Publish(files)
        \/ \E f \in Files, blob \in Contents \cup {Absent} : Damage(f, blob)
        \/ \E left \in SUBSET Keys : Prune(left)
    BY DEF Next, BeginLand, HeadObject, PutObject, Crash, BeginCheck, CheckObject, CheckPrefix,
           Freeze, vars
  <1> QED
    BY <1>1, <1>2, <1>3, <1>4, <1>5, <1>6

\* What a step does to the landers and to the bucket.
LEMMA LanderSteps ==
    ASSUME [Next]_vars
    PROVE  \/ UNCHANGED << lander, remote >>
           \/ \E l \in Landers : BeginLand(l) \/ HeadObject(l) \/ PutObject(l) \/ Crash(l)
  BY DEF Next, Reopen, Publish, Damage, BeginCheck, CheckObject, CheckPrefix, Prune, Freeze, vars

LEMMA PublishedGrows ==
    ASSUME [Next]_vars
    PROVE  published \subseteq published'
  BY DEF Next, Reopen, Publish, Damage, BeginLand, HeadObject, PutObject, Crash, BeginCheck,
         CheckObject, CheckPrefix, Prune, Freeze, vars

\* What a lander that dies or refuses a file leaves behind.
LEMMA GivenUp ==
    /\ Resting.step = "rest"
    /\ [Resting EXCEPT !.step = "failed"].step = "failed"
  BY DEF Resting

LEMMA CrashFacts ==
    ASSUME Shape, NEW l \in Landers, Crash(l)
    PROVE  /\ Busy(l)
           /\ UNCHANGED << disk, remote, check, seal, published >>
           /\ \A x \in Landers : x # l => lander'[x] = lander[x]
           /\ lander'[l] = Resting
  BY DEF Crash, Shape

LEMMA LandsStep ==
    ASSUME TypeOK, Shape, DiskIsAnEdition, LandsEditions, NothingCorruptLands, [Next]_vars
    PROVE  LandsEditions' /\ NothingCorruptLands'
  <1> DEFINE Lands(p) == p.step \in {"head", "put"} =>
                /\ p.manifest \in published
                /\ p.todo \subseteq KeysOf(p.manifest)
                /\ p.step = "put" =>
                     /\ p.key \in Files => p.blob = p.manifest.files[p.key]
                     /\ p.key = "_manifest.json" => OfAnEdition(p.blob)
             Bucket == /\ remote'["_manifest.json"] # Absent => OfAnEdition(remote'["_manifest.json"])
                       /\ \A f \in Files : remote'[f] # Absent =>
                            \E mf \in published : mf.files[f] = remote'[f]
  <1>1. \A l \in Landers : Lands(lander[l])
    BY DEF LandsEditions, Busy
  <1>2. ASSUME \A l \in Landers : Lands(lander'[l]), Bucket
        PROVE  LandsEditions' /\ NothingCorruptLands'
    <2>1. \A p : OfAnEdition(p) => \E edition \in published' : edition.files = p.files
      BY PublishedGrows DEF OfAnEdition
    <2>2. LandsEditions'
      BY <1>2, <2>1, PublishedGrows DEF LandsEditions, Busy, OfAnEdition
    <2>3. NothingCorruptLands'
      BY <1>2, PublishedGrows DEF NothingCorruptLands
    <2> QED
      BY <2>2, <2>3
  <1>3. (UNCHANGED remote) => Bucket
    BY DEF LandsEditions, NothingCorruptLands
  <1>4. ASSUME NEW l \in Landers, \A x \in Landers : x # l => lander'[x] = lander[x],
               Lands(lander'[l])
        PROVE  \A x \in Landers : Lands(lander'[x])
    BY <1>1, <1>4
  <1>5. CASE UNCHANGED << lander, remote >>
    BY <1>1, <1>2, <1>3, <1>5
  <1>6. ASSUME NEW l \in Landers, BeginLand(l)
        PROVE  Lands(lander'[l]) /\ Bucket
    <2>1. disk["_manifest.json"] \in published
      BY <1>6, BeginFacts, KeyFacts DEF DiskIsAnEdition, Readable
    <2>2. lander'[l] = [step |-> "head", manifest |-> disk["_manifest.json"],
                        todo |-> KeysOf(disk["_manifest.json"]), key |-> Absent, blob |-> Absent]
      BY <1>6, BeginFacts
    <2>3. Lands(lander'[l])
      BY <2>1, <2>2
    <2> QED
      BY <1>3, <1>6, <2>3, BeginFacts
  <1>7. ASSUME NEW l \in Landers, NEW k \in Keys, Lands(lander[l]), Busy(l)
        PROVE  Lands(Done(l, k))
    BY <1>7, DoneFacts DEF Busy
  <1>8. ASSUME NEW l \in Landers, HeadObject(l)
        PROVE  Lands(lander'[l]) /\ Bucket
    <2> SUFFICES Lands(lander'[l])
      BY <1>3, <1>8, HeadFacts
    <2>1. lander[l].step = "head" /\ Busy(l)
      BY <1>8, HeadFacts DEF Busy
    <2>2. PICK k \in lander[l].todo :
            /\ k \in Keys /\ k \in Turn(lander[l].todo)
            /\ \/ lander'[l] = [Resting EXCEPT !.step = "failed"]
               \/ /\ ~Refused(l, k) /\ disk[k] \in {Absent, remote[k]}
                  /\ lander'[l] = Done(l, k)
               \/ /\ ~Refused(l, k) /\ disk[k] \notin {Absent, remote[k]}
                  /\ lander'[l] = [lander[l] EXCEPT !.step = "put", !.key = k, !.blob = disk[k]]
      BY <1>8, HeadFacts
    <2>3. CASE lander'[l] = [Resting EXCEPT !.step = "failed"]
      BY <2>3, GivenUp
    <2>4. CASE lander'[l] = Done(l, k)
      BY <1>1, <1>7, <2>1, <2>2, <2>4
    <2>5. CASE /\ ~Refused(l, k) /\ disk[k] \notin {Absent, remote[k]}
               /\ lander'[l] = [lander[l] EXCEPT !.step = "put", !.key = k, !.blob = disk[k]]
      <3>1. /\ lander'[l].step = "put" /\ lander'[l].manifest = lander[l].manifest
            /\ lander'[l].todo = lander[l].todo /\ lander'[l].key = k /\ lander'[l].blob = disk[k]
        BY <2>5 DEF Shape
      <3>2. k \in Files => disk[k] = lander[l].manifest.files[k]
        BY <2>5 DEF Refused
      <3>3. k = "_manifest.json" => OfAnEdition(disk[k])
        BY <2>5 DEF DiskIsAnEdition
      <3>4. Lands(lander[l])
        BY <1>1
      <3> QED
        BY <2>1, <3>1, <3>2, <3>3, <3>4 DEF Busy
    <2> QED
      BY <2>2, <2>3, <2>4, <2>5
  <1>9. ASSUME NEW l \in Landers, PutObject(l)
        PROVE  Lands(lander'[l]) /\ Bucket
    <2>1. Lands(lander[l]) /\ Busy(l)
      BY <1>1, <1>9, PutFacts DEF Busy
    <2>2. Lands(lander'[l])
      BY <1>7, <1>9, <2>1, PutFacts
    <2>3. \A k \in Keys : remote'[k] = IF k = lander[l].key THEN lander[l].blob ELSE remote[k]
      BY <1>9, PutFacts
    <2>4. /\ lander[l].manifest \in published
          /\ lander[l].key \in Files => lander[l].blob = lander[l].manifest.files[lander[l].key]
          /\ lander[l].key = "_manifest.json" => OfAnEdition(lander[l].blob)
      BY <1>9, <2>1, PutFacts
    <2>5. /\ remote["_manifest.json"] # Absent => OfAnEdition(remote["_manifest.json"])
          /\ \A f \in Files : remote[f] # Absent => \E mf \in published : mf.files[f] = remote[f]
      BY DEF LandsEditions, NothingCorruptLands
    <2>6. Bucket
      BY <2>3, <2>4, <2>5, KeyFacts
    <2> QED
      BY <2>2, <2>6
  <1>10. ASSUME NEW l \in Landers, Crash(l)
         PROVE  Lands(lander'[l]) /\ Bucket
    BY <1>3, <1>10, CrashFacts, GivenUp
  <1>11. ASSUME NEW l \in Landers, BeginLand(l) \/ HeadObject(l) \/ PutObject(l) \/ Crash(l)
         PROVE  \A x \in Landers : x # l => lander'[x] = lander[x]
    BY <1>11, BeginFacts, HeadFacts, PutFacts, CrashFacts
  <1> QED
    BY <1>2, <1>4, <1>5, <1>6, <1>8, <1>9, <1>10, <1>11, LanderSteps

LEMMA SomewhereStep ==
    ASSUME TypeOK, Shape, ManifestIsSomewhere, [Next]_vars
    PROVE  ManifestIsSomewhere'
  <1> DEFINE m == "_manifest.json"
  <1>1. remote[m] # Absent => remote'[m] # Absent
    <2>1. CASE UNCHANGED remote
      BY <2>1
    <2>2. ASSUME NEW l \in Landers, PutObject(l)
          PROVE  remote[m] # Absent => remote'[m] # Absent
      <3>1. lander[l].key = m => lander[l].blob # Absent
        BY <2>2, PutFacts, KeyFacts DEF TypeOK, Blob
      <3> QED
        BY <2>2, <3>1, PutFacts, KeyFacts
    <2>3. UNCHANGED remote \/ \E l \in Landers : PutObject(l)
      BY DEF Next, Reopen, Publish, Damage, BeginLand, HeadObject, Crash, BeginCheck, CheckObject,
             CheckPrefix, Prune, Freeze, vars
    <2> QED
      BY <2>1, <2>2, <2>3
  <1>2. ASSUME check' = check, disk'[m] = Absent => disk[m] = Absent,
               disk'[m] = Absent => used'.editions = used.editions
        PROVE  ManifestIsSomewhere'
    BY <1>1, <1>2 DEF ManifestIsSomewhere, Checking
  <1>3. CASE UNCHANGED << check, disk, used >>
    BY <1>2, <1>3
  <1>4. CASE Reopen
    BY <1>2, <1>4, ReopenFacts, KeyFacts
  <1>5. ASSUME NEW files \in Editions, Publish(files)
        PROVE  ManifestIsSomewhere'
    <2>1. PICK mf : mf = [run |-> used.editions + 1, complete |-> TRUE, files |-> files]
      OBVIOUS
    <2>2. disk'[m] = mf /\ mf # Absent /\ check' = check
      BY <1>5, <2>1, PublishFacts
    <2> QED
      BY <1>2, <2>2
  <1>6. ASSUME NEW f \in Files, NEW blob \in Contents \cup {Absent}, Damage(f, blob)
        PROVE  ManifestIsSomewhere'
    <2>1. disk'[m] = disk[m] /\ check' = check
      BY <1>6, KeyFacts DEF Damage, Shape
    <2>2. used'.editions = used.editions
      BY <1>6 DEF Damage, Shape
    <2> QED
      BY <1>2, <2>1, <2>2
  <1>7. ASSUME NEW l \in Landers, Crash(l)
        PROVE  ManifestIsSomewhere'
    <2>1. used'.editions = used.editions
      BY <1>7 DEF Crash, Shape
    <2> QED
      BY <1>2, <1>7, <2>1, CrashFacts
  <1>8. ASSUME NEW prune \in BOOLEAN, BeginCheck(prune)
        PROVE  ManifestIsSomewhere'
    <2>1. disk[m] # Absent /\ UNCHANGED << disk, used >>
      BY <1>8 DEF BeginCheck, LocallyIntact, Readable
    <2>2. check'.step = "objects" /\ m \in check'.todo
      BY <1>8 DEF BeginCheck, KeysOf, Undeclared
    <2> QED
      BY <2>1, <2>2 DEF ManifestIsSomewhere, Checking
  <1>9. CASE \E fetched \in BOOLEAN : CheckObject(fetched)
    <2>1. PICK k \in Turn(check.todo), fetched \in BOOLEAN :
            /\ ~fetched => Expected(k) # Absent
            /\ check' = [check EXCEPT
                 !.todo = @ \ {k},
                 !.wrong = @ \/ ~fetched \/ (Expected(k) # Absent /\ remote[k] # Expected(k)),
                 !.unread = @ \/ ~fetched,
                 !.step = IF check.todo = {k} THEN "prefix" ELSE @]
      BY <1>9 DEF CheckObject
    <2>2. /\ check'.todo = check.todo \ {k}
          /\ check'.step \in {"objects", "prefix"}
          /\ check'.wrong <=> (check.wrong \/ ~fetched \/ (Expected(k) # Absent /\ remote[k] # Expected(k)))
      BY <1>9, <2>1 DEF CheckObject, Shape
    <2>3. UNCHANGED << disk, remote >> /\ used'.editions = used.editions /\ Checking
      BY <1>9, CheckObjectFacts DEF CheckObject, Checking
    <2>4. disk[m] # Absent
      BY <2>3 DEF ManifestIsSomewhere
    <2>5. Expected(m) = disk[m]
      BY KeyFacts DEF Expected
    <2>6. (m \notin check'.todo /\ ~check'.wrong) => remote[m] # Absent
      BY <2>2, <2>3, <2>4, <2>5 DEF ManifestIsSomewhere
    <2> QED
      BY <2>2, <2>3, <2>4, <2>6 DEF ManifestIsSomewhere, Checking
  <1>10. CASE CheckPrefix
    <2>1. Unchecked.step = "rest" /\ \A w : [Unchecked EXCEPT !.step = "rest", !.wrong = w].step = "rest"
      BY DEF Unchecked
    <2>2. /\ UNCHANGED << disk, remote, used >> /\ Checking
          /\ \/ check'.step = "rest"
             \/ ~check.wrong /\ check' = [check EXCEPT !.step = "remove"]
      BY <1>10, <2>1 DEF CheckPrefix, Checking
    <2>3. CASE check'.step = "rest"
      BY <2>2, <2>3 DEF ManifestIsSomewhere, Checking
    <2>4. CASE ~check.wrong /\ check' = [check EXCEPT !.step = "remove"]
      <3>1. check'.step = "remove" /\ check'.todo = check.todo /\ check'.wrong = check.wrong
        BY <2>4 DEF Shape
      <3> QED
        BY <2>2, <2>4, <3>1 DEF ManifestIsSomewhere, Checking
    <2> QED
      BY <2>2, <2>3, <2>4
  <1>11. ASSUME NEW left \in SUBSET Keys, Prune(left)
         PROVE  ManifestIsSomewhere'
    <2>1. check.step = "remove" /\ check'.step = "rest" /\ UNCHANGED remote
      BY <1>11 DEF Prune, Unchecked
    <2>2. m \notin check.todo
      BY <2>1 DEF TypeOK
    <2>3. remote[m] # Absent
      BY <2>1, <2>2 DEF ManifestIsSomewhere, Checking
    <2> QED
      BY <2>1, <2>3 DEF ManifestIsSomewhere, Checking
  <1>12. \/ UNCHANGED << check, disk, used >>
         \/ Reopen
         \/ \E files \in Editions : Publish(files)
         \/ \E f \in Files, blob \in Contents \cup {Absent} : Damage(f, blob)
         \/ \E l \in Landers : Crash(l)
         \/ \E prune \in BOOLEAN : BeginCheck(prune)
         \/ \E fetched \in BOOLEAN : CheckObject(fetched)
        \/ CheckPrefix
         \/ \E left \in SUBSET Keys : Prune(left)
    BY DEF Next, BeginLand, HeadObject, PutObject, Freeze, vars
  <1> QED
    BY <1>3, <1>4, <1>5, <1>6, <1>7, <1>8, <1>9, <1>10, <1>11, <1>12

LEMMA OneEditionStep ==
    ASSUME Invariant, [Next]_vars, used'.editions <= 1
    PROVE  OneEdition'
  <1> DEFINE m == "_manifest.json"
             OnTheWay(p, objects) == p.step \in {"head", "put"} =>
                /\ \A f \in Declared(p.manifest) \ p.todo : objects[f] = p.manifest.files[f]
                /\ m \notin p.todo => objects[m] # Absent
                /\ p.step = "put" => p.key \in Turn(p.todo)
             Marked(objects) == objects["_SUCCESS"] # Absent =>
                /\ objects[m] # Absent
                /\ \A mf \in published : \A f \in Declared(mf) : objects[f] = mf.files[f]
  <1>1. TypeOK /\ Shape
    BY DEF Invariant
  <1>2. \A mf \in published : mf \in Manifests /\ mf.run \in Nat /\ mf.run >= 1 /\ mf.run <= used.editions
    BY KeyFacts DEF Invariant, OneManifestPerRun, TypeOK, Manifests
  <1>3. ASSUME NEW files \in Editions, Publish(files)
        PROVE  OneEdition'
    <2>1. PICK mf : mf = [run |-> used.editions + 1, complete |-> TRUE, files |-> files]
      OBVIOUS
    <2>2. /\ UNCHANGED << remote, lander >>
          /\ used.editions \in Nat /\ used'.editions = used.editions + 1
      BY <1>1, <1>3, <2>1, PublishFacts
    <2>3. used.editions = 0
      BY <2>2
    <2>4. published = {}
      BY <1>2, <2>3
    <2>5. OneEdition
      BY <2>3 DEF Invariant
    <2>6. remote["_SUCCESS"] = Absent
      BY <2>4, <2>5 DEF Invariant, OneEdition, LandsEditions, OfAnEdition
    <2>7. \A l \in Landers : ~Busy(l)
      BY <2>4 DEF Invariant, LandsEditions
    <2> QED
      BY <2>2, <2>6, <2>7 DEF OneEdition, Busy
  <1> SUFFICES ASSUME ~\E files \in Editions : Publish(files)
               PROVE  OneEdition'
    BY <1>3
  <1>4. UNCHANGED published /\ used'.editions = used.editions
    BY <1>1, OnlyTheSource
  <1>5. used.editions \in Nat /\ used.editions <= 1
    BY <1>1, <1>4, KeyFacts DEF Shape
  <1>6. \A mf, other \in published : mf = other
    BY <1>2, <1>5 DEF Invariant, OneManifestPerRun
  <1>7. Marked(remote) /\ \A l \in Landers : OnTheWay(lander[l], remote)
    BY <1>5 DEF Invariant, OneEdition, Busy
  <1>8. ASSUME Marked(remote'), \A l \in Landers : OnTheWay(lander'[l], remote')
        PROVE  OneEdition'
    BY <1>4, <1>8 DEF OneEdition, Busy
  <1>9. ASSUME NEW l \in Landers, Busy(l)
        PROVE  /\ lander[l].manifest \in published
               /\ lander[l].step = "put" =>
                    /\ lander[l].key \in Files =>
                         lander[l].blob = lander[l].manifest.files[lander[l].key]
    BY <1>9 DEF Invariant, LandsEditions
  <1>10. ASSUME UNCHANGED remote, NEW l \in Landers, OnTheWay(lander'[l], remote),
                \A x \in Landers : x # l => lander'[x] = lander[x]
         PROVE  OneEdition'
    BY <1>7, <1>8, <1>10
  <1>11. CASE UNCHANGED << lander, remote >>
    BY <1>7, <1>8, <1>11
  <1>12. ASSUME NEW l \in Landers, BeginLand(l)
         PROVE  OneEdition'
    <2>1. lander'[l] = [step |-> "head", manifest |-> disk[m],
                        todo |-> KeysOf(disk[m]), key |-> Absent, blob |-> Absent]
      BY <1>1, <1>12, BeginFacts
    <2>2. OnTheWay(lander'[l], remote)
      BY <2>1 DEF KeysOf, Undeclared
    <2> QED
      BY <1>1, <1>10, <1>12, <2>2, BeginFacts
  <1>13. ASSUME NEW l \in Landers, HeadObject(l)
         PROVE  OneEdition'
    <2>1. lander[l].step = "head" /\ Busy(l) /\ OnTheWay(lander[l], remote)
      BY <1>1, <1>7, <1>13, HeadFacts DEF Busy
    <2>2. PICK k \in lander[l].todo :
            /\ k \in Keys /\ k \in Turn(lander[l].todo)
            /\ \/ lander'[l] = [Resting EXCEPT !.step = "failed"]
               \/ /\ ~Refused(l, k) /\ disk[k] \in {Absent, remote[k]}
                  /\ lander'[l] = Done(l, k)
               \/ /\ ~Refused(l, k) /\ disk[k] \notin {Absent, remote[k]}
                  /\ lander'[l] = [lander[l] EXCEPT !.step = "put", !.key = k, !.blob = disk[k]]
      BY <1>1, <1>13, HeadFacts
    <2>3. ASSUME lander'[l] = [Resting EXCEPT !.step = "failed"]
          PROVE  OnTheWay(lander'[l], remote)
      BY <2>3, GivenUp
    <2>4. ASSUME ~Refused(l, k), disk[k] \in {Absent, remote[k]}, lander'[l] = Done(l, k)
          PROVE  OnTheWay(lander'[l], remote)
      <3>1. k \in Files => remote[k] = lander[l].manifest.files[k]
        BY <2>4 DEF Refused
      <3>2. used.editions > 0
        BY <1>2, <1>5, <1>9, <2>1
      <3>3. k = m => remote[k] # Absent
        BY <2>4, <3>2 DEF Invariant, ManifestIsSomewhere
      <3>4. /\ lander'[l].manifest = lander[l].manifest /\ lander'[l].todo = lander[l].todo \ {k}
            /\ lander'[l].step \in {"head", "landed"}
        BY <1>1, <2>2, <2>4, DoneFacts
      <3>5. \A f \in Declared(lander[l].manifest) : f \in Files
        BY DEF Declared
      <3> QED
        BY <2>1, <3>1, <3>3, <3>4, <3>5
    <2>5. ASSUME lander'[l] = [lander[l] EXCEPT !.step = "put", !.key = k, !.blob = disk[k]]
          PROVE  OnTheWay(lander'[l], remote)
      <3>1. /\ lander'[l].step = "put" /\ lander'[l].manifest = lander[l].manifest
            /\ lander'[l].todo = lander[l].todo /\ lander'[l].key = k
        BY <1>1, <2>5 DEF Shape
      <3> QED
        BY <2>1, <2>2, <3>1
    <2> QED
      BY <1>1, <1>10, <1>13, <2>2, <2>3, <2>4, <2>5, HeadFacts
  <1>14. ASSUME NEW l \in Landers, PutObject(l)
         PROVE  OneEdition'
    <2> DEFINE k == lander[l].key
               mine == lander[l].manifest
    <2>1. /\ lander[l].step = "put" /\ Busy(l) /\ k \in Keys
          /\ OnTheWay(lander[l], remote) /\ k \in Turn(lander[l].todo)
          /\ lander[l].todo \in SUBSET Keys
      BY <1>1, <1>7, <1>14, PutFacts DEF Busy, TypeOK
    <2>2. /\ \A x \in Keys : remote'[x] = IF x = k THEN lander[l].blob ELSE remote[x]
          /\ \A x \in Landers : x # l => lander'[x] = lander[x]
          /\ lander'[l] = Done(l, k)
      BY <1>1, <1>14, PutFacts
    <2>3. mine \in published /\ (k \in Files => lander[l].blob = mine.files[k])
      BY <1>9, <2>1
    <2>4. remote[m] # Absent \/ k = m => remote'[m] # Absent
      <3>1. k = m => lander[l].blob # Absent
        BY <1>1, <2>1, KeyFacts DEF TypeOK, Blob
      <3> QED
        BY <2>2, <3>1, KeyFacts
    <2>5. \A f \in Declared(mine) : f \in Keys /\ f \in Files
      BY KeyFacts DEF Declared
    <2>6. \A f \in Declared(mine) :
            remote[f] = mine.files[f] \/ f = k => remote'[f] = mine.files[f]
      BY <2>2, <2>3, <2>5
    <2>7. \A x \in Landers : OnTheWay(lander[x], remote) => OnTheWay(lander[x], remote')
      <3> SUFFICES ASSUME NEW x \in Landers, OnTheWay(lander[x], remote),
                          lander[x].step \in {"head", "put"}
                   PROVE  OnTheWay(lander[x], remote')
        OBVIOUS
      <3>1. lander[x].manifest = mine
        BY <1>6, <1>9, <2>3 DEF Busy
      <3> QED
        BY <2>4, <2>6, <3>1
    <2>8. OnTheWay(lander'[l], remote')
      <3>1. /\ lander'[l].manifest = mine /\ lander'[l].todo = lander[l].todo \ {k}
            /\ lander'[l].step \in {"head", "landed"}
        BY <1>1, <2>1, <2>2, DoneFacts
      <3> QED
        BY <2>1, <2>4, <2>6, <3>1
    <2>9. Marked(remote')
      <3>1. CASE k = "_SUCCESS"
        <4>1. lander[l].todo = {"_SUCCESS"}
          BY <2>1, <3>1, TurnFacts
        <4>2. /\ \A f \in Declared(mine) : remote[f] = mine.files[f]
              /\ remote[m] # Absent
          BY <2>1, <2>5, <4>1, KeyFacts
        <4> QED
          BY <1>6, <2>3, <2>4, <2>6, <4>2
      <3>2. CASE k # "_SUCCESS"
        <4>1. remote'["_SUCCESS"] = remote["_SUCCESS"]
          BY <2>2, <3>2, KeyFacts
        <4> QED
          BY <1>6, <1>7, <2>3, <2>4, <2>6, <4>1
      <3> QED
        BY <3>1, <3>2
    <2> QED
      BY <1>7, <1>8, <2>2, <2>7, <2>8, <2>9
  <1>15. ASSUME NEW l \in Landers, Crash(l)
         PROVE  OneEdition'
    <2>1. OnTheWay(lander'[l], remote)
      BY <1>1, <1>15, CrashFacts, GivenUp
    <2> QED
      BY <1>1, <1>10, <1>15, <2>1, CrashFacts
  <1> QED
    BY <1>11, <1>12, <1>13, <1>14, <1>15, LanderSteps

LEMMA SealStep ==
    ASSUME TypeOK, SealIsOfTheBucket, [Next]_vars
    PROVE  SealIsOfTheBucket'
  <1>1. CASE UNCHANGED seal
    BY <1>1 DEF SealIsOfTheBucket
  <1>2. CASE Freeze
    <2>1. remote["_manifest.json"] \in Manifests
      BY <1>2, KeyFacts DEF Freeze, TypeOK, Blob
    <2>2. /\ seal'.content = remote["_manifest.json"].files
          /\ seal'.whole = BucketWhole
          /\ \A f \in Files : seal'.data[f] = remote[f]
      BY <1>2 DEF Freeze, Content
    <2>3. seal'.content \in [Files -> Contents \cup {Absent}]
      BY <2>1, <2>2 DEF Manifests
    <2>4. seal'.whole => \A f \in Files : seal'.data[f] = seal'.content[f]
      BY <2>2 DEF BucketWhole
    <2> QED
      BY <2>3, <2>4 DEF SealIsOfTheBucket
  <1>3. UNCHANGED seal \/ Freeze
    BY DEF Next, Reopen, Publish, Damage, BeginLand, HeadObject, PutObject, Crash, BeginCheck,
           CheckObject, CheckPrefix, Prune, vars
  <1> QED
    BY <1>1, <1>2, <1>3

LEMMA InvariantStep == Invariant /\ [Next]_vars => Invariant'
  <1> SUFFICES ASSUME Invariant, [Next]_vars
               PROVE  Invariant'
    OBVIOUS
  <1>1. /\ TypeOK /\ Shape /\ NothingCorruptLands /\ OneManifestPerRun /\ DiskIsAnEdition
        /\ LandsEditions /\ ManifestIsSomewhere /\ SealIsOfTheBucket
    BY DEF Invariant
  <1>2. TypeOK' /\ Shape'
    BY <1>1, TypeStep
  <1>3. OneManifestPerRun' /\ DiskIsAnEdition'
    BY <1>1, EditionsStep, DiskStep
  <1>4. LandsEditions' /\ NothingCorruptLands'
    BY <1>1, LandsStep
  <1>5. ManifestIsSomewhere' /\ SealIsOfTheBucket'
    BY <1>1, SomewhereStep, SealStep
  <1>6. (used'.editions <= 1) => OneEdition'
    BY OneEditionStep
  <1> QED
    BY <1>2, <1>3, <1>4, <1>5, <1>6 DEF Invariant

LEMMA InvariantIsFaithful == Invariant => BucketIsFaithful
  <1> SUFFICES ASSUME Invariant
               PROVE  BucketIsFaithful
    OBVIOUS
  <1> DEFINE mf == remote["_manifest.json"]
  <1>1. mf # Absent => mf \in Manifests
    BY KeyFacts DEF Invariant, TypeOK, Blob
  <1>2. AnnouncedIsWhole
    <2> SUFFICES ASSUME used.editions <= 1, remote["_SUCCESS"] # Absent
                 PROVE  mf # Absent /\ \A f \in Declared(mf) : remote[f] = mf.files[f]
      BY DEF AnnouncedIsWhole, MarkedIsWhole
    <2>1. mf # Absent /\ \A edition \in published :
                            \A f \in Declared(edition) : remote[f] = edition.files[f]
      BY DEF Invariant, OneEdition
    <2>2. PICK edition \in published : edition.files = mf.files
      BY <2>1 DEF Invariant, LandsEditions, OfAnEdition
    <2> QED
      BY <2>1, <2>2 DEF Declared
  <1>3. SealTellsEditions
    <2> SUFFICES ASSUME seal # Absent, seal.whole, BucketWhole
                 PROVE  FreezeCheck <=> \A f \in Files : remote[f] = seal.data[f]
      BY DEF SealTellsEditions
    <2>1. mf.files \in [Files -> Contents \cup {Absent}]
      BY <1>1 DEF BucketWhole, Manifests
    <2>2. seal.content \in [Files -> Contents \cup {Absent}]
          /\ \A f \in Files : seal.data[f] = seal.content[f]
      BY DEF Invariant, SealIsOfTheBucket
    <2>3. \A f \in Files : remote[f] = mf.files[f]
      BY DEF BucketWhole
    <2> QED
      BY <2>1, <2>2, <2>3 DEF FreezeCheck, Content
  <1> QED
    BY <1>2, <1>3 DEF BucketIsFaithful, Invariant

\* The invariant holds in every state.
THEOREM InvariantHolds == Spec => []Invariant
  BY InitInvariant, InvariantStep, PTL DEF Spec

\* Whatever happens between two steps of a land or a freeze: nothing damaged
\* gets into the bucket, what carries _SUCCESS is a whole edition, and a seal
\* is of one edition.
THEOREM BucketFaithful == Spec => []BucketIsFaithful
  BY InvariantHolds, InvariantIsFaithful, PTL

-----------------------------------------------------------------------------
(* One command at a time.                                                  *)

\* The key k of the manifest mf is in the bucket.
InTheBucket(mf, k, objects) ==
    /\ k \in Files => objects[k] = mf.files[k]
    /\ k = "_manifest.json" => objects[k] = mf
    /\ k = "_SUCCESS" => objects[k] = mf.run

\* Whoever is done with a key has it in the bucket: it was there, or it was put.
LEMMA KeyLands ==
    ASSUME Invariant, Landing, NEW l \in Landers, HeadObject(l) \/ PutObject(l),
           lander'[l].step # "failed"
    PROVE  /\ Busy(l)
           /\ lander'[l].manifest = lander[l].manifest
           /\ lander'[l].todo \subseteq lander[l].todo
           /\ \A k \in KeysOf(lander[l].manifest) \ lander'[l].todo :
                InTheBucket(lander[l].manifest, k, remote')
           /\ lander'[l].step = "put" /\ lander'[l].key \in Undeclared =>
                lander'[l].blob = disk[lander'[l].key]
  <1> DEFINE mf == lander[l].manifest
  <1>1. TypeOK /\ Shape
    BY DEF Invariant
  <1>2. Busy(l)
    BY <1>1, HeadFacts, PutFacts DEF Busy
  <1>3. /\ disk["_manifest.json"] = mf /\ mf # Absent
        /\ disk["_SUCCESS"] # Absent /\ disk["_SUCCESS"] = mf.run
        /\ \A k \in KeysOf(mf) \ lander[l].todo : InTheBucket(mf, k, remote)
        /\ lander[l].step = "put" /\ lander[l].key \in Undeclared =>
                 lander[l].blob = disk[lander[l].key]
    <2>1. /\ Readable /\ disk["_manifest.json"] = mf
          /\ \A k \in KeysOf(mf) \ lander[l].todo : InTheBucket(mf, k, remote)
          /\ lander[l].step = "put" /\ lander[l].key \in Undeclared =>
                 lander[l].blob = disk[lander[l].key]
      BY <1>2 DEF Landing, InTheBucket
    <2>2. disk["_SUCCESS"] = disk["_manifest.json"].run
      BY <2>1 DEF Readable, Invariant, DiskIsAnEdition
    <2> QED
      BY <2>1, <2>2 DEF Readable
  <1>4. "_manifest.json" \in Undeclared /\ "_SUCCESS" \in Undeclared
    BY DEF Undeclared
  <1>5. CASE HeadObject(l)
    <2>1. PICK k \in lander[l].todo :
            /\ k \in Keys /\ k \in Turn(lander[l].todo)
            /\ \/ lander'[l] = [Resting EXCEPT !.step = "failed"]
               \/ /\ ~Refused(l, k) /\ disk[k] \in {Absent, remote[k]}
                  /\ lander'[l] = Done(l, k)
               \/ /\ ~Refused(l, k) /\ disk[k] \notin {Absent, remote[k]}
                  /\ lander'[l] = [lander[l] EXCEPT !.step = "put", !.key = k, !.blob = disk[k]]
      BY <1>1, <1>5, HeadFacts
    <2>2. UNCHANGED remote
      BY <1>1, <1>5, HeadFacts
    <2>3. CASE /\ ~Refused(l, k) /\ disk[k] \in {Absent, remote[k]}
               /\ lander'[l] = Done(l, k)
      <3>1. InTheBucket(mf, k, remote)
        BY <1>3, <2>3 DEF Refused, InTheBucket
      <3>2. /\ lander'[l].manifest = mf /\ lander'[l].todo = lander[l].todo \ {k}
            /\ lander'[l].step \in {"head", "landed"}
        BY <1>1, <2>1, <2>3, DoneFacts
      <3> QED
        BY <1>2, <1>3, <2>2, <3>1, <3>2
    <2>4. CASE lander'[l] = [lander[l] EXCEPT !.step = "put", !.key = k, !.blob = disk[k]]
      <3>1. /\ lander'[l].manifest = mf /\ lander'[l].todo = lander[l].todo
            /\ lander'[l].key = k /\ lander'[l].blob = disk[k]
        BY <1>1, <2>4 DEF Shape
      <3> QED
        BY <1>2, <1>3, <2>2, <3>1
    <2> QED
      BY <2>1, <2>3, <2>4, GivenUp
  <1>6. CASE PutObject(l)
    <2> DEFINE k == lander[l].key
    <2>1. /\ lander[l].step = "put" /\ k \in Keys /\ lander'[l] = Done(l, k)
          /\ \A x \in Keys : remote'[x] = IF x = k THEN lander[l].blob ELSE remote[x]
      BY <1>1, <1>6, PutFacts
    <2>2. k \in Files => lander[l].blob = mf.files[k]
      BY <1>2, <2>1 DEF Invariant, LandsEditions
    <2>3. InTheBucket(mf, k, remote')
      BY <1>3, <1>4, <2>1, <2>2 DEF InTheBucket
    <2>4. /\ lander'[l].manifest = mf /\ lander'[l].todo = lander[l].todo \ {k}
          /\ lander'[l].step \in {"head", "landed"}
      BY <1>1, <2>1, DoneFacts
    <2>5. \A x \in KeysOf(mf) : x \in Keys
      BY KeyFacts DEF KeysOf, Declared
    <2>6. \A x \in KeysOf(mf) \ lander[l].todo : InTheBucket(mf, x, remote')
      BY <1>3, <2>1, <2>3, <2>5 DEF InTheBucket
    <2> QED
      BY <1>2, <2>3, <2>4, <2>6
  <1> QED
    BY <1>5, <1>6

LEMMA LandingStep ==
    ASSUME ~Concurrent, Invariant, AloneInvariant, [Next]_vars
    PROVE  Landing'
  <1> DEFINE Lone(l, p, d, c) == p.step \in {"head", "put"} =>
                /\ d["_manifest.json"] # Absent /\ d["_manifest.json"].complete
                /\ d["_SUCCESS"] # Absent /\ c.step = "rest"
                /\ d["_manifest.json"] = p.manifest
                /\ \A k \in KeysOf(p.manifest) \ p.todo : InTheBucket(p.manifest, k, remote')
                /\ p.step = "put" /\ p.key \in Undeclared => p.blob = d[p.key]
  <1>1. TypeOK /\ Shape /\ Landing
    BY DEF Invariant, AloneInvariant
  <1>2. ASSUME NEW l \in Landers,
               \A x \in Landers : x # l => ~(lander'[x].step \in {"head", "put"}),
               Lone(l, lander'[l], disk', check')
        PROVE  Landing'
    BY <1>2 DEF Landing, Busy, Readable, Checking, InTheBucket
  <1>3. ASSUME \A l \in Landers : lander'[l].step \notin {"head", "put"}
        PROVE  Landing'
    BY <1>3 DEF Landing, Busy
  <1>4. ASSUME UNCHANGED << lander, remote, check >>, disk'["_manifest.json"] = disk["_manifest.json"],
               disk'["_SUCCESS"] = disk["_SUCCESS"], disk'["_run.log"] = disk["_run.log"]
        PROVE  Landing'
    <2> SUFFICES ASSUME NEW l \in Landers, Busy(l)
                 PROVE  Landing'
      BY <1>3, <1>4 DEF Busy
    <2>1. \A x \in Landers : x # l => ~(lander'[x].step \in {"head", "put"})
      BY <1>1, <1>4 DEF Landing, Busy
    <2>2. Lone(l, lander'[l], disk', check')
      <3>1. \A k \in Undeclared : disk'[k] = disk[k]
        BY <1>4 DEF Undeclared
      <3> QED
        BY <1>1, <1>4, <3>1 DEF Landing, Busy, Readable, Checking, InTheBucket
    <2> QED
      BY <1>2, <2>1, <2>2
  <1>5. ASSUME UNCHANGED lander, Alone \/ Checking
        PROVE  Landing'
    BY <1>1, <1>3, <1>5 DEF Landing, Alone, Busy
  <1>6. CASE UNCHANGED << disk, remote, lander, check >>
    BY <1>4, <1>6
  <1>7. CASE Reopen \/ (\E files \in Editions : Publish(files)) \/ (\E prune \in BOOLEAN : BeginCheck(prune))
    BY <1>5, <1>7 DEF Reopen, Publish, BeginCheck
  <1>8. CASE (\E fetched \in BOOLEAN : CheckObject(fetched)) \/ CheckPrefix \/ \E left \in SUBSET Keys : Prune(left)
    BY <1>5, <1>8 DEF CheckObject, CheckPrefix, Prune, Checking
  <1>9. ASSUME NEW f \in Files, NEW blob \in Contents \cup {Absent}, Damage(f, blob)
        PROVE  Landing'
    BY <1>1, <1>4, <1>9, KeyFacts DEF Damage, Shape
  <1>10. ASSUME NEW l \in Landers, BeginLand(l)
         PROVE  Landing'
    <2>1. \A x \in Landers : x # l => ~(lander'[x].step \in {"head", "put"})
      BY <1>1, <1>10, BeginFacts DEF Alone, Busy
    <2>2. /\ lander'[l] = [step |-> "head", manifest |-> disk["_manifest.json"],
                           todo |-> KeysOf(disk["_manifest.json"]), key |-> Absent, blob |-> Absent]
          /\ Readable /\ ~Checking /\ UNCHANGED << disk, check >>
      BY <1>1, <1>10, BeginFacts DEF Alone
    <2>3. Lone(l, lander'[l], disk', check')
      BY <2>2 DEF Readable, Checking
    <2> QED
      BY <1>2, <2>1, <2>3
  <1>11. ASSUME NEW l \in Landers, HeadObject(l) \/ PutObject(l)
         PROVE  Landing'
    <2>1. /\ Busy(l) /\ UNCHANGED << disk, check >>
          /\ \A x \in Landers : x # l => lander'[x] = lander[x]
      BY <1>1, <1>11, HeadFacts, PutFacts DEF Busy
    <2>2. /\ Readable /\ ~Checking /\ disk["_manifest.json"] = lander[l].manifest
          /\ \A x \in Landers : Busy(x) => x = l
      BY <1>1, <2>1 DEF Landing
    <2>3. \A x \in Landers : x # l => ~(lander'[x].step \in {"head", "put"})
      BY <2>1, <2>2 DEF Busy
    <2>4. Lone(l, lander'[l], disk', check')
      BY <1>1, <1>11, <2>1, <2>2, KeyLands DEF Readable, Checking
    <2> QED
      BY <1>2, <2>3, <2>4
  <1>12. ASSUME NEW l \in Landers, Crash(l)
         PROVE  Landing'
    <2>1. \A x \in Landers : lander'[x].step \notin {"head", "put"}
      BY <1>1, <1>12, CrashFacts, GivenUp DEF Landing, Busy
    <2> QED
      BY <1>3, <2>1
  <1>13. \/ UNCHANGED << disk, remote, lander, check >>
         \/ Reopen \/ (\E files \in Editions : Publish(files))
         \/ (\E prune \in BOOLEAN : BeginCheck(prune))
         \/ (\E fetched \in BOOLEAN : CheckObject(fetched)) \/ CheckPrefix \/ (\E left \in SUBSET Keys : Prune(left))
         \/ (\E f \in Files, blob \in Contents \cup {Absent} : Damage(f, blob))
         \/ (\E l \in Landers : BeginLand(l) \/ HeadObject(l) \/ PutObject(l) \/ Crash(l))
    BY DEF Next, Freeze, vars
  <1> QED
    BY <1>6, <1>7, <1>8, <1>9, <1>10, <1>11, <1>12, <1>13

\* The keys of a manifest are the declared files and three more.
LEMMA KeysOfFacts ==
    ASSUME NEW mf
    PROVE  /\ KeysOf(mf) \subseteq Keys
           /\ \A k \in Keys : k \notin KeysOf(mf) => k \in Files /\ mf.files[k] = Absent
           /\ \A k \in KeysOf(mf) : k \in Files => mf.files[k] # Absent
           /\ Undeclared \subseteq KeysOf(mf)
  BY KeyFacts DEF KeysOf, Declared, Undeclared, Keys

\* At the end of the list: an object that is wrong or nobody declares, or the
\* prefix is exactly what is expected.
LEMMA PrefixIsJudged ==
    ASSUME Invariant, CheckIsTrue, check.step = "prefix"
    PROVE  (check.wrong \/ Orphans # {} \/ remote["_SUCCESS"] = Absent) <=>
             check.unread \/ \E k \in Keys : remote[k] # Expected(k)
  <1> DEFINE mf == check.manifest
  <1>1. check.todo = {}
    BY DEF Invariant, TypeOK
  <1>2. /\ Readable
        /\ check.wrong <=> \/ check.unread
                           \/ \E k \in KeysOf(mf) : Expected(k) # Absent /\ remote[k] # Expected(k)
    BY <1>1 DEF CheckIsTrue, Checking
  <1>3. \A k \in Keys : k \in Orphans <=>
          remote[k] # Absent /\ IF k \in Files THEN k \notin Declared(mf) ELSE disk[k] = Absent
    BY DEF Orphans
  <1>4. \A k \in Keys : k \in Orphans <=> remote[k] # Absent /\ Expected(k) = Absent
    BY <1>3 DEF Expected, Declared
  <1>5. Expected("_SUCCESS") # Absent
    BY <1>2, KeyFacts DEF Expected, Readable
  <1>6. \A k \in Keys : k \notin KeysOf(mf) => Expected(k) = Absent
    BY KeysOfFacts DEF Expected
  <1>7. KeysOf(mf) \subseteq Keys /\ Orphans \subseteq Keys
    BY KeysOfFacts DEF Orphans
  <1> QED
    BY <1>2, <1>4, <1>5, <1>6, <1>7, KeyFacts

LEMMA CheckStep ==
    ASSUME ~Concurrent, Invariant, AloneInvariant, [Next]_vars
    PROVE  CheckIsTrue'
  <1>1. TypeOK /\ Shape /\ Landing /\ CheckIsTrue
    BY DEF Invariant, AloneInvariant
  <1>2. CASE ~Checking'
    BY <1>2 DEF CheckIsTrue
  <1>3. CASE UNCHANGED << disk, remote, check >>
    BY <1>1, <1>3 DEF CheckIsTrue, Checking, Readable, LocallyIntact, Declared, KeysOf, Expected
  <1>4. ASSUME Alone \/ ~Checking, UNCHANGED check
        PROVE  CheckIsTrue'
    BY <1>2, <1>4 DEF Alone, Checking
  <1>5. CASE Reopen \/ (\E files \in Editions : Publish(files))
             \/ (\E f \in Files, blob \in Contents \cup {Absent} : Damage(f, blob))
    BY <1>4, <1>5 DEF Reopen, Publish, Damage
  <1>6. ASSUME NEW l \in Landers, PutObject(l)
        PROVE  CheckIsTrue'
    <2>1. Busy(l) /\ UNCHANGED check
      BY <1>1, <1>6, PutFacts DEF Busy
    <2>2. ~Checking
      BY <1>1, <2>1 DEF Landing
    <2> QED
      BY <1>4, <2>1, <2>2
  <1>7. ASSUME NEW prune \in BOOLEAN, BeginCheck(prune)
        PROVE  CheckIsTrue'
    <2>1. /\ Readable /\ (prune => LocallyIntact) /\ UNCHANGED << disk, remote >>
          /\ check' = [step |-> "objects", manifest |-> disk["_manifest.json"], wrong |-> FALSE,
                       unread |-> FALSE, prune |-> prune, todo |-> KeysOf(disk["_manifest.json"])]
      BY <1>7 DEF BeginCheck, LocallyIntact
    <2>2. Readable' /\ (prune => LocallyIntact')
      BY <2>1 DEF Readable, LocallyIntact, Declared
    <2> QED
      BY <2>1, <2>2 DEF CheckIsTrue, KeysOf, Declared
  <1>8. CASE \E fetched \in BOOLEAN : CheckObject(fetched)
    <2>1. PICK k \in Turn(check.todo), fetched \in BOOLEAN :
            /\ ~fetched => Expected(k) # Absent
            /\ check' = [check EXCEPT
                 !.todo = @ \ {k},
                 !.wrong = @ \/ ~fetched \/ (Expected(k) # Absent /\ remote[k] # Expected(k)),
                 !.unread = @ \/ ~fetched,
                 !.step = IF check.todo = {k} THEN "prefix" ELSE @]
      BY <1>8 DEF CheckObject
    <2>2. k \in check.todo /\ check.step = "objects" /\ Checking /\ UNCHANGED << disk, remote >>
      BY <1>8 DEF CheckObject, Turn, Checking
    <2>3. /\ check'.todo = check.todo \ {k} /\ check'.manifest = check.manifest
          /\ check'.prune = check.prune /\ check'.step \in {"objects", "prefix"}
          /\ check'.unread <=> (check.unread \/ ~fetched)
          /\ check'.wrong <=> (check.wrong \/ ~fetched \/ (Expected(k) # Absent /\ remote[k] # Expected(k)))
      BY <1>1, <2>1, <2>2 DEF Shape
    <2>4. \A x : Expected(x)' = Expected(x)
      BY <2>2, <2>3 DEF Expected
    <2>5. KeysOf(check'.manifest) = KeysOf(check.manifest)
      BY <2>3
    <2>6. Readable' /\ (LocallyIntact => LocallyIntact')
      BY <1>1, <2>2 DEF CheckIsTrue, Readable, LocallyIntact, Declared
    <2>7. /\ check.manifest = disk["_manifest.json"]
          /\ check.wrong <=> \/ check.unread
                             \/ \E x \in KeysOf(check.manifest) \ check.todo :
                                   Expected(x) # Absent /\ remote[x] # Expected(x)
          /\ check.todo \subseteq KeysOf(check.manifest)
          /\ check.prune => LocallyIntact
      BY <1>1, <2>2 DEF CheckIsTrue
    <2>8. check'.wrong <=> \/ check'.unread
                           \/ \E x \in KeysOf(check.manifest) \ check'.todo :
                                 Expected(x) # Absent /\ remote[x] # Expected(x)
      BY <2>2, <2>3, <2>7
    <2>9. check'.wrong <=> \/ check'.unread
                           \/ \E x \in KeysOf(check'.manifest) \ check'.todo :
                                 Expected(x)' # Absent /\ remote'[x] # Expected(x)'
      BY <2>2, <2>4, <2>5, <2>8
    <2> QED
      BY <2>2, <2>3, <2>5, <2>6, <2>7, <2>9 DEF CheckIsTrue
  <1>9. CASE CheckPrefix
    <2>1. check.step = "prefix" /\ Checking /\ UNCHANGED << disk, remote >>
      BY <1>9 DEF CheckPrefix, Checking
    <2>2. CASE check' = [check EXCEPT !.step = "remove"]
               /\ ~(check.wrong \/ Orphans # {} \/ remote["_SUCCESS"] = Absent) /\ check.prune
      <3>1. /\ check'.todo = check.todo /\ check'.manifest = check.manifest
            /\ check'.prune = check.prune /\ check'.wrong = check.wrong /\ check'.step = "remove"
            /\ check'.unread = check.unread
        BY <1>1, <2>2 DEF Shape
      <3>2. \A x : Expected(x)' = Expected(x)
        BY <2>1, <3>1 DEF Expected
      <3>3. \A k \in Keys : remote'[k] = Expected(k)'
        BY <1>1, <2>1, <2>2, <3>2, PrefixIsJudged
      <3>4. Readable' /\ LocallyIntact'
        BY <1>1, <2>1, <2>2 DEF CheckIsTrue, Readable, LocallyIntact, Declared
      <3>5. /\ check.manifest = disk["_manifest.json"]
            /\ check.wrong <=> \/ check.unread
                               \/ \E x \in KeysOf(check.manifest) \ check.todo :
                                     Expected(x) # Absent /\ remote[x] # Expected(x)
            /\ check.todo \subseteq KeysOf(check.manifest)
        BY <1>1, <2>1 DEF CheckIsTrue
      <3>6. KeysOf(check'.manifest) = KeysOf(check.manifest)
        BY <3>1
      <3>7. check'.wrong <=> \/ check'.unread
                             \/ \E x \in KeysOf(check'.manifest) \ check'.todo :
                                   Expected(x)' # Absent /\ remote'[x] # Expected(x)'
        BY <2>1, <3>1, <3>2, <3>5, <3>6
      <3> QED
        BY <2>1, <2>2, <3>1, <3>3, <3>4, <3>5, <3>6, <3>7 DEF CheckIsTrue
    <2>3. CASE ~Checking'
      BY <1>2, <2>3
    <2>4. \A w : [Unchecked EXCEPT !.step = "rest", !.wrong = w].step = "rest"
      BY DEF Unchecked
    <2> QED
      BY <1>9, <2>2, <2>3, <2>4 DEF CheckPrefix, Checking
  <1>10. ASSUME NEW left \in SUBSET Keys, Prune(left)
         PROVE  ~Checking'
    BY <1>10 DEF Prune, Unchecked, Checking
  <1>11. \/ UNCHANGED << disk, remote, check >>
         \/ Reopen \/ (\E files \in Editions : Publish(files))
         \/ (\E f \in Files, blob \in Contents \cup {Absent} : Damage(f, blob))
         \/ (\E l \in Landers : PutObject(l))
         \/ (\E prune \in BOOLEAN : BeginCheck(prune))
         \/ (\E fetched \in BOOLEAN : CheckObject(fetched)) \/ CheckPrefix \/ (\E left \in SUBSET Keys : Prune(left))
    BY DEF Next, BeginLand, HeadObject, Crash, Freeze, vars
  <1> QED
    BY <1>2, <1>3, <1>5, <1>6, <1>7, <1>8, <1>9, <1>10, <1>11

\* A land that returns has every key of its list in the bucket.
LEMMA LandedStep ==
    ASSUME Invariant, Landing, [Next]_vars, NEW l \in Landers, Busy(l), lander'[l].step = "landed"
    PROVE  \A k \in KeysOf(lander[l].manifest) : InTheBucket(lander[l].manifest, k, remote')
  <1>1. TypeOK /\ Shape
    BY DEF Invariant
  <1>2. lander'[l] # lander[l]
    BY DEF Busy
  <1>3. PICK x \in Landers : BeginLand(x) \/ HeadObject(x) \/ PutObject(x) \/ Crash(x)
    BY <1>2, LanderSteps
  <1>4. x = l
    BY <1>1, <1>2, <1>3, BeginFacts, HeadFacts, PutFacts, CrashFacts
  <1>5. HeadObject(l) \/ PutObject(l)
    BY <1>1, <1>3, <1>4, BeginFacts, CrashFacts, GivenUp
  <1>6. lander'[l].todo = {}
    BY <1>1, TypeStep DEF TypeOK, Busy
  <1> QED
    BY <1>5, <1>6, KeyLands

LEMMA AloneStep ==
    ASSUME ~Concurrent, Invariant, AloneInvariant, [Next]_vars
    PROVE  AloneInvariant'
  BY LandingStep, CheckStep DEF AloneInvariant

LEMMA InitAlone == Init => AloneInvariant
  <1> SUFFICES ASSUME Init
               PROVE  AloneInvariant
    OBVIOUS
  <1>1. (\A l \in Landers : ~Busy(l)) /\ ~Checking
    BY DEF Init, Busy, Checking, Resting, Unchecked
  <1> QED
    BY <1>1 DEF AloneInvariant, Landing, CheckIsTrue

\* While one command runs at a time, a land or a check works on the partition
\* it began with.
THEOREM AloneHolds == ASSUME ~Concurrent PROVE Spec => []AloneInvariant
  <1>1. Invariant /\ AloneInvariant /\ [Next]_vars => AloneInvariant'
    BY AloneStep
  <1> QED
    BY <1>1, InitAlone, InvariantHolds, PTL DEF Spec

\* land: when it returns, the files of the edition it read, its manifest and its
\* mark are in the bucket.
THEOREM LandedThere == ASSUME ~Concurrent PROVE Spec => LandedIsThere
  <1>1. ASSUME Invariant, Landing, [Next]_vars, NEW l \in Landers, Busy(l), lander'[l].step = "landed"
        PROVE  LET mf == lander[l].manifest
               IN  /\ \A f \in Declared(mf) : remote'[f] = mf.files[f]
                   /\ remote'["_manifest.json"] = mf
                   /\ remote'["_SUCCESS"] = mf.run
    <2>1. \A k \in KeysOf(lander[l].manifest) : InTheBucket(lander[l].manifest, k, remote')
      BY <1>1, LandedStep
    <2> QED
      BY <2>1 DEF InTheBucket, KeysOf, Declared, Undeclared
  <1>2. Invariant /\ AloneInvariant /\ [Next]_vars =>
          [\A l \in Landers :
             (Busy(l) /\ lander'[l].step = "landed") =>
                LET mf == lander[l].manifest
                IN  /\ \A f \in Declared(mf) : remote'[f] = mf.files[f]
                    /\ remote'["_manifest.json"] = mf
                    /\ remote'["_SUCCESS"] = mf.run]_vars
    BY <1>1 DEF AloneInvariant
  <1> QED
    BY <1>2, AloneHolds, InvariantHolds, PTL DEF Spec, LandedIsThere

\* verify-landing: it objects if and only if an object could not be fetched or
\* the prefix is not exactly what the local manifest declares.
THEOREM VerdictTrue == ASSUME ~Concurrent PROVE Spec => VerdictIsTrue
  <1>1. ASSUME Invariant, CheckIsTrue, [Next]_vars
        PROVE  JudgesRightly
    <2> SUFFICES ASSUME check.step = "prefix", check'.step # "prefix"
                 PROVE  check'.wrong <=> check.unread \/ \E k \in Keys : remote[k] # Expected(k)
      BY DEF JudgesRightly
    <2>1. CheckPrefix
      BY <1>1 DEF Next, Reopen, Publish, Damage, BeginLand, HeadObject, PutObject, Crash,
                  BeginCheck, CheckObject, Prune, Freeze, Checking, vars
    <2>2. \A w : [Unchecked EXCEPT !.step = "rest", !.wrong = w].wrong = w
      BY DEF Unchecked
    <2>3. check'.wrong = (check.wrong \/ Orphans # {} \/ remote["_SUCCESS"] = Absent)
      <3>1. check.wrong \in BOOLEAN /\ [check EXCEPT !.step = "remove"].wrong = check.wrong
        BY <1>1 DEF Invariant, Shape
      <3> QED
        BY <2>1, <2>2, <3>1 DEF CheckPrefix
    <2> QED
      BY <1>1, <2>3, PrefixIsJudged
  <1>2. Invariant /\ AloneInvariant /\ [Next]_vars => [JudgesRightly]_vars
    BY <1>1 DEF AloneInvariant
  <1> QED
    BY <1>2, AloneHolds, InvariantHolds, PTL DEF Spec, VerdictIsTrue

\* prune-local: a local file goes only if the bucket holds these very bytes.
THEOREM PrunedInTheBucket == ASSUME ~Concurrent PROVE Spec => PrunedIsInTheBucket
  <1>1. ASSUME Invariant, CheckIsTrue, [Next]_vars
        PROVE  RemovesWhatIsLanded
    <2> SUFFICES ASSUME NEW k \in Keys, check.step = "remove", disk[k] # Absent
                 PROVE  remote[k] = disk[k]
      BY DEF RemovesWhatIsLanded
    <2>1. /\ remote[k] = Expected(k) /\ LocallyIntact
          /\ check.manifest = disk["_manifest.json"]
      BY <1>1 DEF CheckIsTrue, Checking
    <2>2. k \in Files => k \in Declared(disk["_manifest.json"])
      BY <1>1, <2>1 DEF Invariant, DiskIsAnEdition, LocallyIntact, Readable
    <2> QED
      BY <2>1, <2>2 DEF Expected, LocallyIntact
  <1>2. Invariant /\ AloneInvariant /\ [Next]_vars => [RemovesWhatIsLanded]_vars
    BY <1>1 DEF AloneInvariant
  <1> QED
    BY <1>2, AloneHolds, InvariantHolds, PTL DEF Spec, PrunedIsInTheBucket

-----------------------------------------------------------------------------
(* The scheduler of the source DAGs (LandingDag).  A run is sound when its  *)
(* tasks have their states in the order of the graph and what a task has    *)
(* seen of a partition is still so; that carries the trigger rule of silver.*)

TaskStates == Settled \cup {"none"}

\* The variables are functions and records of a shape, and attempts are counted.
DagShape ==
    /\ run \in [on : BOOLEAN, day : {"today", "past", "overtaken"}, overwrite : BOOLEAN]
    /\ task \in [Tasks -> TaskStates]
    /\ tries \in [Tasks -> Nat]
    /\ \A t \in Tasks : tries[t] <= Retries(t) + 1
                        /\ (task[t] = "failed" <=> tries[t] = Retries(t) + 1)
    /\ local \in [Branches -> {"none", "open", "stuck", "rejected", "whole"}]
    /\ bucket \in [Branches -> {"none", "mixed", "orphaned", "exact"}]
    /\ same \cup pending \cup suspect \subseteq Branches

\* A task has a state once those above it have settled.
InTurn == \A t \in Tasks : task[t] # "none" => \A u \in Upstream(t) : task[u] \in Settled

\* What is skipped is below something that is, but for what the gate skips; silver
\* has a rule of its own.
SkippedInTurn ==
    \A t \in Tasks : (task[t] = "skipped" /\ t[1] \notin {"extract", "silver"})
                     => \E u \in Upstream(t) : task[u] = "skipped"

\* What succeeded is below what succeeded.
SucceededInTurn ==
    \A t \in Tasks : (task[t] = "success" /\ t[1] # "silver")
                     => \A u \in Upstream(t) : task[u] = "success"

Control == InTurn /\ SkippedInTurn /\ SucceededInTurn

\* Task t takes the state x; it was its turn.
Takes(t, x) ==
    /\ t \in Tasks /\ Ready(t)
    /\ task' = [task EXCEPT ![t] = x]
    /\ \/ Runs(t) /\ x \in {"success", "failed", "none"}
       \/ ~Runs(t) /\ x = (IF Blocked(t) THEN "upstream_failed" ELSE "skipped")

\* The gate of b lets its extraction go, or skips it.
Gates(b) ==
    /\ b \in Branches /\ Ready(<<"gate", b>>) /\ Runs(<<"gate", b>>)
    /\ task' = [task EXCEPT ![<<"gate", b>>] = "success", ![<<"extract", b>>] = "skipped"]
    /\ Verified(b)

\* Who is above whom.
LEMMA Edges ==
    ASSUME NEW b \in Branches
    PROVE  /\ {<<stage, b>> : stage \in Stages} \subseteq Tasks
           /\ Upstream(<<"extract", b>>) = {<<"gate", b>>}
           /\ Upstream(<<"validate", b>>) = {<<"extract", b>>}
           /\ Upstream(<<"land", b>>) = {<<"validate", b>>}
           /\ Upstream(<<"verify", b>>) = {<<"land", b>>}
           /\ HasGuard => <<"guard", b>> \in Upstream(<<"gate", b>>)
           /\ \A u \in Upstream(<<"gate", b>>) : Upstream(u) = {} /\ u[1] \notin {"extract", "silver"}
           /\ <<"verify", b>> \in Upstream(<<"silver", "dag">>)
           /\ <<"silver", "dag">> \in Tasks
  <1>1. {<<stage, b>> : stage \in Stages} \subseteq Tasks /\ <<"silver", "dag">> \in Tasks
        /\ <<"export_reference", "dag">> \in Tasks
    BY DEF Tasks, Stages, Shared
  <1>2. \A stage \in Stages \ {"guard"} : Present(<<stage, b>>)
    BY DEF Stages, Present
  <1>3. Upstream(<<"extract", b>>) = {<<"gate", b>>}
    BY <1>1, <1>2 DEF Upstream, Stages
  <1>4. Upstream(<<"validate", b>>) = {<<"extract", b>>}
    BY <1>1, <1>2 DEF Upstream, Stages
  <1>5. Upstream(<<"land", b>>) = {<<"validate", b>>}
    BY <1>1, <1>2 DEF Upstream, Stages
  <1>6. Upstream(<<"verify", b>>) = {<<"land", b>>}
    BY <1>1, <1>2 DEF Upstream, Stages
  <1>7. HasGuard => <<"guard", b>> \in Upstream(<<"gate", b>>)
    BY <1>1 DEF Upstream, Stages, Present
  <1>8. ASSUME NEW u \in Upstream(<<"gate", b>>)
        PROVE  Upstream(u) = {} /\ u[1] \notin {"extract", "silver"}
    <2>1. u \in {<<"guard", b>>, <<"export_reference", "dag">>}
      BY <1>8 DEF Upstream
    <2>2. u[1] \in {"guard", "export_reference"}
      BY <2>1
    <2> QED
      BY <2>2 DEF Upstream
  <1>9. <<"verify", b>> \in Upstream(<<"silver", "dag">>)
    BY <1>1, <1>2 DEF Upstream, Stages
  <1> QED
    BY <1>1, <1>3, <1>4, <1>5, <1>6, <1>7, <1>8, <1>9

\* A gate is never skipped, nor is an extraction by what is above it.
LEMMA GatesAreNotSkipped ==
    ASSUME DagShape, Control, NEW b \in Branches
    PROVE  task[<<"gate", b>>] # "skipped"
  <1> SUFFICES ASSUME task[<<"gate", b>>] = "skipped"
               PROVE  FALSE
    OBVIOUS
  <1>1. <<"gate", b>> \in Tasks /\ <<"gate", b>>[1] \notin {"extract", "silver"}
    BY DEF Tasks, Stages
  <1>2. PICK u \in Upstream(<<"gate", b>>) : task[u] = "skipped"
    BY <1>1 DEF Control, SkippedInTurn
  <1>3. u \in Tasks
    BY DEF Upstream
  <1>4. \E v \in Upstream(u) : task[v] = "skipped"
    BY <1>2, <1>3, Edges DEF Control, SkippedInTurn
  <1> QED
    BY <1>4, Edges

\* A task that takes its turn keeps the order.
LEMMA TakesControl ==
    ASSUME DagShape, Control, NEW t, NEW x, Takes(t, x)
    PROVE  Control'
  <1>1. /\ t \in Tasks /\ task[t] = "none" /\ task \in [Tasks -> TaskStates]
        /\ \A u \in Upstream(t) : task[u] \in Settled /\ u \in Tasks
        /\ task' = [task EXCEPT ![t] = x]
    BY DEF Takes, Ready, DagShape, Upstream
  <1>2. /\ task'[t] = x
        /\ \A u \in Tasks \ {t} : task'[u] = task[u]
        /\ \A u \in Tasks : task[u] \in Settled => u # t
        /\ t \notin Upstream(t)
    BY <1>1 DEF Settled
  <1>3. \A u \in Tasks : Upstream(u) \subseteq Tasks
    BY DEF Upstream
  <1>4. InTurn'
    <2> SUFFICES ASSUME NEW v \in Tasks, task'[v] # "none", NEW u \in Upstream(v)
                 PROVE  task'[u] \in Settled
      BY DEF InTurn
    <2>1. task[u] \in Settled
      BY <1>1, <1>2 DEF Control, InTurn
    <2> QED
      BY <1>2, <1>3, <2>1
  <1>5. SkippedInTurn'
    <2> SUFFICES ASSUME NEW v \in Tasks, task'[v] = "skipped", v[1] \notin {"extract", "silver"}
                 PROVE  \E u \in Upstream(v) : task'[u] = "skipped"
      BY DEF SkippedInTurn
    <2>1. \E u \in Upstream(v) : task[u] = "skipped"
      <3>1. CASE v # t
        BY <1>2, <3>1 DEF Control, SkippedInTurn
      <3>2. CASE v = t
        <4>1. ~Runs(t) /\ ~Blocked(t) /\ t[1] # "silver"
          BY <1>2, <3>2 DEF Takes
        <4>2. PICK u \in Upstream(t) : task[u] # "success"
          BY <4>1 DEF Runs, AllSuccess
        <4>3. task[u] \in Settled /\ task[u] \notin {"failed", "upstream_failed"}
          BY <1>1, <4>1 DEF Blocked
        <4> QED
          BY <3>2, <4>2, <4>3 DEF Settled
      <3> QED
        BY <3>1, <3>2
    <2>2. PICK u \in Upstream(v) : task[u] = "skipped"
      BY <2>1
    <2>3. task'[u] = "skipped"
      BY <1>2, <1>3, <2>2 DEF Settled
    <2> QED
      BY <2>3
  <1>6. SucceededInTurn'
    <2> SUFFICES ASSUME NEW v \in Tasks, task'[v] = "success", v[1] # "silver",
                        NEW u \in Upstream(v)
                 PROVE  task'[u] = "success"
      BY DEF SucceededInTurn
    <2>1. task[u] = "success"
      <3>1. CASE v # t
        BY <1>2, <3>1 DEF Control, SucceededInTurn
      <3>2. CASE v = t
        <4>1. Runs(t)
          BY <1>2, <3>2 DEF Takes
        <4> QED
          BY <3>2, <4>1 DEF Runs, AllSuccess
      <3> QED
        BY <3>1, <3>2
    <2> QED
      BY <1>2, <1>3, <2>1 DEF Settled
  <1> QED
    BY <1>4, <1>5, <1>6 DEF Control

\* The gate keeps the order when it skips the extraction.
LEMMA GatesControl ==
    ASSUME DagShape, Control, NEW b, Gates(b)
    PROVE  Control'
  <1> DEFINE g == <<"gate", b>>
             e == <<"extract", b>>
  <1>1. b \in Branches /\ g \in Tasks /\ e \in Tasks /\ g # e /\ Upstream(e) = {g}
        /\ Upstream(g) \subseteq Tasks
    BY Edges DEF Gates, Tasks, Stages, Upstream
  <1>2. /\ task[g] = "none" /\ task \in [Tasks -> TaskStates]
        /\ \A u \in Upstream(g) : task[u] = "success"
        /\ task' = [task EXCEPT ![g] = "success", ![e] = "skipped"]
    BY <1>1 DEF Gates, Ready, DagShape, Runs, AllSuccess
  <1>3. task[e] = "none"
    BY <1>1, <1>2 DEF Control, InTurn, Settled
  <1> HIDE DEF g, e
  <1>4. /\ task'[g] = "success" /\ task'[e] = "skipped"
        /\ \A u \in Tasks \ {g, e} : task'[u] = task[u]
        /\ \A u \in Tasks : task[u] # "none" => u \notin {g, e}
    BY <1>1, <1>2, <1>3
  <1>5. \A u \in Tasks : Upstream(u) \subseteq Tasks
    BY DEF Upstream
  <1>6. e[1] = "extract" /\ g[1] # "silver"
    BY DEF e, g
  <1>7. InTurn'
    <2> SUFFICES ASSUME NEW v \in Tasks, task'[v] # "none", NEW u \in Upstream(v)
                 PROVE  task'[u] \in Settled
      BY DEF InTurn
    <2>1. CASE v \notin {g, e}
      <3>1. task[u] \in Settled
        BY <1>4, <2>1 DEF Control, InTurn
      <3> QED
        BY <1>4, <1>5, <3>1 DEF Settled
    <2>2. CASE v = g
      BY <1>2, <1>4, <1>5, <2>2 DEF Settled
    <2>3. CASE v = e
      BY <1>1, <1>4, <2>3 DEF Settled
    <2> QED
      BY <2>1, <2>2, <2>3
  <1>8. SkippedInTurn'
    <2> SUFFICES ASSUME NEW v \in Tasks, task'[v] = "skipped", v[1] \notin {"extract", "silver"}
                 PROVE  \E u \in Upstream(v) : task'[u] = "skipped"
      BY DEF SkippedInTurn
    <2>1. v \notin {g, e}
      BY <1>4, <1>6
    <2>2. PICK u \in Upstream(v) : task[u] = "skipped"
      BY <1>4, <2>1 DEF Control, SkippedInTurn
    <2> QED
      BY <1>4, <1>5, <2>2
  <1>9. SucceededInTurn'
    <2> SUFFICES ASSUME NEW v \in Tasks, task'[v] = "success", v[1] # "silver",
                        NEW u \in Upstream(v)
                 PROVE  task'[u] = "success"
      BY DEF SucceededInTurn
    <2>1. task[u] = "success"
      BY <1>2, <1>4 DEF Control, SucceededInTurn
    <2> QED
      BY <1>4, <1>5, <2>1
  <1> QED
    BY <1>7, <1>8, <1>9 DEF Control

\* What an attempt may do to the counts.
Counts(t, x) ==
    \/ UNCHANGED tries /\ x \in {"success", "skipped", "upstream_failed"}
    \/ /\ tries' = [tries EXCEPT ![t] = @ + 1]
       /\ x = (IF tries[t] < Retries(t) THEN "none" ELSE "failed")

\* Each task moves as the scheduler has it.
Moved(t) == \E x : Takes(t, x) /\ Counts(t, x) /\ UNCHANGED run

\* A task that runs moves, whatever becomes of the attempt.
LEMMA RunMoves ==
    ASSUME NEW t \in Tasks, Start(t), Succeeds(t) \/ Breaks(t) \/ Refuses(t) \/ Raises(t)
    PROVE  Moved(t)
  <1>1. CASE Succeeds(t)
    <2>1. Takes(t, "success") /\ Counts(t, "success") /\ UNCHANGED run
      BY <1>1 DEF Start, Succeeds, Takes, Counts
    <2> QED
      BY <2>1 DEF Moved
  <1>2. CASE Raises(t)
    <2> DEFINE x == IF tries[t] < Retries(t) THEN "none" ELSE "failed"
    <2>1. Takes(t, x) /\ Counts(t, x) /\ UNCHANGED run
      BY <1>2 DEF Start, Raises, Takes, Counts
    <2> HIDE DEF x
    <2> QED
      BY <2>1 DEF Moved
  <1> QED
    BY <1>1, <1>2 DEF Breaks, Refuses

\* So it does when it writes a partition of no use and does not notice.
LEMMA RunSucceeds ==
    ASSUME NEW t \in Tasks, Start(t),
           task' = [task EXCEPT ![t] = "success"], UNCHANGED <<run, tries>>
    PROVE  Moved(t)
  <1>1. Takes(t, "success") /\ Counts(t, "success") /\ UNCHANGED run
    BY DEF Start, Takes, Counts
  <1> QED
    BY <1>1 DEF Moved

\* A task that is not to run moves too.
LEMMA CascadeMoves ==
    ASSUME NEW t \in Tasks, Cascade(t)
    PROVE  Moved(t)
  <1> DEFINE x == IF Blocked(t) THEN "upstream_failed" ELSE "skipped"
  <1>1. Takes(t, x) /\ Counts(t, x) /\ UNCHANGED run
    BY DEF Cascade, Takes, Counts
  <1> HIDE DEF x
  <1> QED
    BY <1>1 DEF Moved

\* The gate succeeds, whether it skips the extraction or not.
LEMMA GateMoves ==
    ASSUME DagShape, NEW b \in Branches, SkipIfLanded(b)
    PROVE  /\ UNCHANGED <<run, tries, data>>
           /\ Moved(<<"gate", b>>) \/ Gates(b)
  <1> DEFINE g == <<"gate", b>>
             e == <<"extract", b>>
  <1>1. g \in Tasks /\ e \in Tasks /\ g # e /\ task \in [Tasks -> TaskStates]
    BY Edges DEF Tasks, Stages, DagShape
  <1>2. Ready(g) /\ Runs(g) /\ UNCHANGED <<run, tries, data>>
    BY DEF SkipIfLanded, Start
  <1>3. \/ Verified(b) /\ task' = [task EXCEPT ![g] = "success", ![e] = "skipped"]
        \/ task' = [task EXCEPT ![g] = "success", ![e] = @]
        \/ task' = [task EXCEPT ![g] = "success"]
    BY DEF SkipIfLanded
  <1>4. [task EXCEPT ![g] = "success", ![e] = @] = [task EXCEPT ![g] = "success"]
    BY <1>1
  <1>5. CASE Verified(b) /\ task' = [task EXCEPT ![g] = "success", ![e] = "skipped"]
    BY <1>2, <1>5 DEF Gates
  <1>6. CASE task' = [task EXCEPT ![g] = "success"]
    <2>1. Takes(g, "success") /\ Counts(g, "success") /\ UNCHANGED run
      BY <1>1, <1>2, <1>6 DEF Takes, Counts
    <2> QED
      BY <1>2, <2>1 DEF Moved
  <1> QED
    BY <1>2, <1>3, <1>4, <1>5, <1>6

\* An extraction writes where there is no whole partition, unless told to overwrite.
Extracts(b) ==
    /\ \E left \in {"open", "stuck", "rejected", "whole"} : Rewritten(b, left)
    /\ local[b] = "whole" => run.overwrite

\* A landing brings the copy of the bucket nearer to the local partition, or leaves
\* it as it is when it already is that partition.
Lands(b) ==
    /\ UNCHANGED <<local, suspect, unloaded>>
    /\ \/ b \in same /\ UNCHANGED <<bucket, same, pending>>
       \/ /\ b \notin same
          /\ \E left \in {"exact", "orphaned", "mixed"} :
                /\ bucket' = [bucket EXCEPT ![b] = left]
                /\ same' = IF left = "mixed" THEN same ELSE same \cup {b}
                /\ pending' \in {pending, pending \cup {b}}

\* What task t does to the partitions, and what it has seen of them when it succeeds.
Did(t) ==
    /\ t[1] \in {"guard", "export_reference", "gate", "validate", "verify"} => UNCHANGED data
    /\ t[1] = "silver" => \/ UNCHANGED data
                          \/ /\ Runs(t) /\ pending' = {} /\ unloaded' = TRUE
                             /\ UNCHANGED <<local, bucket, same, suspect>>
    /\ t[1] = "trigger" => UNCHANGED <<local, bucket, same, pending, suspect>>
    /\ \A b \in Branches :
          /\ t = <<"extract", b>> => UNCHANGED data \/ (Runs(t) /\ Extracts(b))
          /\ t = <<"land", b>> => UNCHANGED data \/ (Runs(t) /\ Lands(b))
          /\ (t = <<"validate", b>> /\ task'[t] = "success") => local[b] = "whole"
          /\ (t = <<"verify", b>> /\ task'[t] = "success") => Verified(b)
          /\ (t = <<"guard", b>> /\ task'[t] = "success") => run.day = "today"

\* An attempt that raises does not succeed.
LEMMA RaisesIsNoSuccess ==
    ASSUME DagShape, NEW t \in Tasks, Raises(t)
    PROVE  task'[t] # "success"
  BY DEF DagShape, Raises

\* A task that is not to run leaves the partitions alone.
LEMMA CascadeDid ==
    ASSUME DagShape, NEW t \in Tasks, Cascade(t)
    PROVE  Did(t)
  <1>1. UNCHANGED data /\ task'[t] # "success"
    BY DEF Cascade, DagShape
  <1> QED
    BY <1>1 DEF Did, data

\* guard_date succeeds on the day of the run's label.
LEMMA GuardDid ==
    ASSUME DagShape, NEW b \in Branches, GuardDate(b)
    PROVE  Did(<<"guard", b>>)
  <1>1. <<"guard", b>> \in Tasks
    BY DEF Tasks, Stages
  <1>2. /\ UNCHANGED data
        /\ run.day = "today" \/ Raises(<<"guard", b>>)
    BY DEF GuardDate, Refuses
  <1>3. task'[<<"guard", b>>] = "success" => run.day = "today"
    BY <1>1, <1>2, RaisesIsNoSuccess
  <1> QED
    BY <1>2, <1>3 DEF Did, data

\* extract leaves a whole partition alone unless told to overwrite.
LEMMA ExtractDid ==
    ASSUME DagShape, NEW b \in Branches, ExtractTask(b)
    PROVE  Did(<<"extract", b>>)
  <1>1. Runs(<<"extract", b>>)
    BY DEF ExtractTask, Start
  <1>2. UNCHANGED data \/ Extracts(b)
    BY DEF ExtractTask, Extracts
  <1> QED
    BY <1>1, <1>2 DEF Did

\* validate succeeds on a whole partition.
LEMMA ValidateDid ==
    ASSUME DagShape, NEW b \in Branches, Validate(b)
    PROVE  Did(<<"validate", b>>)
  <1>1. <<"validate", b>> \in Tasks
    BY DEF Tasks, Stages
  <1>2. /\ UNCHANGED data
        /\ local[b] = "whole" \/ Raises(<<"validate", b>>)
    BY DEF Validate, Refuses
  <1>3. task'[<<"validate", b>>] = "success" => local[b] = "whole"
    BY <1>1, <1>2, RaisesIsNoSuccess
  <1> QED
    BY <1>2, <1>3 DEF Did, data

\* land brings the copy of the bucket nearer to the local partition.
LEMMA LandDid ==
    ASSUME DagShape, NEW b \in Branches, Land(b)
    PROVE  Did(<<"land", b>>)
  <1>1. Runs(<<"land", b>>)
    BY DEF Land, Start
  <1>2. UNCHANGED <<local, suspect, unloaded>>
    BY DEF Land
  <1>3. CASE b \in same
    <2>1. bucket' = [bucket EXCEPT ![b] = bucket[b]] /\ same' = same /\ pending' = pending
      BY <1>3 DEF Land
    <2>2. bucket' = bucket
      BY <2>1 DEF DagShape
    <2> QED
      BY <1>1, <1>2, <1>3, <2>1, <2>2 DEF Did, Lands
  <1>4. CASE b \notin same
    <2>1. \/ \E left \in {"exact", "orphaned"} :
                /\ bucket' = [bucket EXCEPT ![b] = left]
                /\ same' = same \cup {b} /\ pending' = pending \cup {b}
          \/ bucket' = [bucket EXCEPT ![b] = "mixed"] /\ UNCHANGED <<same, pending>>
      BY <1>4 DEF Land
    <2>2. Lands(b)
      BY <1>2, <1>4, <2>1 DEF Lands
    <2> QED
      BY <1>1, <2>2 DEF Did
  <1> QED
    BY <1>3, <1>4

\* verify_landing succeeds on a copy that is exactly the local partition.
LEMMA VerifyDid ==
    ASSUME DagShape, NEW b \in Branches, VerifyLanding(b)
    PROVE  Did(<<"verify", b>>)
  <1>1. <<"verify", b>> \in Tasks
    BY DEF Tasks, Stages
  <1>2. /\ UNCHANGED data
        /\ Verified(b) \/ Raises(<<"verify", b>>)
    BY DEF VerifyLanding, Refuses, Breaks
  <1>3. task'[<<"verify", b>>] = "success" => Verified(b)
    BY <1>1, <1>2, RaisesIsNoSuccess
  <1> QED
    BY <1>2, <1>3 DEF Did, data

\* The tasks the branches share do not touch a partition.
LEMMA SharedDid ==
    /\ ExportReference => Did(<<"export_reference", "dag">>)
    /\ Silver => Did(<<"silver", "dag">>)
    /\ TriggerWarehouseLoad => Did(<<"trigger", "dag">>)
  <1>1. ASSUME ExportReference
        PROVE  Did(<<"export_reference", "dag">>)
    BY <1>1 DEF ExportReference, Did
  <1>2. ASSUME Silver
        PROVE  Did(<<"silver", "dag">>)
    BY <1>2 DEF Silver, Did, Start
  <1>3. ASSUME TriggerWarehouseLoad
        PROVE  Did(<<"trigger", "dag">>)
    BY <1>3 DEF TriggerWarehouseLoad, Did
  <1> QED
    BY <1>1, <1>2, <1>3

\* Every step of the scheduler but the end of a run moves one task, or is the gate's.
LEMMA SchedulerMoves ==
    ASSUME DagShape, Scheduler
    PROVE  \/ \E t \in Tasks : Moved(t) /\ Did(t)
           \/ \E b \in Branches : Gates(b) /\ UNCHANGED <<run, tries, data>>
           \/ EndRun
  <1>1. ASSUME NEW b \in Branches
        PROVE  /\ <<"guard", b>> \in Tasks /\ <<"gate", b>> \in Tasks /\ <<"extract", b>> \in Tasks
               /\ <<"validate", b>> \in Tasks /\ <<"land", b>> \in Tasks /\ <<"verify", b>> \in Tasks
    BY DEF Tasks, Stages
  <1>2. /\ <<"export_reference", "dag">> \in Tasks /\ <<"silver", "dag">> \in Tasks
        /\ <<"trigger", "dag">> \in Tasks
    BY DEF Tasks, Shared
  <1>3. ASSUME NEW t \in Tasks, Cascade(t)
        PROVE  Moved(t) /\ Did(t)
    BY <1>3, CascadeMoves, CascadeDid
  <1>4. ASSUME NEW b \in Branches, GuardDate(b)
        PROVE  Moved(<<"guard", b>>) /\ Did(<<"guard", b>>)
    <2>1. /\ Start(<<"guard", b>>)
          /\ Succeeds(<<"guard", b>>) \/ Refuses(<<"guard", b>>)
      BY <1>4 DEF GuardDate
    <2> QED
      BY <1>4, <1>1, <2>1, RunMoves, GuardDid
  <1>5. ASSUME NEW b \in Branches, ExtractTask(b)
        PROVE  Moved(<<"extract", b>>) /\ Did(<<"extract", b>>)
    <2>1. /\ Start(<<"extract", b>>)
          /\ \/ \/ Succeeds(<<"extract", b>>) \/ Refuses(<<"extract", b>>)
                \/ Breaks(<<"extract", b>>)
             \/ task' = [task EXCEPT ![<<"extract", b>>] = "success"] /\ UNCHANGED <<run, tries>>
      BY <1>5 DEF ExtractTask
    <2> QED
      BY <1>5, <1>1, <2>1, RunMoves, RunSucceeds, ExtractDid
  <1>6. ASSUME NEW b \in Branches, Validate(b)
        PROVE  Moved(<<"validate", b>>) /\ Did(<<"validate", b>>)
    <2>1. Start(<<"validate", b>>)
          /\ (Succeeds(<<"validate", b>>) \/ Refuses(<<"validate", b>>))
      BY <1>6 DEF Validate
    <2> QED
      BY <1>6, <1>1, <2>1, RunMoves, ValidateDid
  <1>7. ASSUME NEW b \in Branches, Land(b)
        PROVE  Moved(<<"land", b>>) /\ Did(<<"land", b>>)
    <2>1. Start(<<"land", b>>) /\ (Succeeds(<<"land", b>>) \/ Breaks(<<"land", b>>))
      BY <1>7 DEF Land
    <2> QED
      BY <1>7, <1>1, <2>1, RunMoves, LandDid
  <1>8. ASSUME NEW b \in Branches, VerifyLanding(b)
        PROVE  Moved(<<"verify", b>>) /\ Did(<<"verify", b>>)
    <2>1. Start(<<"verify", b>>) /\ (\/ Succeeds(<<"verify", b>>) \/ Refuses(<<"verify", b>>)
                                     \/ Breaks(<<"verify", b>>))
      BY <1>8 DEF VerifyLanding
    <2> QED
      BY <1>8, <1>1, <2>1, RunMoves, VerifyDid
  <1>9. ASSUME ExportReference
        PROVE  Moved(<<"export_reference", "dag">>) /\ Did(<<"export_reference", "dag">>)
    BY <1>2, <1>9, RunMoves, SharedDid DEF ExportReference
  <1>10. ASSUME Silver
         PROVE  Moved(<<"silver", "dag">>) /\ Did(<<"silver", "dag">>)
    <2>1. Start(<<"silver", "dag">>) /\ (Succeeds(<<"silver", "dag">>) \/ Breaks(<<"silver", "dag">>))
      BY <1>10 DEF Silver
    <2> QED
      BY <1>10, <1>2, <2>1, RunMoves, SharedDid
  <1>11. ASSUME TriggerWarehouseLoad
         PROVE  Moved(<<"trigger", "dag">>) /\ Did(<<"trigger", "dag">>)
    <2>1. Start(<<"trigger", "dag">>) /\ (Succeeds(<<"trigger", "dag">>) \/ Breaks(<<"trigger", "dag">>))
      BY <1>11 DEF TriggerWarehouseLoad
    <2> QED
      BY <1>11, <1>2, <2>1, RunMoves, SharedDid
  <1>12. ASSUME NEW b \in Branches, SkipIfLanded(b)
         PROVE  \/ Moved(<<"gate", b>>) /\ Did(<<"gate", b>>)
                \/ Gates(b) /\ UNCHANGED <<run, tries, data>>
    <2>1. /\ UNCHANGED <<run, tries, data>>
          /\ Moved(<<"gate", b>>) \/ Gates(b)
      BY <1>12, GateMoves
    <2>2. Did(<<"gate", b>>)
      BY <2>1 DEF Did, data
    <2> QED
      BY <2>1, <2>2
  <1> QED
    BY <1>1, <1>2, <1>3, <1>4, <1>5, <1>6, <1>7, <1>8, <1>9, <1>10, <1>11, <1>12 DEF Scheduler

\* Nobody has moved: the order of the tasks is what it was.
LEMMA ControlRests ==
    ASSUME Control, UNCHANGED task
    PROVE  Control'
  BY DEF Control, InTurn, SkippedInTurn, SucceededInTurn

\* At the start of a run no task has a state.
LEMMA RunBegins ==
    ASSUME NEW day, NEW overwrite, StartRun(day, overwrite)
    PROVE  Control'
  BY DEF StartRun, Control, InTurn, SkippedInTurn, SucceededInTurn

\* The steps of a DAG, told apart by what they touch.
LEMMA DagSteps ==
    ASSUME DagShape, DagNext
    PROVE  \/ \E t \in Tasks : Moved(t) /\ Did(t)
           \/ \E b \in Branches : Gates(b) /\ UNCHANGED <<run, tries, data>>
           \/ EndRun
           \/ \E day \in {"today", "past"}, overwrite \in BOOLEAN : StartRun(day, overwrite)
           \/ NewDay
           \/ \E b \in Branches : PruneLocal(b)
  <1>1. CASE Scheduler
    BY <1>1, SchedulerMoves
  <1>2. CASE ~Scheduler
    BY <1>2 DEF DagNext
  <1> QED
    BY <1>1, <1>2

\* Every step keeps the order of the tasks.
LEMMA ControlKept ==
    ASSUME DagShape, Control, [DagNext]_dagVars
    PROVE  Control'
  <1>1. ASSUME NEW t \in Tasks, Moved(t)
        PROVE  Control'
    <2>1. PICK x : Takes(t, x)
      BY <1>1 DEF Moved
    <2> QED
      BY <2>1, TakesControl
  <1>2. ASSUME NEW b \in Branches, Gates(b)
        PROVE  Control'
    BY <1>2, GatesControl
  <1>3. ASSUME UNCHANGED task
        PROVE  Control'
    BY <1>3, ControlRests
  <1>4. ASSUME NEW day, NEW overwrite, StartRun(day, overwrite)
        PROVE  Control'
    BY <1>4, RunBegins
  <1>5. EndRun \/ NewDay \/ (\E b \in Branches : PruneLocal(b)) \/ UNCHANGED dagVars => UNCHANGED task
    BY DEF EndRun, NewDay, PruneLocal, dagVars
  <1>6. CASE DagNext
    BY <1>1, <1>2, <1>3, <1>4, <1>5, <1>6, DagSteps
  <1> QED
    BY <1>3, <1>5, <1>6

\* The states of the tasks, and the attempts.
Attempts ==
    /\ task \in [Tasks -> TaskStates]
    /\ tries \in [Tasks -> Nat]
    /\ \A t \in Tasks : tries[t] <= Retries(t) + 1
                        /\ (task[t] = "failed" <=> tries[t] = Retries(t) + 1)

\* What is known of the partitions.
Partitions ==
    /\ local \in [Branches -> {"none", "open", "stuck", "rejected", "whole"}]
    /\ bucket \in [Branches -> {"none", "mixed", "orphaned", "exact"}]
    /\ same \cup pending \cup suspect \subseteq Branches

RunShape == run \in [on : BOOLEAN, day : {"today", "past", "overtaken"}, overwrite : BOOLEAN]

\* The shape, in its three parts.
LEMMA ShapeParts == DagShape <=> RunShape /\ Attempts /\ Partitions
  BY DEF DagShape, RunShape, Attempts, Partitions

\* Retries are counted in the naturals.
LEMMA RetriesAreCounted == \A t \in Tasks : Retries(t) \in Nat
  BY DEF Retries

\* A task that moves keeps the count.
LEMMA MovesAttempts ==
    ASSUME Attempts, NEW t \in Tasks, Moved(t)
    PROVE  Attempts'
  <1>1. PICK x : Takes(t, x) /\ Counts(t, x)
    BY DEF Moved
  <1>2. task[t] = "none" /\ task' = [task EXCEPT ![t] = x] /\ x \in TaskStates
    BY <1>1 DEF Takes, Ready, TaskStates, Settled
  <1>3. /\ Retries(t) \in Nat /\ tries[t] \in Nat /\ tries[t] <= Retries(t)
        /\ \A u \in Tasks : Retries(u) \in Nat
    BY <1>2, RetriesAreCounted DEF Attempts
  <1>4. \/ tries' = tries /\ x # "failed"
        \/ /\ tries' = [tries EXCEPT ![t] = @ + 1]
           /\ x = (IF tries[t] < Retries(t) THEN "none" ELSE "failed")
    BY <1>1 DEF Counts
  <1>5. /\ task' \in [Tasks -> TaskStates]
        /\ task'[t] = x
        /\ \A u \in Tasks \ {t} : task'[u] = task[u]
    BY <1>2 DEF Attempts
  <1>6. /\ tries' \in [Tasks -> Nat]
        /\ \A u \in Tasks \ {t} : tries'[u] = tries[u]
    BY <1>4 DEF Attempts
  <1>7. \/ tries'[t] = tries[t] /\ x # "failed"
        \/ tries'[t] = tries[t] + 1 /\ (x = "failed" <=> ~(tries[t] < Retries(t)))
    BY <1>4 DEF Attempts
  <1>8. tries'[t] <= Retries(t) + 1 /\ (task'[t] = "failed" <=> tries'[t] = Retries(t) + 1)
    BY <1>3, <1>5, <1>7
  <1> QED
    BY <1>5, <1>6, <1>8 DEF Attempts

\* The gate spends no attempt.
LEMMA GatesAttempts ==
    ASSUME DagShape, Control, NEW b \in Branches, Gates(b), UNCHANGED tries
    PROVE  Attempts'
  <1> DEFINE g == <<"gate", b>>
             e == <<"extract", b>>
  <1>1. g \in Tasks /\ e \in Tasks /\ g # e /\ task[g] = "none"
    BY DEF Tasks, Stages, Gates, Ready
  <1>2. Upstream(e) = {g}
    BY Edges
  <1>3. task[e] = "none" /\ task' = [task EXCEPT ![g] = "success", ![e] = "skipped"]
    BY <1>1, <1>2 DEF Control, InTurn, Settled, Gates
  <1> HIDE DEF g, e
  <1>4. /\ task' \in [Tasks -> TaskStates]
        /\ \A u \in Tasks : (task'[u] = "failed" <=> task[u] = "failed")
    BY <1>1, <1>3 DEF DagShape, TaskStates, Settled
  <1> QED
    BY <1>4 DEF DagShape, Attempts

\* What a task does to the partitions keeps their shape.
LEMMA DidPartitions ==
    ASSUME Partitions, NEW t \in Tasks, Did(t)
    PROVE  Partitions'
  <1>1. ASSUME UNCHANGED data
        PROVE  Partitions'
    BY <1>1 DEF Partitions, data
  <1>2. CASE t[1] \in {"guard", "export_reference", "gate", "validate", "verify"}
    BY <1>1, <1>2 DEF Did
  <1>3. CASE t[1] \in {"silver", "trigger"}
    <2>1. UNCHANGED <<local, bucket, same, suspect>> /\ (pending' = pending \/ pending' = {})
      BY <1>3 DEF Did, data
    <2> QED
      BY <2>1 DEF Partitions
  <1>4. CASE t[1] \in {"extract", "land"}
    <2>1. PICK b \in Branches : t = <<"extract", b>> \/ t = <<"land", b>>
      BY <1>4 DEF Tasks, Stages, Shared
    <2>2. CASE UNCHANGED data
      BY <1>1, <2>2
    <2>3. CASE Extracts(b)
      BY <2>3 DEF Extracts, Rewritten, Partitions
    <2>4. CASE Lands(b)
      <3>1. UNCHANGED <<local, suspect>>
        BY <2>4 DEF Lands
      <3>2. CASE UNCHANGED <<bucket, same, pending>>
        BY <3>1, <3>2 DEF Partitions
      <3>3. CASE ~UNCHANGED <<bucket, same, pending>>
        BY <2>4, <3>1, <3>3 DEF Lands, Partitions
      <3> QED
        BY <3>2, <3>3
    <2> QED
      BY <2>1, <2>2, <2>3, <2>4 DEF Did
  <1>5. t[1] \in Stages \cup {"export_reference", "silver", "trigger"}
    BY DEF Tasks, Shared
  <1> QED
    BY <1>2, <1>3, <1>4, <1>5 DEF Stages

\* Every step keeps the shape.
LEMMA ShapeKept ==
    ASSUME DagShape, Control, [DagNext]_dagVars
    PROVE  DagShape'
  <1>1. RunShape /\ Attempts /\ Partitions
    BY ShapeParts
  <1>2. ASSUME UNCHANGED data
        PROVE  Partitions'
    BY <1>1, <1>2 DEF Partitions, data
  <1>3. ASSUME UNCHANGED <<task, tries>>
        PROVE  Attempts'
    BY <1>1, <1>3 DEF Attempts
  <1>4. ASSUME Overnight
        PROVE  Partitions'
    BY <1>1, <1>4 DEF Partitions, Overnight, Fresh
  <1>5. ASSUME NEW t \in Tasks, Moved(t), Did(t)
        PROVE  RunShape' /\ Attempts' /\ Partitions'
    <2>1. UNCHANGED run
      BY <1>5 DEF Moved
    <2> QED
      BY <1>1, <1>5, <2>1, MovesAttempts, DidPartitions DEF RunShape
  <1>6. ASSUME NEW b \in Branches, Gates(b), UNCHANGED <<run, tries, data>>
        PROVE  RunShape' /\ Attempts' /\ Partitions'
    BY <1>1, <1>2, <1>6, GatesAttempts DEF RunShape
  <1>7. ASSUME EndRun
        PROVE  RunShape' /\ Attempts' /\ Partitions'
    <2>1. run' = [run EXCEPT !.on = FALSE] /\ UNCHANGED <<task, tries>>
          /\ (Overnight \/ UNCHANGED data)
      BY <1>7 DEF EndRun
    <2>2. RunShape'
      BY <1>1, <2>1 DEF RunShape
    <2> QED
      BY <1>2, <1>3, <1>4, <2>1, <2>2
  <1>8. ASSUME NEW day \in {"today", "past"}, NEW overwrite \in BOOLEAN, StartRun(day, overwrite)
        PROVE  RunShape' /\ Attempts' /\ Partitions'
    <2>1. UNCHANGED data /\ RunShape'
      BY <1>8 DEF StartRun, RunShape
    <2>2. Attempts'
      BY <1>8, RetriesAreCounted DEF StartRun, Attempts, TaskStates, Settled
    <2> QED
      BY <1>2, <2>1, <2>2
  <1>9. ASSUME NewDay
        PROVE  RunShape' /\ Attempts' /\ Partitions'
    <2>1. /\ run' = run \/ run' = [run EXCEPT !.day = "overtaken"]
          /\ UNCHANGED <<task, tries>>
          /\ Overnight \/ UNCHANGED data
      BY <1>9 DEF NewDay
    <2>2. RunShape'
      BY <1>1, <2>1 DEF RunShape
    <2> QED
      BY <1>2, <1>3, <1>4, <2>1, <2>2
  <1>10. ASSUME NEW b \in Branches, PruneLocal(b)
         PROVE  RunShape' /\ Attempts' /\ Partitions'
    <2>1. RunShape' /\ Attempts'
      BY <1>1, <1>3, <1>10 DEF PruneLocal, RunShape
    <2>2. Partitions'
      BY <1>1, <1>10 DEF PruneLocal, Partitions
    <2> QED
      BY <2>1, <2>2
  <1>11. ASSUME UNCHANGED dagVars
         PROVE  RunShape' /\ Attempts' /\ Partitions'
    <2>1. UNCHANGED data /\ UNCHANGED <<task, tries>> /\ UNCHANGED run
      BY <1>11 DEF dagVars, data
    <2> QED
      BY <1>1, <1>2, <1>3, <2>1 DEF RunShape
  <1>12. RunShape' /\ Attempts' /\ Partitions'
    BY <1>5, <1>6, <1>7, <1>8, <1>9, <1>10, <1>11, DagSteps
  <1> QED
    BY <1>12 DEF DagShape, RunShape, Attempts, Partitions

\* What a task of the run has seen of a partition stays so for the rest of it.
Looked ==
    run.on => \A b \in Branches :
        /\ task[<<"extract", b>>] = "skipped" => Verified(b)
        /\ task[<<"validate", b>>] = "success" => local[b] = "whole"
        /\ task[<<"verify", b>>] = "success" => Verified(b)

DagSound == DagShape /\ Control /\ Looked

\* A branch is extracted and landed once, before it is validated and verified.
LEMMA BranchInTurn ==
    ASSUME DagShape, Control, NEW b \in Branches
    PROVE  /\ task[<<"extract", b>>] = "none"
              => task[<<"validate", b>>] = "none" /\ task[<<"verify", b>>] = "none"
           /\ task[<<"land", b>>] = "none" => task[<<"verify", b>>] = "none"
           /\ Runs(<<"land", b>>) => task[<<"extract", b>>] = "success"
  <1>1. {<<"extract", b>>, <<"validate", b>>, <<"land", b>>, <<"verify", b>>} \subseteq Tasks
    BY DEF Tasks, Stages
  <1>2. /\ Upstream(<<"validate", b>>) = {<<"extract", b>>}
        /\ Upstream(<<"land", b>>) = {<<"validate", b>>}
        /\ Upstream(<<"verify", b>>) = {<<"land", b>>}
    BY Edges
  <1>3. /\ task[<<"extract", b>>] = "none" => task[<<"validate", b>>] = "none"
        /\ task[<<"validate", b>>] = "none" => task[<<"land", b>>] = "none"
        /\ task[<<"land", b>>] = "none" => task[<<"verify", b>>] = "none"
    BY <1>1, <1>2 DEF Control, InTurn, Settled
  <1>4. Runs(<<"land", b>>) => task[<<"validate", b>>] = "success"
    BY <1>2 DEF Runs, AllSuccess
  <1>5. task[<<"validate", b>>] = "success" => task[<<"extract", b>>] = "success"
    BY <1>1, <1>2 DEF Control, SucceededInTurn
  <1> QED
    BY <1>3, <1>4, <1>5

\* An extraction is skipped by the gate and by nothing else.
LEMMA ExtractIsNotCascaded ==
    ASSUME DagShape, Control, NEW b \in Branches, NEW x, Takes(<<"extract", b>>, x)
    PROVE  x # "skipped"
  <1>1. Upstream(<<"extract", b>>) = {<<"gate", b>>}
    BY Edges
  <1>2. task[<<"gate", b>>] # "skipped"
    BY GatesAreNotSkipped
  <1>3. task[<<"gate", b>>] \in Settled
    BY <1>1 DEF Takes, Ready
  <1> QED
    BY <1>1, <1>2, <1>3 DEF Takes, Runs, AllSuccess, Blocked, Settled

\* Tasks other than the one that moves stay as they are.
LEMMA MovedAlone ==
    ASSUME DagShape, NEW t \in Tasks, Moved(t)
    PROVE  /\ \A u \in Tasks : u # t => task'[u] = task[u]
           /\ task[t] = "none" /\ run.on /\ run' = run
  BY DEF DagShape, Moved, Takes, Ready

\* A task that moves leaves what the others have seen as it is.
LEMMA MovedLooked ==
    ASSUME DagSound, NEW t \in Tasks, Moved(t), Did(t)
    PROVE  Looked'
  <1>1. /\ \A u \in Tasks : u # t => task'[u] = task[u]
        /\ task[t] = "none" /\ run.on /\ run' = run
    BY MovedAlone DEF DagSound
  <1> SUFFICES ASSUME NEW b \in Branches
               PROVE  /\ task'[<<"extract", b>>] = "skipped" => Verified(b)'
                      /\ task'[<<"validate", b>>] = "success" => local'[b] = "whole"
                      /\ task'[<<"verify", b>>] = "success" => Verified(b)'
    BY DEF Looked
  <1>2. {<<"extract", b>>, <<"validate", b>>, <<"land", b>>, <<"verify", b>>} \subseteq Tasks
    BY DEF Tasks, Stages
  <1>3. /\ task[<<"extract", b>>] = "skipped" => Verified(b)
        /\ task[<<"validate", b>>] = "success" => local[b] = "whole"
        /\ task[<<"verify", b>>] = "success" => Verified(b)
    BY <1>1 DEF DagSound, Looked
  <1>4. /\ task'[<<"extract", b>>] = "skipped" => task[<<"extract", b>>] = "skipped"
        /\ task'[<<"validate", b>>] = "success"
           => task[<<"validate", b>>] = "success" \/ local[b] = "whole"
        /\ task'[<<"verify", b>>] = "success"
           => task[<<"verify", b>>] = "success" \/ Verified(b)
    <2>1. task'[<<"extract", b>>] = "skipped" => task[<<"extract", b>>] = "skipped"
      <3>1. CASE t = <<"extract", b>>
        <4>1. PICK x : Takes(<<"extract", b>>, x)
          BY <3>1 DEF Moved
        <4>2. x # "skipped" /\ task'[<<"extract", b>>] = x
          BY <1>2, <4>1, ExtractIsNotCascaded DEF Takes, DagSound, DagShape
        <4> QED
          BY <4>2
      <3> QED
        BY <1>1, <1>2, <3>1
    <2> QED
      BY <1>1, <1>2, <2>1 DEF Did
  <1>5. CASE UNCHANGED <<local, bucket, same>>
    BY <1>3, <1>4, <1>5 DEF Verified
  <1>6. CASE \E c \in Branches : t = <<"extract", c>> /\ Extracts(c)
    <2>1. PICK c \in Branches : t = <<"extract", c>> /\ Extracts(c)
      BY <1>6
    <2>2. CASE c = b
      BY <1>1, <1>2, <1>4, <2>1, <2>2, BranchInTurn DEF DagSound, Did
    <2>3. CASE c # b
      <3>1. local'[b] = local[b] /\ bucket' = bucket /\ (b \in same' <=> b \in same)
        BY <2>1, <2>3 DEF Extracts, Rewritten, DagSound, DagShape
      <3> QED
        BY <1>3, <1>4, <3>1 DEF Verified
    <2> QED
      BY <2>2, <2>3
  <1>7. CASE \E c \in Branches : t = <<"land", c>> /\ Runs(t) /\ Lands(c)
    <2>1. PICK c \in Branches : t = <<"land", c>> /\ Runs(t) /\ Lands(c)
      BY <1>7
    <2>2. local' = local
      BY <2>1 DEF Lands
    <2>3. CASE c = b
      <3>1. task[<<"verify", b>>] = "none" /\ task[<<"extract", b>>] = "success"
        BY <1>1, <2>1, <2>3, BranchInTurn DEF DagSound
      <3>2. task'[<<"verify", b>>] = "none" /\ task'[<<"extract", b>>] = "success"
        BY <1>1, <1>2, <2>1, <2>3, <3>1
      <3> QED
        BY <1>3, <1>4, <2>2, <3>2
    <2>4. CASE c # b
      <3>1. bucket'[b] = bucket[b] /\ (b \in same' <=> b \in same)
        BY <2>1, <2>4 DEF Lands, DagSound, DagShape
      <3> QED
        BY <1>3, <1>4, <2>2, <3>1 DEF Verified
    <2> QED
      BY <2>3, <2>4
  <1>8. \/ t[1] \in {"guard", "export_reference", "gate", "validate", "verify", "silver", "trigger"}
        \/ \E c \in Branches : t = <<"extract", c>> \/ t = <<"land", c>>
    BY DEF Tasks, Stages, Shared
  <1>9. CASE t[1] \in {"guard", "export_reference", "gate", "validate", "verify", "silver", "trigger"}
    BY <1>5, <1>9 DEF Did, data
  <1>10. CASE \E c \in Branches : t = <<"extract", c>> \/ t = <<"land", c>>
    BY <1>5, <1>6, <1>7, <1>10 DEF Did, data
  <1> QED
    BY <1>8, <1>9, <1>10

\* The gate skips an extraction when it has verified the copy.
LEMMA GatesLooked ==
    ASSUME DagSound, NEW c \in Branches, Gates(c), UNCHANGED <<run, tries, data>>
    PROVE  Looked'
  <1> SUFFICES ASSUME NEW b \in Branches
               PROVE  /\ task'[<<"extract", b>>] = "skipped" => Verified(b)
                      /\ task'[<<"validate", b>>] = "success" => local[b] = "whole"
                      /\ task'[<<"verify", b>>] = "success" => Verified(b)
    BY DEF Looked, Verified, data
  <1>1. {<<"gate", c>>, <<"extract", c>>, <<"extract", b>>, <<"validate", b>>, <<"verify", b>>} \subseteq Tasks
    BY DEF Tasks, Stages
  <1>2. /\ task' = [task EXCEPT ![<<"gate", c>>] = "success", ![<<"extract", c>>] = "skipped"]
        /\ Verified(c) /\ run.on
    BY DEF Gates, Ready
  <1>3. /\ c # b => task'[<<"extract", b>>] = task[<<"extract", b>>]
        /\ task'[<<"validate", b>>] = task[<<"validate", b>>]
        /\ task'[<<"verify", b>>] = task[<<"verify", b>>]
    BY <1>1, <1>2 DEF DagSound, DagShape
  <1> QED
    BY <1>2, <1>3 DEF DagSound, Looked

\* Every step keeps what has been seen.
LEMMA LookedKept ==
    ASSUME DagSound, [DagNext]_dagVars
    PROVE  Looked'
  <1>1. ASSUME NEW day, NEW overwrite, StartRun(day, overwrite)
        PROVE  Looked'
    <2>1. \A b \in Branches : {<<"extract", b>>, <<"validate", b>>, <<"verify", b>>} \subseteq Tasks
      BY DEF Tasks, Stages
    <2> QED
      BY <1>1, <2>1 DEF StartRun, Looked
  <1>2. ASSUME EndRun
        PROVE  Looked'
    BY <1>2 DEF EndRun, Looked, DagSound, DagShape
  <1>3. ASSUME NewDay
        PROVE  Looked'
    <2>1. UNCHANGED task
      BY <1>3 DEF NewDay
    <2>2. CASE run.on
      BY <1>3, <2>1, <2>2 DEF NewDay, DagSound, Looked, Verified, data
    <2>3. CASE ~run.on
      BY <1>3, <2>3 DEF NewDay, Looked
    <2> QED
      BY <2>2, <2>3
  <1>4. ASSUME NEW b \in Branches, PruneLocal(b)
        PROVE  Looked'
    BY <1>4 DEF PruneLocal, Looked
  <1>5. ASSUME UNCHANGED dagVars
        PROVE  Looked'
    BY <1>5 DEF dagVars, DagSound, Looked, Verified
  <1> QED
    BY <1>1, <1>2, <1>3, <1>4, <1>5, MovedLooked, GatesLooked, DagSteps DEF DagSound

\* Before the first run.
LEMMA DagInitSound ==
    ASSUME DagInit
    PROVE  DagSound
  <1>1. DagShape
    BY RetriesAreCounted DEF DagInit, DagShape, TaskStates, Settled, Fresh
  <1>2. Control
    BY DEF DagInit, Control, InTurn, SkippedInTurn, SucceededInTurn
  <1>3. Looked
    BY DEF DagInit, Looked
  <1> QED
    BY <1>1, <1>2, <1>3 DEF DagSound

\* The invariant of every DAG, whatever its branches, its options and its failures.
THEOREM DagIsSound == DagSpec => []DagSound
  <1>1. DagInit => DagSound
    BY DagInitSound
  <1>2. DagSound /\ [DagNext]_dagVars => DagSound'
    BY ControlKept, ShapeKept, LookedKept DEF DagSound
  <1> QED
    BY <1>1, <1>2, PTL DEF DagSpec

\* Silver builds on what every branch of the run has verified or found landed.
LEMMA SilverRunsOnVerified ==
    ASSUME DagSound, run.on, Ready(<<"silver", "dag">>), Runs(<<"silver", "dag">>), NEW b \in Branches
    PROVE  Verified(b)
  <1> DEFINE s == <<"silver", "dag">>
             v == <<"verify", b>>
  <1>1. v \in Upstream(s) /\ s[1] = "silver"
    BY Edges
  <1>2. task[v] \in Settled /\ task[v] \notin {"failed", "upstream_failed"}
    BY <1>1 DEF Ready, Runs, NoneFailedMinOneSuccess, Blocked
  <1>3. CASE task[v] = "success"
    BY <1>3 DEF DagSound, Looked
  <1>4. CASE task[v] = "skipped"
    <2>1. {<<"extract", b>>, <<"validate", b>>, <<"land", b>>, <<"verify", b>>} \subseteq Tasks
      BY DEF Tasks, Stages
    <2>2. /\ Upstream(<<"validate", b>>) = {<<"extract", b>>}
          /\ Upstream(<<"land", b>>) = {<<"validate", b>>}
          /\ Upstream(<<"verify", b>>) = {<<"land", b>>}
      BY Edges
    <2>3. task[<<"extract", b>>] = "skipped"
      BY <1>4, <2>1, <2>2 DEF DagSound, Control, SkippedInTurn
    <2> QED
      BY <2>3 DEF DagSound, Looked
  <1> QED
    BY <1>2, <1>3, <1>4 DEF Settled

\* The variables keep their shape: attempts stay within the retries of each task.
THEOREM DagIsTyped == DagSpec => []DagTypeOK
  <1>1. DagSound => DagTypeOK
    BY DEF DagSound, DagShape, DagTypeOK, TaskStates
  <1> QED
    BY <1>1, DagIsSound, PTL

\* Only the build of silver empties what it has to read.
LEMMA BuiltBySilver ==
    ASSUME DagSound, [DagNext]_dagVars, pending # {}, pending' = {}
    PROVE  run.on /\ Ready(<<"silver", "dag">>) /\ Runs(<<"silver", "dag">>)
  <1>1. CASE \E t \in Tasks : Moved(t) /\ Did(t)
    <2>1. PICK t \in Tasks : Moved(t) /\ Did(t)
      BY <1>1
    <2>2. t[1] \in Stages \cup {"export_reference", "silver", "trigger"}
      BY DEF Tasks, Shared
    <2>3. CASE t[1] = "silver"
      <3>1. t = <<"silver", "dag">>
        BY <2>3 DEF Tasks, Stages, Shared
      <3>2. Ready(t) /\ Runs(t)
        BY <2>1, <2>3 DEF Did, data, Moved, Takes
      <3> QED
        BY <3>1, <3>2 DEF Ready
    <2>4. CASE t[1] \in {"guard", "export_reference", "gate", "validate", "verify", "trigger"}
      BY <2>1, <2>4 DEF Did, data
    <2>5. CASE t[1] \in {"extract", "land"}
      <3>1. PICK b \in Branches : t = <<"extract", b>> \/ t = <<"land", b>>
        BY <2>5 DEF Tasks, Stages, Shared
      <3>2. UNCHANGED data \/ Extracts(b) \/ Lands(b)
        BY <2>1, <3>1 DEF Did
      <3> QED
        BY <3>2 DEF data, Extracts, Rewritten, Lands
    <2> QED
      BY <2>2, <2>3, <2>4, <2>5 DEF Stages
  <1>2. CASE ~\E t \in Tasks : Moved(t) /\ Did(t)
    <2>1. UNCHANGED pending
      BY <1>2, DagSteps DEF DagSound, data, EndRun, Overnight, StartRun, NewDay, PruneLocal, dagVars
    <2> QED
      BY <2>1
  <1> QED
    BY <1>1, <1>2

(* The trigger rule of silver, NONE_FAILED_MIN_ONE_SUCCESS, of every DAG:   *)
(* when it builds on something new, the partition of every branch has been  *)
(* verified in this run or found landed by its gate, and is still so.       *)
THEOREM SilverBuildsOnVerified == DagSpec => SilverOnVerified
  <1>1. DagSound /\ [DagNext]_dagVars => [BuildsOnVerified]_dagVars
    <2> SUFFICES ASSUME DagSound, [DagNext]_dagVars, pending # {}, pending' = {}, NEW b \in Branches
                 PROVE  local[b] = "whole" /\ bucket[b] = "exact" /\ b \in same
      BY DEF BuildsOnVerified
    <2>1. Verified(b)
      BY BuiltBySilver, SilverRunsOnVerified
    <2> QED
      BY <2>1 DEF Verified
  <1> QED
    BY <1>1, DagIsSound, PTL DEF DagSpec, SilverOnVerified

-----------------------------------------------------------------------------
\* What passed the guard runs on the day of its label.
GuardedToday == run.on => \A b \in Branches : task[<<"guard", b>>] = "success" => run.day = "today"

\* While no day ends in the middle of a run every step keeps it.
LEMMA GuardedTodayKept ==
    ASSUME DagSound, GuardedToday, ~Midnight, [DagNext]_dagVars
    PROVE  GuardedToday'
  <1>0. \A b \in Branches : {<<"guard", b>>, <<"gate", b>>, <<"extract", b>>} \subseteq Tasks
    BY DEF Tasks, Stages
  <1>1. ASSUME NEW t \in Tasks, Moved(t), Did(t)
        PROVE  GuardedToday'
    <2>1. /\ \A u \in Tasks : u # t => task'[u] = task[u]
          /\ task[t] = "none" /\ run.on /\ run' = run
      BY <1>1, MovedAlone DEF DagSound
    <2> QED
      BY <1>0, <1>1, <2>1 DEF GuardedToday, Did
  <1>2. ASSUME NEW b \in Branches, Gates(b), UNCHANGED <<run, tries, data>>
        PROVE  GuardedToday'
    <2>1. \A c \in Branches : task'[<<"guard", c>>] = task[<<"guard", c>>]
      BY <1>0, <1>2 DEF Gates, DagSound, DagShape
    <2> QED
      BY <1>2, <2>1 DEF GuardedToday
  <1>3. ASSUME EndRun
        PROVE  GuardedToday'
    BY <1>3 DEF EndRun, GuardedToday, DagSound, DagShape
  <1>4. ASSUME NEW day, NEW overwrite, StartRun(day, overwrite)
        PROVE  GuardedToday'
    BY <1>0, <1>4 DEF StartRun, GuardedToday
  <1>5. NewDay \/ (\E b \in Branches : PruneLocal(b)) \/ UNCHANGED dagVars => UNCHANGED <<run, task>>
    BY DEF NewDay, PruneLocal, dagVars
  <1>6. ASSUME UNCHANGED <<run, task>>
        PROVE  GuardedToday'
    BY <1>6 DEF GuardedToday
  <1> QED
    BY <1>1, <1>2, <1>3, <1>4, <1>5, <1>6, DagSteps DEF DagSound

\* Where there is a guard an extraction runs behind it.
LEMMA ExtractIsGuarded ==
    ASSUME DagSound, GuardedToday, HasGuard, NEW b \in Branches, run.on,
           Ready(<<"extract", b>>), Runs(<<"extract", b>>)
    PROVE  run.day = "today"
  <1>1. task[<<"gate", b>>] = "success"
    BY Edges DEF Runs, AllSuccess
  <1>2. <<"gate", b>> \in Tasks /\ <<"gate", b>>[1] # "silver"
    BY DEF Tasks, Stages
  <1>3. task[<<"guard", b>>] = "success"
    BY <1>1, <1>2, Edges DEF DagSound, Control, SucceededInTurn
  <1> QED
    BY <1>3 DEF GuardedToday

\* Only an extraction writes a local partition.
LEMMA WrittenByExtract ==
    ASSUME DagSound, [DagNext]_dagVars, NEW b \in Branches,
           local'[b] # local[b], local'[b] # "none"
    PROVE  run.on /\ Ready(<<"extract", b>>) /\ Runs(<<"extract", b>>) /\ Extracts(b)
  <1>1. CASE \E t \in Tasks : Moved(t) /\ Did(t)
    <2>1. PICK t \in Tasks : Moved(t) /\ Did(t)
      BY <1>1
    <2>2. \/ t[1] \in {"guard", "export_reference", "gate", "validate", "verify", "silver", "trigger"}
          \/ \E c \in Branches : t = <<"extract", c>> \/ t = <<"land", c>>
      BY DEF Tasks, Stages, Shared
    <2>3. CASE t[1] \in {"guard", "export_reference", "gate", "validate", "verify", "silver", "trigger"}
      BY <2>1, <2>3 DEF Did, data
    <2>4. CASE \E c \in Branches : t = <<"extract", c>> \/ t = <<"land", c>>
      <3>1. PICK c \in Branches : t = <<"extract", c>> \/ t = <<"land", c>>
        BY <2>4
      <3>2. t = <<"extract", c>> /\ Runs(t) /\ Extracts(c)
        BY <2>1, <3>1 DEF Did, data, Lands
      <3>3. c = b
        BY <3>2 DEF Extracts, Rewritten, DagSound, DagShape
      <3>4. run.on /\ Ready(t)
        BY <2>1 DEF Moved, Takes, Ready
      <3> QED
        BY <3>2, <3>3, <3>4
    <2> QED
      BY <2>2, <2>3, <2>4
  <1>2. CASE ~\E t \in Tasks : Moved(t) /\ Did(t)
    <2>1. local' = local \/ local'[b] = "none"
      BY <1>2, DagSteps
         DEF DagSound, DagShape, data, EndRun, Overnight, Fresh, StartRun, NewDay, PruneLocal, dagVars
    <2> QED
      BY <2>1
  <1> QED
    BY <1>1, <1>2

(* guard_date of a DAG that has one: while no day ends in the middle of a   *)
(* run, the Source is called only on the day the partition is labelled with.*)
THEOREM PricesAreOfTheirDay ==
    ASSUME HasGuard, ~Midnight
    PROVE  DagSpec => ExtractedOnItsDay
  <1>1. DagInit => GuardedToday
    BY DEF DagInit, GuardedToday
  <1>2. DagSound /\ GuardedToday /\ [DagNext]_dagVars => GuardedToday'
    BY GuardedTodayKept
  <1>3. DagSound /\ GuardedToday /\ [DagNext]_dagVars => [ExtractsToday]_dagVars
    BY WrittenByExtract, ExtractIsGuarded DEF ExtractsToday
  <1> QED
    BY <1>1, <1>2, <1>3, DagIsSound, PTL DEF DagSpec, ExtractedOnItsDay

-----------------------------------------------------------------------------
\* An exact copy in the bucket is that of the partition on the disk.
LandedIsLocal ==
    /\ run.overwrite = FALSE
    /\ \A b \in Branches : bucket[b] = "exact" => b \in same /\ local[b] = "whole"

\* Every step keeps it: nobody prunes and no run overwrites.
LEMMA LandedIsLocalKept ==
    ASSUME DagSound, LandedIsLocal, ~Pruning, ~HasOverwrite, [DagNext]_dagVars
    PROVE  LandedIsLocal'
  <1>1. ASSUME NEW t \in Tasks, Moved(t), Did(t)
        PROVE  LandedIsLocal'
    <2>1. run' = run /\ run.on
      BY <1>1, MovedAlone DEF DagSound
    <2>2. ASSUME UNCHANGED <<local, bucket, same>>
          PROVE  LandedIsLocal'
      BY <2>1, <2>2 DEF LandedIsLocal
    <2>3. \/ t[1] \in {"guard", "export_reference", "gate", "validate", "verify", "silver", "trigger"}
          \/ \E c \in Branches : t = <<"extract", c>> \/ t = <<"land", c>>
      BY DEF Tasks, Stages, Shared
    <2>4. CASE t[1] \in {"guard", "export_reference", "gate", "validate", "verify", "silver", "trigger"}
      BY <1>1, <2>2, <2>4 DEF Did, data
    <2>5. CASE \E c \in Branches : t = <<"extract", c>> \/ t = <<"land", c>>
      <3>1. PICK c \in Branches : t = <<"extract", c>> \/ t = <<"land", c>>
        BY <2>5
      <3>2. CASE UNCHANGED data
        BY <2>2, <3>2 DEF data
      <3>3. CASE t = <<"extract", c>> /\ Extracts(c)
        <4>1. bucket[c] # "exact" /\ bucket' = bucket
          BY <3>3 DEF Extracts, Rewritten, LandedIsLocal
        <4>2. \A b \in Branches \ {c} : local'[b] = local[b] /\ (b \in same' <=> b \in same)
          BY <3>3 DEF Extracts, Rewritten, DagSound, DagShape
        <4> QED
          BY <2>1, <4>1, <4>2 DEF LandedIsLocal
      <3>4. CASE t = <<"land", c>> /\ Runs(t) /\ Lands(c)
        <4>1. local' = local
          BY <3>4 DEF Lands
        <4>2. local[c] = "whole"
          <5>1. task[<<"validate", c>>] = "success"
            BY <3>4, Edges DEF Runs, AllSuccess
          <5> QED
            BY <2>1, <5>1 DEF DagSound, Looked
        <4>3. \A b \in Branches \ {c} : bucket'[b] = bucket[b] /\ (b \in same' <=> b \in same)
          BY <3>4 DEF Lands, DagSound, DagShape
        <4>4. bucket'[c] = "exact" => c \in same'
          BY <3>4 DEF Lands, DagSound, DagShape
        <4> QED
          BY <2>1, <4>1, <4>2, <4>3, <4>4 DEF LandedIsLocal
      <3> QED
        BY <1>1, <3>1, <3>2, <3>3, <3>4 DEF Did
    <2> QED
      BY <2>3, <2>4, <2>5
  <1>2. ASSUME UNCHANGED data, run'.overwrite = FALSE
        PROVE  LandedIsLocal'
    BY <1>2 DEF LandedIsLocal, data
  <1>3. ASSUME Overnight, run'.overwrite = FALSE
        PROVE  LandedIsLocal'
    BY <1>3 DEF LandedIsLocal, Overnight, Fresh
  <1>4. ASSUME EndRun
        PROVE  LandedIsLocal'
    <2>1. run'.overwrite = FALSE
      BY <1>4 DEF EndRun, DagSound, DagShape, LandedIsLocal
    <2> QED
      BY <1>2, <1>3, <1>4, <2>1 DEF EndRun
  <1>5. ASSUME NEW day \in {"today", "past"}, NEW overwrite \in BOOLEAN, StartRun(day, overwrite)
        PROVE  LandedIsLocal'
    BY <1>2, <1>5 DEF StartRun
  <1>6. ASSUME NewDay
        PROVE  LandedIsLocal'
    <2>1. run'.overwrite = FALSE
      BY <1>6 DEF NewDay, DagSound, DagShape, LandedIsLocal
    <2> QED
      BY <1>2, <1>3, <1>6, <2>1 DEF NewDay
  <1>7. ASSUME UNCHANGED <<run, data>>
        PROVE  LandedIsLocal'
    BY <1>7 DEF LandedIsLocal, data
  <1>8. /\ \A b \in Branches : ~PruneLocal(b)
        /\ UNCHANGED dagVars => UNCHANGED <<run, data>>
    BY DEF PruneLocal, dagVars, data
  <1> QED
    BY <1>1, <1>4, <1>5, <1>6, <1>7, <1>8, DagSteps DEF DagSound

(* skip_if_landed and the mark extract looks at, where nobody prunes and    *)
(* the DAG takes no overwrite parameter: an exact copy in the bucket stays  *)
(* the copy of what is on the disk and no other extraction of the day       *)
(* replaces it.                                                             *)
THEOREM LandedIsNeverReplaced ==
    ASSUME ~Pruning, ~HasOverwrite
    PROVE  DagSpec => LandedIsKept /\ []LandedIsLocal
  <1>1. DagInit => LandedIsLocal
    BY DEF DagInit, LandedIsLocal, Fresh
  <1>2. DagSound /\ LandedIsLocal /\ [DagNext]_dagVars => LandedIsLocal'
    BY LandedIsLocalKept
  <1>3. LandedIsLocal => [KeepsLanded]_dagVars
    BY DEF LandedIsLocal, KeepsLanded
  <1> QED
    BY <1>1, <1>2, <1>3, DagIsSound, PTL DEF DagSpec, LandedIsKept
=============================================================================
