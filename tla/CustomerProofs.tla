----------------------------- MODULE CustomerProofs -----------------------------
(***************************************************************************)
(* The customers of a warehouse and when they order, for every value of    *)
(* the constants: CustomerBase!ReferenceCovers and BaseIsSound, whatever   *)
(* country, seeds, exports, extractions and deaths there are, and          *)
(* OrderCalendar!CalendarIsKept, whatever table of premises, schedule, day *)
(* and clock.                                                              *)
(*                                                                         *)
(* The files of the reference are replaced one by one while others read    *)
(* them, so that the three files a base is drawn from may be of three      *)
(* exports.  The argument is about every copy of a file that is about (on  *)
(* disk, in the memory of a verb, in the payload of an export): copies of  *)
(* one export are equal, and each base agrees with whatever copy it was    *)
(* drawn from, wherever it still is.                                       *)
(***************************************************************************)
EXTENDS CustomerBase, OrderCalendar, NaturalsInduction, WellFoundedInduction,
        FiniteSetTheorems, SequenceTheorems, TLAPS

(***************************************************************************)
(* What an export computes.                                                *)
(***************************************************************************)
\* Where people of an age are counted, somebody is of such an age.
LEMMA SomebodyIsCounted ==
    ASSUME NEW pyramid, NEW p, NEW from, People(pyramid, p, from) # 0
    PROVE  \E a \in Age : a >= from
  <1> SUFFICES ASSUME \A a \in Age : ~(a >= from)
               PROVE  People(pyramid, p, from) = 0
    OBVIOUS
  <1> DEFINE S == {a \in Age : a >= from}
  <1>1. S = {} /\ SUBSET S = {{}}
    OBVIOUS
  <1> QED
    BY <1>1 DEF People, MapThenSumSet, MapThenFoldSet

\* A set of numbers that is not empty has a smallest one.
LEMMA LeastExists ==
    ASSUME NEW S \in SUBSET Nat, S # {}
    PROVE  \E n \in S : \A m \in S : n <= m
  <1> DEFINE R == OpToRel(<, Nat)
  <1>1. PICK x \in S : \A y \in S : ~(<< y, x >> \in R)
    BY NatLessThanWellFounded, WFMin, Zenon
  <1>2. ASSUME NEW y \in Nat, NEW z \in Nat, y < z
        PROVE  << y, z >> \in R
    <2>1. << y, z >> \in Nat \X Nat /\ << y, z >>[1] < << y, z >>[2]
      BY <1>2
    <2> QED
      BY <2>1, Zenon DEF OpToRel
  <1> HIDE DEF R
  <1>3. ASSUME NEW m \in S
        PROVE  x <= m
    <2>1. ~(m < x)
      BY <1>1, <1>2
    <2> QED
      BY <2>1
  <1> QED
    BY <1>3

\* What FlattenSeq joins, up to the n-th.
Joined(seqs, n, u) ==
    u = [i \in 1 .. n |-> IF i = 1 THEN seqs[i] ELSE u[i - 1] \o seqs[i]]

LEMMA JoinedExists ==
    ASSUME NEW seqs, NEW n \in Nat
    PROVE  \E u : Joined(seqs, n, u)
  <1> DEFINE S == {m \in Nat : ~ \E u : Joined(seqs, m, u)}
  <1> SUFFICES ASSUME S # {}
               PROVE  FALSE
    OBVIOUS
  <1>1. PICK m \in S : \A x \in S : m <= x
    <2>1. S \in SUBSET Nat
      OBVIOUS
    <2> HIDE DEF S
    <2> QED
      BY <2>1, LeastExists
  <1>2. CASE m = 0
    <2> DEFINE w == [i \in 1 .. 0 |-> 0]
    <2>1. w = [i \in 1 .. 0 |-> IF i = 1 THEN seqs[i] ELSE w[i - 1] \o seqs[i]]
      OBVIOUS
    <2> QED
      BY <1>2, <2>1 DEF Joined
  <1>3. CASE m # 0
    <2>1. m - 1 \in Nat /\ m - 1 \notin S
      BY <1>1, <1>3
    <2>2. PICK u : Joined(seqs, m - 1, u)
      BY <2>1
    <2> DEFINE w == [i \in 1 .. m |-> IF i = m /\ m # 1 THEN u[m - 1] \o seqs[m]
                                      ELSE IF i = m THEN seqs[m] ELSE u[i]]
    <2>3. \A i \in 1 .. m - 1 : u[i] = IF i = 1 THEN seqs[i] ELSE u[i - 1] \o seqs[i]
      <3> HIDE DEF S
      <3> QED
        BY <2>2 DEF Joined
    <2>4. \A i \in 1 .. m : w[i] = IF i = 1 THEN seqs[i] ELSE w[i - 1] \o seqs[i]
      <3> TAKE i \in 1 .. m
      <3>1. CASE i = m
        BY <3>1, <1>3
      <3>2. CASE i # m
        <4>1. i \in 1 .. m - 1 /\ w[i] = u[i]
          BY <3>2
        <4>2. i # 1 => w[i - 1] = u[i - 1]
          BY <3>2
        <4> QED
          BY <2>3, <4>1, <4>2
      <3> QED
        BY <3>1, <3>2
    <2>5. w = [i \in 1 .. m |-> w[i]]
      OBVIOUS
    <2>6. w = [i \in 1 .. m |-> IF i = 1 THEN seqs[i] ELSE w[i - 1] \o seqs[i]]
      <3> HIDE DEF w
      <3> QED
        BY <2>4, <2>5
    <2> QED
      BY <2>6, <1>1 DEF Joined
  <1> QED
    BY <1>2, <1>3

\* Sequences over a set, joined, are a sequence over it.
LEMMA FlattenedIsOver ==
    ASSUME NEW S, NEW seqs \in Seq(Seq(S))
    PROVE  FlattenSeq(seqs) \in Seq(S)
  <1> DEFINE n == Len(seqs)
             u == CHOOSE u : u = [i \in 1 .. n |-> IF i = 1 THEN seqs[i] ELSE u[i - 1] \o seqs[i]]
  <1>1. CASE n = 0
    BY <1>1 DEF FlattenSeq
  <1>2. CASE n # 0
    <2>1. n \in Nat
      OBVIOUS
    <2>2. PICK v : Joined(seqs, n, v)
      BY <2>1, JoinedExists
    <2>3. u = [i \in 1 .. n |-> IF i = 1 THEN seqs[i] ELSE u[i - 1] \o seqs[i]]
      BY <2>2 DEF Joined
    <2>4. \A i \in 1 .. n : u[i] = IF i = 1 THEN seqs[i] ELSE u[i - 1] \o seqs[i]
      <3> HIDE DEF u
      <3> QED
        BY <2>3
    <2>5. FlattenSeq(seqs) = u[n]
      BY <1>2 DEF FlattenSeq
    <2> HIDE DEF u
    <2> DEFINE B == {m \in Nat : m \in 1 .. n /\ u[m] \notin Seq(S)}
    <2>6. B = {}
      <3> SUFFICES ASSUME B # {}
                   PROVE  FALSE
        OBVIOUS
      <3>1. PICK m \in B : \A x \in B : m <= x
        <4>1. B \in SUBSET Nat
          OBVIOUS
        <4> HIDE DEF B
        <4> QED
          BY <4>1, LeastExists
      <3>2. m \in 1 .. n /\ u[m] \notin Seq(S) /\ seqs[m] \in Seq(S)
        BY <3>1
      <3>3. CASE m = 1
        BY <3>2, <3>3, <2>4
      <3>4. CASE m # 1
        <4>1. m - 1 \in 1 .. n /\ m - 1 \notin B
          BY <3>1, <3>2, <3>4
        <4>2. u[m - 1] \in Seq(S)
          BY <4>1
        <4> HIDE DEF B
        <4>3. u[m] = u[m - 1] \o seqs[m]
          BY <3>2, <3>4, <2>4
        <4> QED
          BY <3>2, <4>2, <4>3
      <3> QED
        BY <3>3, <3>4
    <2> QED
      BY <1>2, <2>1, <2>5, <2>6
  <1> QED
    BY <1>1, <1>2

(***************************************************************************)
(* The invariant.                                                          *)
(***************************************************************************)
Early == {"candidates", "weights", "ages"}

\* The number the next export that begins to write has at the least.
Fresh == IF exp.pc \in Early THEN used.export ELSE used.export + 1

\* Every copy of the i-th file there is: on disk, in the memory of a verb, and
\* in the export that is writing.
Copies(i, files, branches, export) ==
    ({files[Files[i]]} \ {None})
    \union (UNION {IF i <= Len(branches[wh].read) THEN {branches[wh].read[i]} ELSE {} : wh \in Wh})
    \union (IF export.pc = "write" THEN {export.payload[Files[i]]} ELSE {})

Known(i) == Copies(i, file, branch, exp)

\* Candidates are tramos of the edition they name, of municipalities of the area.
Real(c) ==
    /\ c.date \in DOMAIN Callejero
    /\ \A i \in DOMAIN c.rows :
         /\ \E area \in Range(Area) : << c.rows[i].wh, c.rows[i].tramo.municipality >> \in area
         /\ c.rows[i].tramo \in Range(Callejero[c.date])

\* Ages are those of adults.
Adult(a) == \A x \in a.rows : x.age >= a.minAge

\* Copies K of the i-th file: older than the export n, and of one export the same.
CopiesAgree(i, K, n) ==
    /\ \A x \in K : x.made \in Nat /\ x.made < n
    /\ \A x, y \in K : x.made = y.made => x = y
    /\ i = 1 => \A x \in K : Real(x)
    /\ i = 3 => \A x \in K : Adult(x)

\* What HomesAreReal and NoMinorIsACustomer say of a base.
Homely(wh, m) ==
    LET one == m.data.one IN
    /\ \E area \in Range(Area) : << wh, one.municipality >> \in area
    /\ \E t \in Range(Callejero[m.callejero]) :
         /\ t.municipality = one.municipality /\ t.street = one.street
         /\ one.number # None =>
              /\ t.numbering \in {"odd", "even"}
              /\ (one.number % 2 = 1) = (t.numbering = "odd")
              /\ one.number \in Min({t.from, t.to}) .. Max({t.from, t.to})
              /\ one.number # 0
    /\ one.age >= m.minAge

\* What a base has of the i-th file it was drawn from.
DrawnFrom(i, wh, m, x) ==
    LET one == m.data.one IN
    /\ i = 1 => /\ m.callejero = x.date
                /\ one.wh = wh /\ one.index \in DOMAIN x.rows
                /\ x.rows[one.index].wh = wh
                /\ x.rows[one.index].tramo.municipality = one.municipality
                /\ x.rows[one.index].tramo.street = one.street
                /\ x.rows[one.index].tramo.numbering = one.numbering
                /\ HouseNumberOk(one.number, x.rows[one.index].tramo)
    /\ i = 2 => << wh, one.municipality >> \in Places(x.rows)
    /\ i = 3 => m.minAge = x.minAge

\* A base agrees with every copy that may be one it was drawn from.
Agrees(i, wh, m, K, n) ==
    /\ m.reference[i] \in Nat /\ m.reference[i] < n
    /\ \A x \in K : x.made = m.reference[i] => DrawnFrom(i, wh, m, x)

Based(wh, m) == Homely(wh, m) /\ \A i \in 1 .. 3 : Agrees(i, wh, m, Known(i), Fresh)

BasesAgree(wh) ==
    /\ manifest[wh] # None => Based(wh, manifest[wh])
    /\ branch[wh].pc \in {"data", "manifest", "mark"} => Based(wh, branch[wh].made)

\* The export under way.
ExportIsOfNow ==
    /\ exp.pc \in Early => exp.made = used.export
    /\ exp.pc \in {"weights", "ages"} => Real(exp.candidates) /\ exp.candidates.made = used.export
    /\ exp.pc = "write" =>
         /\ exp = [pc |-> "write", left |-> exp.left, payload |-> exp.payload]
         /\ exp.left \in Seq(Range(Files)) /\ exp.left # << >>
         /\ \A i \in 1 .. 3 : exp.payload[Files[i]].made = used.export
         /\ Real(exp.payload.candidates) /\ Adult(exp.payload.ages)

Landing == {"land", "land_manifest", "land_mark", "verify"}
Pcs == {"idle", "gate", "extract", "load", "data", "manifest", "mark", "reread"} \union Landing

Verb(b) ==
    /\ b = [pc |-> b.pc, chain |-> b.chain, overwrite |-> b.overwrite, count |-> b.count,
            read |-> b.read, made |-> b.made]
    /\ b.pc \in Pcs
    /\ b.read \in Seq(Range(b.read))
    /\ Len(b.read) \in 0 .. 3

Shapes ==
    /\ silver \in [area : DOMAIN Area, callejero : DOMAIN Callejero,
                   population : DOMAIN Population, pyramid : DOMAIN Pyramid, minAge : MinAge]
    /\ used \in [change : Nat, export : Nat, extract : Nat, crash : Nat]
    /\ exp.pc \in {"idle", "candidates", "weights", "ages", "write"}
    /\ dag = [phase |-> dag.phase, overwrite |-> dag.overwrite]
    /\ dag.phase \in {"idle", "export", "branches"}
    /\ file = [f \in Range(Files) |-> file[f]]
    /\ branch = [wh \in Wh |-> branch[wh]]
    /\ data = [wh \in Wh |-> data[wh]]
    /\ manifest = [wh \in Wh |-> manifest[wh]]
    /\ success \in [Wh -> BOOLEAN]

Inv ==
    /\ Shapes
    /\ \A wh \in Wh : Verb(branch[wh])
    /\ ExportIsOfNow
    /\ PayloadsCover
    /\ NoAdultIsLeftOut
    /\ \A i \in 1 .. 3 : CopiesAgree(i, Known(i), Fresh)
    /\ \A wh \in Wh : BasesAgree(wh)

(***************************************************************************)
(* Lemmas about its parts.                                                 *)
(***************************************************************************)
LEMMA FilesAre ==
    /\ Range(Files) = {"candidates", "weights", "ages"}
    /\ Files[1] = "candidates" /\ Files[2] = "weights" /\ Files[3] = "ages"
    /\ \A i \in 1 .. 3 : Files[i] \in Range(Files)
    /\ \A i, j \in 1 .. 3 : Files[i] = Files[j] => i = j
  <1>1. DOMAIN Files = {1, 2, 3} /\ 1 .. 3 = {1, 2, 3}
    BY DEF Files
  <1>2. Files[1] = "candidates" /\ Files[2] = "weights" /\ Files[3] = "ages"
    BY DEF Files
  <1>3. Range(Files) = {Files[1], Files[2], Files[3]}
    BY <1>1 DEF Range
  <1> QED
    BY <1>1, <1>2, <1>3

\* A sequence with one more element.
LEMMA OneMore ==
    ASSUME NEW s, s \in Seq(Range(s)), NEW e, NEW t, t = Append(s, e)
    PROVE  /\ t \in Seq(Range(t))
           /\ Len(t) = Len(s) + 1
           /\ Len(s) \in Nat
           /\ \A i \in 1 .. Len(s) : t[i] = s[i]
           /\ t[Len(s) + 1] = e
  <1> DEFINE S == Range(s) \union {e}
  <1>1. s \in Seq(S)
    OBVIOUS
  <1>2. t \in Seq(S) /\ Len(t) = Len(s) + 1 /\ Len(s) \in Nat
        /\ (\A i \in 1 .. Len(s) : t[i] = s[i]) /\ t[Len(s) + 1] = e
    <2> HIDE DEF S
    <2>1. e \in S
      BY DEF S
    <2> QED
      BY <1>1, <2>1
  <1>3. DOMAIN t = 1 .. Len(t) /\ Len(t) \in Nat /\ \A i \in DOMAIN t : t[i] \in Range(t)
    BY <1>2 DEF Range
  <1>4. t \in [1 .. Len(t) -> S]
    BY <1>2, LenProperties, Zenon
  <1>5. t \in Seq(Range(t))
    <2>1. t \in [1 .. Len(t) -> Range(t)]
      BY <1>3, <1>4
    <2> HIDE DEF S
    <2> QED
      BY <1>3, <2>1
  <1> QED
    BY <1>2, <1>5

LEMMA NoneRead ==
    << >> \in Seq(Range(<< >>)) /\ Len(<< >>) = 0
  OBVIOUS

LEMMA CopiesAre ==
    ASSUME NEW i, NEW files, NEW branches, NEW export, NEW x
    PROVE  x \in Copies(i, files, branches, export)
             <=> \/ x = files[Files[i]] /\ x # None
                 \/ \E wh \in Wh : i <= Len(branches[wh].read) /\ x = branches[wh].read[i]
                 \/ export.pc = "write" /\ x = export.payload[Files[i]]
  <1> DEFINE R(wh) == IF i <= Len(branches[wh].read) THEN {branches[wh].read[i]} ELSE {}
             A == {files[Files[i]]} \ {None}
             B == UNION {R(wh) : wh \in Wh}
             C == IF export.pc = "write" THEN {export.payload[Files[i]]} ELSE {}
  <1>1. x \in B <=> \E wh \in Wh : x \in R(wh)
    <2> HIDE DEF R
    <2> QED
      BY Zenon
  <1>2. \A wh : x \in R(wh) <=> i <= Len(branches[wh].read) /\ x = branches[wh].read[i]
    BY Zenon
  <1>3. x \in C <=> export.pc = "write" /\ x = export.payload[Files[i]]
    BY Zenon
  <1>4. x \in A <=> x = files[Files[i]] /\ x # None
    BY Zenon
  <1>5. Copies(i, files, branches, export) = A \union B \union C
    BY Zenon DEF Copies
  <1> HIDE DEF R, A, B, C
  <1>6. x \in Copies(i, files, branches, export) <=> x \in A \/ x \in B \/ x \in C
    BY <1>5, Zenon
  <1> QED
    BY <1>1, <1>2, <1>3, <1>4, <1>6, Zenon

\* Fewer copies, and a later export to come.
LEMMA FewerCopies ==
    ASSUME NEW i, NEW K, NEW L, L \subseteq K, NEW n \in Nat, NEW m \in Nat, n <= m
    PROVE  /\ CopiesAgree(i, K, n) => CopiesAgree(i, L, m)
           /\ \A wh, base : Agrees(i, wh, base, K, n) => Agrees(i, wh, base, L, m)
  <1>1. ASSUME NEW k \in Nat, k < n PROVE k < m
    BY <1>1
  <1> QED
    BY <1>1 DEF CopiesAgree, Agrees

LEMMA FreshIsNumber ==
    ASSUME Shapes
    PROVE  Fresh \in Nat /\ used.export <= Fresh
  BY DEF Shapes, Fresh

\* The common part of the steps: no copy that was not there, no number again.
LEMMA CopiesKeep ==
    ASSUME Inv, Shapes', \A i \in 1 .. 3 : Known(i)' \subseteq Known(i), Fresh <= Fresh'
    PROVE  /\ \A i \in 1 .. 3 : CopiesAgree(i, Known(i), Fresh)'
           /\ \A wh, m : Based(wh, m) => Based(wh, m)'
  <1>1. Fresh \in Nat /\ Fresh' \in Nat
    <2>1. Fresh \in Nat
      BY FreshIsNumber DEF Inv
    <2>2. Fresh' \in Nat
      BY DEF Shapes, Fresh
    <2> QED
      BY <2>1, <2>2
  <1>2. \A i \in 1 .. 3 : CopiesAgree(i, Known(i)', Fresh')
    BY <1>1, FewerCopies, Zenon DEF Inv
  <1>3. \A i \in 1 .. 3 : \A wh, m :
            Agrees(i, wh, m, Known(i), Fresh) => Agrees(i, wh, m, Known(i)', Fresh')
    BY <1>1, FewerCopies, Zenon
  <1>4. \A i \in 1 .. 3 : CopiesAgree(i, Known(i), Fresh)'
    BY <1>2 DEF CopiesAgree, Real, Adult
  <1>5. ASSUME NEW wh, NEW m, Based(wh, m)
        PROVE  Based(wh, m)'
    <2>1. \A i \in 1 .. 3 : Agrees(i, wh, m, Known(i)', Fresh')
      BY <1>3, <1>5 DEF Based
    <2>2. Homely(wh, m) => Homely(wh, m)'
      BY DEF Homely
    <2> QED
      BY <1>5, <2>1, <2>2 DEF Based, Agrees, DrawnFrom
  <1> QED
    BY <1>4, <1>5

(***************************************************************************)
(* The verbs of one warehouse.                                             *)
(***************************************************************************)
LEMMA VerbAt ==
    ASSUME NEW b, b = [pc |-> b.pc, chain |-> b.chain, overwrite |-> b.overwrite,
                       count |-> b.count, read |-> b.read, made |-> b.made],
           NEW pc, NEW read, NEW made
    PROVE  /\ [b EXCEPT !.pc = pc]
                = [pc |-> pc, chain |-> b.chain, overwrite |-> b.overwrite,
                   count |-> b.count, read |-> b.read, made |-> b.made]
           /\ [b EXCEPT !.read = read]
                = [pc |-> b.pc, chain |-> b.chain, overwrite |-> b.overwrite,
                   count |-> b.count, read |-> read, made |-> b.made]
           /\ [b EXCEPT !.pc = pc, !.read = read]
                = [pc |-> pc, chain |-> b.chain, overwrite |-> b.overwrite,
                   count |-> b.count, read |-> read, made |-> b.made]
           /\ [b EXCEPT !.pc = pc, !.made = made]
                = [pc |-> pc, chain |-> b.chain, overwrite |-> b.overwrite,
                   count |-> b.count, read |-> b.read, made |-> made]
  <1> DEFINE V(p, r, m) == [pc |-> p, chain |-> b.chain, overwrite |-> b.overwrite,
                            count |-> b.count, read |-> r, made |-> m]
  <1>1. \A r, m : [V(b.pc, r, m) EXCEPT !.pc = pc] = V(pc, r, m)
    OBVIOUS
  <1>2. \A p, m : [V(p, b.read, m) EXCEPT !.read = read] = V(p, read, m)
    OBVIOUS
  <1>3. \A p, r : [V(p, r, b.made) EXCEPT !.made = made] = V(p, r, made)
    OBVIOUS
  <1>4. b = V(b.pc, b.read, b.made)
    OBVIOUS
  <1> HIDE DEF V
  <1>5. [b EXCEPT !.pc = pc] = V(pc, b.read, b.made)
    BY <1>1, <1>4, Zenon
  <1>6. [b EXCEPT !.read = read] = V(b.pc, read, b.made)
    BY <1>2, <1>4, Zenon
  <1>7. [b EXCEPT !.pc = pc, !.read = read] = V(pc, read, b.made)
    <2>1. [b EXCEPT !.pc = pc, !.read = read] = [[b EXCEPT !.pc = pc] EXCEPT !.read = read]
      OBVIOUS
    <2> QED
      BY <1>2, <1>5, <2>1, Zenon
  <1>8. [b EXCEPT !.pc = pc, !.made = made] = V(pc, b.read, made)
    <2>1. [b EXCEPT !.pc = pc, !.made = made] = [[b EXCEPT !.pc = pc] EXCEPT !.made = made]
      OBVIOUS
    <2> QED
      BY <1>3, <1>5, <2>1, Zenon
  <1> QED
    BY <1>5, <1>6, <1>7, <1>8, Zenon DEF V

LEMMA VerbMade ==
    ASSUME NEW b, b = [pc |-> b.pc, chain |-> b.chain, overwrite |-> b.overwrite,
                       count |-> b.count, read |-> b.read, made |-> b.made],
           NEW pc, NEW read, NEW made, NEW c,
           c = [pc |-> pc, chain |-> b.chain, overwrite |-> b.overwrite,
                count |-> b.count, read |-> read, made |-> made]
    PROVE  [b EXCEPT !.pc = pc, !.read = read, !.made = made] = c
  <1> DEFINE V(p, r, m) == [pc |-> p, chain |-> b.chain, overwrite |-> b.overwrite,
                            count |-> b.count, read |-> r, made |-> m]
  <1>1. \A p, r : [V(p, r, b.made) EXCEPT !.made = made] = V(p, r, made)
    OBVIOUS
  <1>2. [b EXCEPT !.pc = pc, !.read = read] = V(pc, read, b.made)
    BY VerbAt, Zenon
  <1>3. c = V(pc, read, made)
    OBVIOUS
  <1> HIDE DEF V
  <1>4. [b EXCEPT !.pc = pc, !.read = read, !.made = made]
          = [[b EXCEPT !.pc = pc, !.read = read] EXCEPT !.made = made]
    OBVIOUS
  <1> QED
    BY <1>1, <1>2, <1>3, <1>4, Zenon

LEMMA StillIsVerb ==
    Verb(Still) /\ Still.pc = "idle" /\ Still.read = << >>
  BY NoneRead DEF Verb, Still, Pcs, Landing

\* The payload is what is written, and the files of the moment do not matter.
LEMMA PayloadKeeps ==
    ASSUME exp'.pc = "write" => exp.pc = "write" /\ exp'.payload = exp.payload
    PROVE  /\ PayloadsCover => PayloadsCover'
           /\ NoAdultIsLeftOut => NoAdultIsLeftOut'
  <1>1. PayloadsCover => PayloadsCover'
    <2> DEFINE C(p) == /\ PlacesOf(p.candidates.rows) = Places(p.weights.rows)
                       /\ DOMAIN p.weights.customers = {r.wh : r \in p.weights.rows}
                       /\ \A wh \in DOMAIN p.weights.customers :
                            ~Unsupported(wh, p.candidates, p.weights, p.ages)
    <2>1. PayloadsCover <=> (exp.pc = "write" => C(exp.payload))
      BY Zenon DEF PayloadsCover
    <2>2. PayloadsCover' <=> (exp'.pc = "write" => C(exp'.payload))
      BY Zenon DEF PayloadsCover, Unsupported, Places, PlacesOf
    <2> HIDE DEF C
    <2> QED
      BY <2>1, <2>2, Zenon
  <1>2. NoAdultIsLeftOut => NoAdultIsLeftOut'
    <2> DEFINE D(p) == \A pr \in DOMAIN Pyramid[p.ages.date], a \in Age :
                          a >= p.ages.minAge /\ Pyramid[p.ages.date][pr][a] > 0 =>
                            \E x \in p.ages.rows : x.province = pr /\ x.age = a /\ x.weight > 0
    <2>1. NoAdultIsLeftOut <=> (exp.pc = "write" => D(exp.payload))
      BY Zenon DEF NoAdultIsLeftOut
    <2>2. NoAdultIsLeftOut' <=> (exp'.pc = "write" => D(exp'.payload))
      BY Zenon DEF NoAdultIsLeftOut
    <2> HIDE DEF D
    <2> QED
      BY <2>1, <2>2, Zenon
  <1> QED
    BY <1>1, <1>2

\* The verb of one warehouse goes on, with what it has or knows.
LEMMA VerbKeeps ==
    ASSUME Inv, NEW wh \in Wh, NEW b, Verb(b), branch' = [branch EXCEPT ![wh] = b],
           \A i \in 1 .. 3 : i <= Len(b.read) => b.read[i] \in Known(i),
           UNCHANGED << silver, file, exp, dag >>,
           used' \in [change : Nat, export : Nat, extract : Nat, crash : Nat],
           used'.export = used.export,
           data' = [w \in Wh |-> data'[w]], manifest' = [w \in Wh |-> manifest'[w]],
           success' \in [Wh -> BOOLEAN],
           \A w \in Wh \ {wh} : data'[w] = data[w] /\ manifest'[w] = manifest[w],
           b.pc \in {"data", "manifest", "mark"} => Based(wh, b.made),
           manifest'[wh] # None => Based(wh, manifest'[wh])
    PROVE  Inv'
  <1>1. branch'[wh] = b /\ \A w \in Wh \ {wh} : branch'[w] = branch[w]
    BY DEF Inv, Shapes
  <1>2. Shapes'
    <2>1. branch' = [w \in Wh |-> branch'[w]]
      BY DEF Inv, Shapes
    <2> QED
      BY <2>1 DEF Inv, Shapes
  <1>3. \A w \in Wh : Verb(branch[w])'
    <2>1. \A w \in Wh : Verb(branch'[w])
      BY <1>1, Zenon DEF Inv
    <2> QED
      BY <2>1, Zenon DEF Verb
  <1>4. ExportIsOfNow'
    BY DEF Inv, ExportIsOfNow, Real, Adult
  <1>5. PayloadsCover' /\ NoAdultIsLeftOut'
    <2>1. exp' = exp /\ PayloadsCover /\ NoAdultIsLeftOut
      BY DEF Inv
    <2>2. PayloadsCover'
      BY <2>1, PayloadKeeps, Zenon
    <2> QED
      BY <2>1, <2>2, PayloadKeeps, Zenon
  <1>6. Fresh <= Fresh'
    BY FreshIsNumber DEF Inv, Fresh
  <1>7. \A i \in 1 .. 3 : Known(i)' \subseteq Known(i)
    <2> SUFFICES ASSUME NEW i \in 1 .. 3, NEW x, x \in Copies(i, file, branch', exp)
                 PROVE  x \in Known(i)
      BY DEF Known
    <2>0. \/ x = file[Files[i]] /\ x # None
          \/ \E w \in Wh : i <= Len(branch'[w].read) /\ x = branch'[w].read[i]
          \/ exp.pc = "write" /\ x = exp.payload[Files[i]]
      <3>1. PICK brs : brs = branch'
        OBVIOUS
      <3>2. x \in Copies(i, file, brs, exp)
              <=> \/ x = file[Files[i]] /\ x # None
                  \/ \E w \in Wh : i <= Len(brs[w].read) /\ x = brs[w].read[i]
                  \/ exp.pc = "write" /\ x = exp.payload[Files[i]]
        BY CopiesAre
      <3> QED
        BY <3>1, <3>2
    <2>1. CASE \E w \in Wh : i <= Len(branch'[w].read) /\ x = branch'[w].read[i]
      <3>1. PICK w \in Wh : i <= Len(branch'[w].read) /\ x = branch'[w].read[i]
        BY <2>1
      <3>2. CASE w = wh
        BY <1>1, <3>1, <3>2
      <3>3. CASE w # wh
        BY <1>1, <3>1, <3>3, CopiesAre, Zenon DEF Known
      <3> QED
        BY <3>2, <3>3
    <2>2. CASE ~ \E w \in Wh : i <= Len(branch'[w].read) /\ x = branch'[w].read[i]
      <3>1. \/ x = file[Files[i]] /\ x # None
            \/ exp.pc = "write" /\ x = exp.payload[Files[i]]
        BY <2>0, <2>2
      <3> QED
        BY <3>1, CopiesAre, Zenon DEF Known
    <2> QED
      BY <2>1, <2>2
  <1>8. /\ \A i \in 1 .. 3 : CopiesAgree(i, Known(i), Fresh)'
        /\ \A w, m : Based(w, m) => Based(w, m)'
    BY <1>2, <1>6, <1>7, CopiesKeep
  <1>9. ASSUME NEW w \in Wh
        PROVE  BasesAgree(w)'
    <2>1. manifest'[w] # None => Based(w, manifest'[w])
      BY Zenon DEF Inv, BasesAgree
    <2>2. branch'[w].pc \in {"data", "manifest", "mark"} => Based(w, branch'[w].made)
      <3>1. CASE w = wh
        BY <1>1, <3>1
      <3>2. CASE w # wh
        BY <1>1, <3>2 DEF Inv, BasesAgree
      <3> QED
        BY <3>1, <3>2
    <2>3. ASSUME NEW m, Based(w, m)
          PROVE  Based(w, m)'
      BY <1>8, <2>3, Zenon
    <2> QED
      BY <2>1, <2>2, <2>3 DEF BasesAgree
  <1> QED
    BY <1>2, <1>3, <1>4, <1>5, <1>8, <1>9 DEF Inv

LEMMA FileIsKnown ==
    ASSUME NEW i \in 1 .. 3, file[Files[i]] # None
    PROVE  file[Files[i]] \in Known(i)
  BY CopiesAre, Zenon DEF Known

LEMMA ReadIsKnown ==
    ASSUME NEW i \in 1 .. 3, NEW wh \in Wh, i <= Len(branch[wh].read)
    PROVE  branch[wh].read[i] \in Known(i)
  BY CopiesAre, Zenon DEF Known

Kinds == [change : Nat, export : Nat, extract : Nat, crash : Nat]

LEMMA SpendCounts ==
    ASSUME Inv, NEW what \in {"change", "extract", "crash"}, NEW bound, Spend(what, bound)
    PROVE  used' \in Kinds /\ used'.export = used.export
  BY DEF Inv, Shapes, Spend, Kinds

\* A step of a verb that leaves the partition alone.
LEMMA VerbMoves ==
    ASSUME Inv, NEW wh \in Wh, NEW b, Verb(b), branch' = [branch EXCEPT ![wh] = b],
           \A i \in 1 .. 3 : i <= Len(b.read) => b.read[i] \in Known(i),
           UNCHANGED << silver, file, exp, dag, partition >>,
           used' \in Kinds, used'.export = used.export,
           b.pc \in {"data", "manifest", "mark"} => Based(wh, b.made)
    PROVE  Inv'
  <1>1. /\ data' = data /\ manifest' = manifest /\ success' = success
        /\ UNCHANGED << silver, file, exp, dag >>
    BY DEF partition
  <1>2. /\ data' = [w \in Wh |-> data'[w]] /\ manifest' = [w \in Wh |-> manifest'[w]]
        /\ success' \in [Wh -> BOOLEAN]
    BY <1>1 DEF Inv, Shapes
  <1>3. manifest'[wh] # None => Based(wh, manifest'[wh])
    BY <1>1, Zenon DEF Inv, BasesAgree
  <1>4. \A w \in Wh \ {wh} : data'[w] = data[w] /\ manifest'[w] = manifest[w]
    BY <1>1
  <1> QED
    BY <1>1, <1>2, <1>3, <1>4, VerbKeeps DEF Kinds

LEMMA VerbEnds ==
    ASSUME Inv, NEW wh \in Wh, Ends(wh), used' \in Kinds, used'.export = used.export,
           UNCHANGED << silver, file, exp, dag, partition >>
    PROVE  Inv'
  <1>1. Verb(Still) /\ ~(Still.pc \in {"data", "manifest", "mark"})
    BY StillIsVerb
  <1>2. \A i \in 1 .. 3 : ~(i <= Len(Still.read))
    BY StillIsVerb
  <1>3. branch' = [branch EXCEPT ![wh] = Still]
    BY DEF Ends
  <1> HIDE DEF Still
  <1> QED
    BY <1>1, <1>2, <1>3, VerbMoves

\* To another phase in which nothing was made.
LEMMA VerbGoesOn ==
    ASSUME Inv, NEW wh \in Wh, NEW pc \in {"gate", "extract", "load", "reread"} \union Landing,
           To(wh, pc), UNCHANGED << silver, file, exp, dag, partition, used >>
    PROVE  Inv'
  <1> DEFINE b == [branch[wh] EXCEPT !.pc = pc]
  <1>0. Verb(branch[wh])
    BY DEF Inv
  <1>1. b = [pc |-> pc, chain |-> branch[wh].chain, overwrite |-> branch[wh].overwrite,
             count |-> branch[wh].count, read |-> branch[wh].read, made |-> branch[wh].made]
    BY <1>0, VerbAt, Zenon DEF Verb
  <1>2. Verb(b) /\ b.pc = pc /\ b.read = branch[wh].read
    <2> HIDE DEF b
    <2> QED
      BY <1>0, <1>1 DEF Verb, Pcs, Landing
  <1>3. branch' = [branch EXCEPT ![wh] = b]
    BY DEF To
  <1>4. used' \in Kinds /\ used'.export = used.export
    BY DEF Inv, Shapes, Kinds
  <1> HIDE DEF b
  <1>5. \A i \in 1 .. 3 : i <= Len(b.read) => b.read[i] \in Known(i)
    BY <1>2, ReadIsKnown
  <1> QED
    BY <1>2, <1>3, <1>4, <1>5, VerbMoves DEF Landing

LEMMA GateKeeps ==
    ASSUME Inv, NEW wh \in Wh, Gate(wh)
    PROVE  Inv'
  <1>1. used' \in Kinds /\ used'.export = used.export
    BY DEF Inv, Shapes, Kinds, Gate
  <1>2. Ends(wh) \/ To(wh, "extract")
    BY DEF Gate
  <1> QED
    BY <1>1, <1>2, VerbEnds, VerbGoesOn DEF Gate

LEMMA OpenKeeps ==
    ASSUME Inv, NEW wh \in Wh, Open(wh)
    PROVE  Inv'
  <1>1. used' \in Kinds /\ used'.export = used.export
    BY DEF Inv, Shapes, Kinds, Open
  <1>2. Ends(wh) \/ To(wh, "load") \/ To(wh, "reread")
    BY DEF Open
  <1> QED
    BY <1>1, <1>2, VerbEnds, VerbGoesOn DEF Open

LEMMA KillKeeps ==
    ASSUME Inv, NEW wh \in Wh, Kill(wh)
    PROVE  Inv'
  <1>1. used' \in Kinds /\ used'.export = used.export
    BY SpendCounts DEF Kill
  <1> QED
    BY <1>1, VerbEnds DEF Kill

\* Other files read.
LEMMA ReadOthers ==
    ASSUME NEW b, Verb(b), NEW r, r \in Seq(Range(r)), Len(r) \in 0 .. 3, NEW pc \in Pcs,
           NEW made, NEW c, c = [pc |-> pc, chain |-> b.chain, overwrite |-> b.overwrite,
                                 count |-> b.count, read |-> r, made |-> made]
    PROVE  Verb(c) /\ c.pc = pc /\ c.read = r /\ c.made = made
  <1>1. c = [pc |-> c.pc, chain |-> c.chain, overwrite |-> c.overwrite,
             count |-> c.count, read |-> c.read, made |-> c.made]
        /\ c.pc = pc /\ c.read = r /\ c.made = made
    OBVIOUS
  <1>2. c.pc \in Pcs /\ c.read \in Seq(Range(c.read)) /\ Len(c.read) \in 0 .. 3
    BY <1>1, Zenon
  <1> QED
    BY <1>1, <1>2, Zenon DEF Verb

LEMMA ReadFileKeeps ==
    ASSUME Inv, NEW wh \in Wh, ReadFile(wh)
    PROVE  Inv'
  <1>0. Verb(branch[wh]) /\ Len(branch[wh].read) < 3 /\ branch[wh].pc \in {"load", "reread"}
        /\ UNCHANGED << silver, file, exp, dag, partition, landed, used >>
    BY DEF Inv, ReadFile
  <1>1. used' \in Kinds /\ used'.export = used.export
    BY <1>0 DEF Inv, Shapes, Kinds
  <1>2. PICK n \in 1 .. 3 : n = Len(branch[wh].read) + 1
    BY <1>0 DEF Verb
  <1>3. CASE file[Files[n]] = None
    BY <1>0, <1>1, <1>2, <1>3, VerbEnds DEF ReadFile
  <1>4. CASE file[Files[n]] # None
    <2>1. PICK v, e, s, r : /\ v = branch[wh] /\ e = file[Files[n]] /\ s = branch[wh].read
                            /\ r = Append(branch[wh].read, file[Files[n]])
      OBVIOUS
    <2>2. Verb(v) /\ s \in Seq(Range(s)) /\ r = Append(s, e) /\ Len(s) = n - 1
      BY <1>0, <1>2, <2>1 DEF Verb
    <2>3. r \in Seq(Range(r))
      BY <2>2, OneMore
    <2>4. Len(r) = n
      <3>1. Len(r) = Len(s) + 1 /\ Len(s) \in Nat
        BY <2>2, OneMore
      <3> QED
        BY <2>2, <3>1
    <2>5. \A i \in 1 .. n - 1 : r[i] = s[i]
      <3>1. \A i \in 1 .. Len(s) : r[i] = s[i]
        BY <2>2, OneMore
      <3> QED
        BY <2>2, <3>1
    <2>6. r[n] = e
      <3>1. r[Len(s) + 1] = e
        BY <2>2, OneMore
      <3> QED
        BY <2>2, <3>1
    <2>7. PICK b : b = [v EXCEPT !.read = r]
      OBVIOUS
    <2>8. branch' = [branch EXCEPT ![wh] = b]
      BY <1>2, <1>4, <2>1, <2>7 DEF ReadFile
    <2>9. Verb(b) /\ b.pc = v.pc /\ b.read = r
      <3>1. b = [pc |-> v.pc, chain |-> v.chain, overwrite |-> v.overwrite,
                 count |-> v.count, read |-> r, made |-> v.made]
        BY <2>2, <2>7, VerbAt, Zenon DEF Verb
      <3>2. v.pc \in Pcs /\ Len(r) \in 0 .. 3
        BY <2>2, <2>4 DEF Verb
      <3>3. Verb(v) /\ r \in Seq(Range(r))
        BY <2>2, <2>3
      <3> QED
        BY <3>1, <3>2, <3>3, ReadOthers
    <2>10. ASSUME NEW i \in 1 .. 3, i <= Len(b.read)
           PROVE  b.read[i] \in Known(i)
      <3>1. CASE i = n
        BY <1>4, <2>1, <2>6, <2>9, <3>1, FileIsKnown
      <3>2. CASE i # n
        <4>1. i \in 1 .. n - 1 /\ i <= Len(branch[wh].read)
          BY <1>2, <2>4, <2>9, <2>10, <3>2
        <4> QED
          BY <2>1, <2>5, <2>9, <4>1, ReadIsKnown
      <3> QED
        BY <3>1, <3>2
    <2>11. ~(b.pc \in {"data", "manifest", "mark"})
      BY <1>0, <2>1, <2>9
    <2> QED
      BY <1>0, <1>1, <2>8, <2>9, <2>10, <2>11, VerbMoves
  <1> QED
    BY <1>3, <1>4

LEMMA ExtremesOfTwo ==
    ASSUME NEW a \in Nat, NEW b \in Nat
    PROVE  /\ Max({a, b}) \in {a, b} /\ Max({a, b}) >= a /\ Max({a, b}) >= b
           /\ Min({a, b}) \in {a, b} /\ Min({a, b}) <= a /\ Min({a, b}) <= b
  <1>1. \E x \in {a, b} : \A y \in {a, b} : x >= y
    <2>1. CASE a >= b
      BY <2>1
    <2>2. CASE ~(a >= b)
      BY <2>2
    <2> QED
      BY <2>1, <2>2
  <1>2. \E x \in {a, b} : \A y \in {a, b} : x <= y
    <2>1. CASE a <= b
      BY <2>1
    <2>2. CASE ~(a <= b)
      BY <2>2
    <2> QED
      BY <2>1, <2>2
  <1>3. Max({a, b}) \in {a, b} /\ \A y \in {a, b} : Max({a, b}) >= y
    BY <1>1, Zenon DEF Max
  <1>4. Min({a, b}) \in {a, b} /\ \A y \in {a, b} : Min({a, b}) <= y
    BY <1>2, Zenon DEF Min
  <1> QED
    BY <1>3, <1>4

\* A number pick_house_number gives is one _check_house_number takes.
LEMMA HouseNumbersFit ==
    ASSUME NEW t, t.from \in Nat, t.to \in Nat, NEW n \in HouseNumbers(t)
    PROVE  /\ HouseNumberOk(n, t)
           /\ n # None => /\ t.numbering \in {"odd", "even"}
                          /\ (n % 2 = 1) = (t.numbering = "odd")
                          /\ n \in Min({t.from, t.to}) .. Max({t.from, t.to})
                          /\ n # 0
  <1>1. PICK low, high : low = Min({t.from, t.to}) /\ high = Max({t.from, t.to})
    OBVIOUS
  <1>2. low \in Nat /\ high \in Nat
    BY <1>1, ExtremesOfTwo
  <1>3. PICK least : least = Max({1, low})
    OBVIOUS
  <1>4. least \in Nat /\ least >= 1 /\ least >= low
    BY <1>2, <1>3, ExtremesOfTwo
  <1> DEFINE parity == IF t.numbering = "odd" THEN 1 ELSE 0
  <1>5. CASE n = None
    BY <1>5 DEF HouseNumberOk
  <1>6. CASE n # None
    <2>1. n \in least .. high /\ n % 2 = parity /\ t.numbering \in {"odd", "even"}
      BY <1>1, <1>3, <1>6, Zenon DEF HouseNumbers
    <2>2. n >= 1 /\ n \in low .. high /\ low <= n /\ n <= high
      BY <1>2, <1>4, <2>1
    <2>3. (n % 2 = 1) = (t.numbering = "odd")
      BY <2>1
    <2>4. t.numbering # "none" /\ n # 0
      BY <2>1, <2>2
    <2>5. HouseNumberOk(n, t)
      BY <1>1, <2>1, <2>2, <2>4, Zenon DEF HouseNumberOk
    <2> QED
      BY <1>1, <2>1, <2>2, <2>3, <2>4, <2>5
  <1> QED
    BY <1>5, <1>6

\* A base is homely, and agrees with every copy of the files it was drawn from.
LEMMA DrawnIsBased ==
    ASSUME Inv, NEW wh \in Wh, NEW c \in Known(1), NEW w \in Known(2), NEW a \in Known(3),
           NEW i \in DOMAIN c.rows, NEW r \in w.rows, NEW x \in a.rows,
           NEW n \in HouseNumbers(c.rows[i].tramo), Draw(wh, c.rows[i], r, x),
           NEW m, m.data.one = Customer(wh, c.rows[i].tramo, i, n, x), m.callejero = c.date,
           m.minAge = a.minAge, m.reference = << c.made, w.made, a.made >>
    PROVE  Based(wh, m)
  <1>1. PICK one, t : one = m.data.one /\ t = c.rows[i].tramo
    OBVIOUS
  <1>2. /\ one = [wh |-> wh, index |-> i, municipality |-> t.municipality,
                  numbering |-> t.numbering, street |-> t.street, number |-> n, age |-> x.age]
    BY <1>1 DEF Customer
  <1>3. /\ one.wh = wh /\ one.index = i /\ one.municipality = t.municipality
        /\ one.numbering = t.numbering /\ one.street = t.street
        /\ one.number = n /\ one.age = x.age
    BY <1>2
  <1>4. Real(c)
    BY DEF Inv, CopiesAgree
  <1>5. /\ c.rows[i].wh = wh /\ r.municipality = t.municipality /\ r.wh = wh
        /\ x.age >= a.minAge
    <2>1. Adult(a)
      BY DEF Inv, CopiesAgree
    <2> QED
      BY <1>1, <2>1 DEF Draw, Adult
  <1>6. /\ \E area \in Range(Area) : << wh, t.municipality >> \in area
        /\ t \in Range(Callejero[c.date]) /\ c.date \in DOMAIN Callejero
    BY <1>1, <1>4, <1>5 DEF Real
  <1>7. t.from \in Nat /\ t.to \in Nat
    BY <1>6, EditionsAssumption
  <1>8. /\ HouseNumberOk(n, t)
        /\ n # None => /\ t.numbering \in {"odd", "even"}
                       /\ (n % 2 = 1) = (t.numbering = "odd")
                       /\ n \in Min({t.from, t.to}) .. Max({t.from, t.to})
                       /\ n # 0
    BY <1>1, <1>7, HouseNumbersFit
  <1>9. Homely(wh, m)
    BY <1>1, <1>3, <1>5, <1>6, <1>8, Zenon DEF Homely
  <1>10. DrawnFrom(1, wh, m, c)
    BY <1>1, <1>3, <1>5, <1>8 DEF DrawnFrom
  <1>11. DrawnFrom(2, wh, m, w)
    BY <1>1, <1>3, <1>5 DEF DrawnFrom, Places
  <1>12. DrawnFrom(3, wh, m, a)
    BY DEF DrawnFrom
  <1>13. /\ \A k \in 1 .. 3 : CopiesAgree(k, Known(k), Fresh)
         /\ m.reference[1] = c.made /\ m.reference[2] = w.made /\ m.reference[3] = a.made
    BY DEF Inv
  <1>14. Agrees(1, wh, m, Known(1), Fresh)
    BY <1>10, <1>13 DEF CopiesAgree, Agrees
  <1>15. Agrees(2, wh, m, Known(2), Fresh)
    BY <1>11, <1>13 DEF CopiesAgree, Agrees
  <1>16. Agrees(3, wh, m, Known(3), Fresh)
    BY <1>12, <1>13 DEF CopiesAgree, Agrees
  <1>17. \A k \in 1 .. 3 : k = 1 \/ k = 2 \/ k = 3
    OBVIOUS
  <1> QED
    BY <1>9, <1>14, <1>15, <1>16, <1>17, Zenon DEF Based

LEMMA GenerateKeeps ==
    ASSUME Inv, NEW wh \in Wh, Generate(wh)
    PROVE  Inv'
  <1>0. /\ Verb(branch[wh]) /\ Len(branch[wh].read) = 3
        /\ UNCHANGED << silver, file, exp, dag, partition, landed, used >>
    BY DEF Inv, Generate, Loads
  <1>1. used' \in Kinds /\ used'.export = used.export
    BY <1>0 DEF Inv, Shapes, Kinds
  <1>2. PICK c, w, a : /\ c = branch[wh].read[1] /\ w = branch[wh].read[2]
                       /\ a = branch[wh].read[3]
    OBVIOUS
  <1>3. c \in Known(1) /\ w \in Known(2) /\ a \in Known(3)
    BY <1>0, <1>2, ReadIsKnown
  <1>4. CASE Ends(wh)
    BY <1>0, <1>1, <1>4, VerbEnds
  <1>5. CASE ~Ends(wh)
    <2> DEFINE Made(c1, w1, a1, i, n, x, count) ==
          [data |-> [count |-> count, one |-> Customer(wh, c1.rows[i].tramo, i, n, x)],
           callejero |-> c1.date, minAge |-> a1.minAge, sizedFor |-> w1.minAge,
           reference |-> << c1.made, w1.made, a1.made >>]
          Moved(m, pc, read) ==
            branch' = [branch EXCEPT ![wh].pc = pc, ![wh].read = read, ![wh].made = m]
          Some(c1, w1, a1) == \E i \in DOMAIN c1.rows, r \in w1.rows, x \in a1.rows :
            \E n \in HouseNumbers(c1.rows[i].tramo) :
              /\ Draw(wh, c1.rows[i], r, x)
              /\ Moved(Made(c1, w1, a1, i, n, x,
                            IF branch[wh].count = None THEN w1.customers[wh]
                            ELSE branch[wh].count), "data", << >>)
    <2>1. Some(branch[wh].read[1], branch[wh].read[2], branch[wh].read[3])
      BY <1>5, Zenon DEF Generate
    <2> HIDE DEF Some
    <2>2. Some(c, w, a)
      BY <1>2, <2>1, Zenon
    <2> HIDE DEF Made, Moved
    <2>3. PICK i \in DOMAIN c.rows, r \in w.rows, x \in a.rows :
            \E n \in HouseNumbers(c.rows[i].tramo) : \E count :
              /\ Draw(wh, c.rows[i], r, x)
              /\ Moved(Made(c, w, a, i, n, x, count), "data", << >>)
      BY <2>2, Zenon DEF Some
    <2>4. PICK n \in HouseNumbers(c.rows[i].tramo) : \E count :
              /\ Draw(wh, c.rows[i], r, x)
              /\ Moved(Made(c, w, a, i, n, x, count), "data", << >>)
      BY <2>3
    <2>4a. PICK count :
              /\ Draw(wh, c.rows[i], r, x)
              /\ Moved(Made(c, w, a, i, n, x, count), "data", << >>)
      BY <2>4
    <2>5. PICK m, pc, e : m = Made(c, w, a, i, n, x, count) /\ pc = "data" /\ e = << >>
      OBVIOUS
    <2>6. Moved(m, pc, e)
      BY <2>4a, <2>5, Zenon
    <2>7. /\ m.data.one = Customer(wh, c.rows[i].tramo, i, n, x) /\ m.callejero = c.date
          /\ m.minAge = a.minAge /\ m.reference = << c.made, w.made, a.made >>
      BY <2>5 DEF Made
    <2>8. Based(wh, m)
      BY <1>3, <2>4a, <2>7, DrawnIsBased
    <2>9. PICK v, b : v = branch[wh] /\ b = [pc |-> pc, chain |-> v.chain,
                        overwrite |-> v.overwrite, count |-> v.count, read |-> e, made |-> m]
      OBVIOUS
    <2>10. Verb(v) /\ e \in Seq(Range(e)) /\ Len(e) \in 0 .. 3 /\ pc \in Pcs
      <3>1. Verb(v)
        BY <1>0, <2>9
      <3>2. << >> \in Seq(Range(<< >>)) /\ Len(<< >>) \in 0 .. 3 /\ "data" \in Pcs
        BY NoneRead DEF Pcs, Landing
      <3> QED
        BY <2>5, <3>1, <3>2, Zenon
    <2>11. Verb(b) /\ b.pc = pc /\ b.read = e /\ b.made = m
      BY <2>9, <2>10, ReadOthers
    <2>12. branch' = [branch EXCEPT ![wh] = b]
      <3>1. v = [pc |-> v.pc, chain |-> v.chain, overwrite |-> v.overwrite,
                 count |-> v.count, read |-> v.read, made |-> v.made]
        BY <2>10 DEF Verb
      <3>2. [v EXCEPT !.pc = pc, !.read = e, !.made = m] = b
        <4>1. b = [pc |-> pc, chain |-> v.chain, overwrite |-> v.overwrite,
                   count |-> v.count, read |-> e, made |-> m]
          BY <2>9
        <4> QED
          BY <3>1, <4>1, VerbMade, ZenonT(60)
      <3>3. branch' = [branch EXCEPT ![wh] = [branch[wh] EXCEPT !.pc = pc, !.read = e, !.made = m]]
        BY <2>6 DEF Moved
      <3> QED
        BY <2>9, <3>2, <3>3, Zenon
    <2>13. \A k \in 1 .. 3 : ~(k <= Len(b.read))
      BY <2>5, <2>11
    <2> QED
      BY <1>0, <1>1, <2>5, <2>8, <2>11, <2>12, <2>13, VerbMoves
  <1> QED
    BY <1>4, <1>5

\* Only the phase changes.
LEMMA PhaseMoves ==
    ASSUME NEW v, Verb(v), NEW pc \in Pcs, NEW b, b = [v EXCEPT !.pc = pc]
    PROVE  Verb(b) /\ b.pc = pc /\ b.read = v.read /\ b.made = v.made
  <1>1. v = [pc |-> v.pc, chain |-> v.chain, overwrite |-> v.overwrite,
             count |-> v.count, read |-> v.read, made |-> v.made]
        /\ v.read \in Seq(Range(v.read)) /\ Len(v.read) \in 0 .. 3
    BY DEF Verb
  <1>2. b = [pc |-> pc, chain |-> v.chain, overwrite |-> v.overwrite,
             count |-> v.count, read |-> v.read, made |-> v.made]
    BY <1>1, VerbAt, Zenon
  <1> QED
    BY <1>1, <1>2, ReadOthers

LEMMA WriteDataKeeps ==
    ASSUME Inv, NEW wh \in Wh, WriteData(wh)
    PROVE  Inv'
  <1>1. PICK v, b : v = branch[wh] /\ b = [v EXCEPT !.pc = "manifest"]
    OBVIOUS
  <1>2. Verb(v) /\ v.pc = "data" /\ "manifest" \in Pcs
    BY <1>1 DEF Inv, WriteData, Pcs, Landing
  <1>3. Verb(b) /\ b.pc = "manifest" /\ b.read = v.read /\ b.made = v.made
    <2>1. PICK pc : pc = "manifest"
      OBVIOUS
    <2>2. Verb(v) /\ pc \in Pcs /\ b = [v EXCEPT !.pc = pc]
      BY <1>1, <1>2, <2>1, Zenon
    <2> QED
      BY <2>1, <2>2, PhaseMoves
  <1>4. branch' = [branch EXCEPT ![wh] = b]
    BY <1>1 DEF WriteData, To
  <1>5. /\ UNCHANGED << silver, file, exp, dag, manifest, success, landed, used >>
        /\ data' = [w \in Wh |-> data'[w]] /\ manifest' = [w \in Wh |-> manifest'[w]]
        /\ success' \in [Wh -> BOOLEAN]
        /\ \A w \in Wh \ {wh} : data'[w] = data[w]
        /\ used' \in Kinds
    BY DEF Inv, Shapes, WriteData, Kinds
  <1>6. Based(wh, b.made)
    BY <1>1, <1>2, <1>3 DEF Inv, BasesAgree
  <1>7. manifest'[wh] # None => Based(wh, manifest'[wh])
    BY <1>5, Zenon DEF Inv, BasesAgree
  <1>8. \A i \in 1 .. 3 : i <= Len(b.read) => b.read[i] \in Known(i)
    BY <1>1, <1>3, ReadIsKnown
  <1> QED
    BY <1>3, <1>4, <1>5, <1>6, <1>7, <1>8, VerbKeeps DEF Kinds

LEMMA WriteManifestKeeps ==
    ASSUME Inv, NEW wh \in Wh, WriteManifest(wh)
    PROVE  Inv'
  <1>1. PICK v, b : v = branch[wh] /\ b = [v EXCEPT !.pc = "mark"]
    OBVIOUS
  <1>2. Verb(v) /\ v.pc = "manifest" /\ "mark" \in Pcs
    BY <1>1 DEF Inv, WriteManifest, Pcs, Landing
  <1>3. Verb(b) /\ b.pc = "mark" /\ b.read = v.read /\ b.made = v.made
    <2>1. PICK pc : pc = "mark"
      OBVIOUS
    <2>2. Verb(v) /\ pc \in Pcs /\ b = [v EXCEPT !.pc = pc]
      BY <1>1, <1>2, <2>1, Zenon
    <2> QED
      BY <2>1, <2>2, PhaseMoves
  <1>4. branch' = [branch EXCEPT ![wh] = b]
    BY <1>1 DEF WriteManifest, To
  <1>5. /\ UNCHANGED << silver, file, exp, dag, data, success, landed, used >>
        /\ data' = [w \in Wh |-> data'[w]] /\ manifest' = [w \in Wh |-> manifest'[w]]
        /\ success' \in [Wh -> BOOLEAN]
        /\ \A w \in Wh \ {wh} : manifest'[w] = manifest[w]
        /\ manifest'[wh] = v.made
        /\ used' \in Kinds
    BY <1>1 DEF Inv, Shapes, WriteManifest, Kinds
  <1>6. Based(wh, v.made)
    BY <1>1, <1>2 DEF Inv, BasesAgree
  <1>8. \A i \in 1 .. 3 : i <= Len(b.read) => b.read[i] \in Known(i)
    BY <1>1, <1>3, ReadIsKnown
  <1>9. Based(wh, b.made) /\ Based(wh, manifest'[wh])
    BY <1>3, <1>5, <1>6, Zenon
  <1> QED
    BY <1>3, <1>4, <1>5, <1>8, <1>9, VerbKeeps DEF Kinds

LEMMA MarkKeeps ==
    ASSUME Inv, NEW wh \in Wh, Mark(wh)
    PROVE  Inv'
  <1>1. PICK b : /\ Verb(b) /\ branch' = [branch EXCEPT ![wh] = b]
                 /\ b.pc \in {"idle", "reread"}
                 /\ \A i \in 1 .. 3 : i <= Len(b.read) => b.read[i] \in Known(i)
    <2>1. CASE Ends(wh)
      <3>1. branch' = [branch EXCEPT ![wh] = Still]
        BY <2>1 DEF Ends
      <3>2. /\ Verb(Still) /\ Still.pc \in {"idle", "reread"}
            /\ \A i \in 1 .. 3 : i <= Len(Still.read) => Still.read[i] \in Known(i)
        BY StillIsVerb
      <3> QED
        BY <3>1, <3>2, Zenon
    <2>2. CASE ~Ends(wh)
      <3>1. PICK v, b, pc, made : /\ v = branch[wh] /\ b = [v EXCEPT !.pc = pc, !.made = made]
                                  /\ pc = "reread" /\ made = None
        OBVIOUS
      <3>2. v = [pc |-> v.pc, chain |-> v.chain, overwrite |-> v.overwrite,
                 count |-> v.count, read |-> v.read, made |-> v.made]
            /\ v.read \in Seq(Range(v.read)) /\ Len(v.read) \in 0 .. 3 /\ Verb(v)
        BY <3>1 DEF Inv, Verb
      <3>3. b = [pc |-> pc, chain |-> v.chain, overwrite |-> v.overwrite,
                 count |-> v.count, read |-> v.read, made |-> made]
        <4>1. b = [v EXCEPT !.pc = pc, !.made = made]
          BY <3>1, Zenon
        <4> QED
          BY <3>2, <4>1, VerbAt, Zenon
      <3>4. pc \in Pcs
        BY <3>1 DEF Pcs, Landing
      <3>5. Verb(b) /\ b.pc = pc /\ b.read = v.read
        BY <3>2, <3>3, <3>4, ReadOthers
      <3>6. branch' = [branch EXCEPT ![wh] = [branch[wh] EXCEPT !.pc = "reread", !.made = None]]
        BY <2>2, Zenon DEF Mark
      <3>7. branch' = [branch EXCEPT ![wh] = b]
        BY <3>1, <3>6, Zenon
      <3>8. \A i \in 1 .. 3 : i <= Len(b.read) => b.read[i] \in Known(i)
        BY <3>1, <3>5, ReadIsKnown
      <3>9. b.pc \in {"idle", "reread"}
        BY <3>1, <3>5
      <3> QED
        BY <3>5, <3>7, <3>8, <3>9, Zenon
    <2> QED
      BY <2>1, <2>2
  <1>2. /\ UNCHANGED << silver, file, exp, dag, data, manifest, landed, used >>
        /\ data' = [w \in Wh |-> data'[w]] /\ manifest' = [w \in Wh |-> manifest'[w]]
        /\ success' \in [Wh -> BOOLEAN]
        /\ used' \in Kinds
    BY DEF Inv, Shapes, Mark, Kinds
  <1>3. manifest'[wh] # None => Based(wh, manifest'[wh])
    BY <1>2, Zenon DEF Inv, BasesAgree
  <1> QED
    BY <1>1, <1>2, <1>3, VerbKeeps DEF Kinds

LEMMA JudgeKeeps ==
    ASSUME Inv, NEW wh \in Wh, Judge(wh)
    PROVE  Inv'
  <1>1. UNCHANGED << silver, file, exp, dag, partition, landed, used >>
    BY DEF Judge
  <1>2. used' \in Kinds /\ used'.export = used.export
    BY <1>1 DEF Inv, Shapes, Kinds
  <1>3. CASE Ends(wh)
    BY <1>1, <1>2, <1>3, VerbEnds
  <1>4. CASE ~Ends(wh)
    <2>1. PICK v, b, pc, read : /\ v = branch[wh] /\ b = [v EXCEPT !.pc = pc, !.read = read]
                                /\ pc = "land" /\ read = << >>
      OBVIOUS
    <2>2. v = [pc |-> v.pc, chain |-> v.chain, overwrite |-> v.overwrite,
               count |-> v.count, read |-> v.read, made |-> v.made] /\ Verb(v)
      BY <2>1 DEF Inv, Verb
    <2>3. b = [pc |-> pc, chain |-> v.chain, overwrite |-> v.overwrite,
               count |-> v.count, read |-> read, made |-> v.made]
      <3>1. b = [v EXCEPT !.pc = pc, !.read = read]
        BY <2>1, Zenon
      <3> QED
        BY <2>2, <3>1, VerbAt, Zenon
    <2>4. pc \in Pcs /\ read \in Seq(Range(read)) /\ Len(read) \in 0 .. 3
      <3>1. "land" \in Pcs /\ << >> \in Seq(Range(<< >>)) /\ Len(<< >>) \in 0 .. 3
        BY NoneRead DEF Pcs, Landing
      <3> QED
        BY <2>1, <3>1, Zenon
    <2>5. Verb(b) /\ b.pc = pc /\ b.read = read
      BY <2>2, <2>3, <2>4, ReadOthers
    <2>6. branch' = [branch EXCEPT ![wh] = [branch[wh] EXCEPT !.pc = "land", !.read = << >>]]
      BY <1>4, Zenon DEF Judge
    <2>7. branch' = [branch EXCEPT ![wh] = b]
      BY <2>1, <2>6, Zenon
    <2>9. (\A i \in 1 .. 3 : ~(i <= Len(b.read))) /\ ~(b.pc \in {"data", "manifest", "mark"})
      BY <2>1, <2>5
    <2> QED
      BY <1>1, <1>2, <2>5, <2>7, <2>9, VerbMoves
  <1> QED
    BY <1>3, <1>4

\* The landing leaves the partition alone: to Inv it is a change of phase.
LEMMA LandKeeps ==
    ASSUME Inv, NEW wh \in Wh,
           LandData(wh) \/ LandManifest(wh) \/ LandMark(wh) \/ VerifyLanding(wh)
    PROVE  Inv'
  <1>1. UNCHANGED << silver, file, exp, dag, partition, used >>
    BY DEF LandData, LandManifest, LandMark, VerifyLanding
  <1>2. used' \in Kinds /\ used'.export = used.export
    BY <1>1 DEF Inv, Shapes, Kinds
  <1>3. CASE Ends(wh)
    BY <1>1, <1>2, <1>3, VerbEnds
  <1>4. ASSUME NEW pc \in {"land_manifest", "land_mark", "verify"}, To(wh, pc)
        PROVE  Inv'
    BY <1>1, <1>4, VerbGoesOn DEF Landing
  <1> QED
    BY <1>3, <1>4 DEF LandData, LandManifest, LandMark, VerifyLanding

LEMMA StartExtractKeeps ==
    ASSUME Inv, NEW wh \in Wh, NEW overwrite, NEW count, StartExtract(wh, overwrite, count)
    PROVE  Inv'
  <1>1. used' \in Kinds /\ used'.export = used.export
        /\ UNCHANGED << silver, file, exp, dag, partition, landed >>
    BY SpendCounts DEF StartExtract
  <1>2. PICK b : b = [Still EXCEPT !.pc = "extract", !.count = count, !.overwrite = overwrite]
    OBVIOUS
  <1>3. b = [pc |-> "extract", chain |-> FALSE, overwrite |-> overwrite, count |-> count,
             read |-> << >>, made |-> None]
    BY <1>2 DEF Still
  <1>4. Verb(b) /\ b.pc = "extract" /\ b.read = << >>
    BY <1>3, NoneRead DEF Verb, Pcs, Landing
  <1>5. branch' = [branch EXCEPT ![wh] = b]
    BY <1>2 DEF StartExtract
  <1>6. \A i \in 1 .. 3 : ~(i <= Len(b.read))
    BY <1>4
  <1> QED
    BY <1>1, <1>4, <1>5, <1>6, VerbMoves

LEMMA StartValidateKeeps ==
    ASSUME Inv, NEW wh \in Wh, StartValidate(wh)
    PROVE  Inv'
  <1>1. used' \in Kinds /\ used'.export = used.export
        /\ UNCHANGED << silver, file, exp, dag, partition, landed >>
    BY SpendCounts DEF StartValidate
  <1>2. PICK b : b = [Still EXCEPT !.pc = "reread"]
    OBVIOUS
  <1>3. b = [pc |-> "reread", chain |-> FALSE, overwrite |-> FALSE, count |-> None,
             read |-> << >>, made |-> None]
    BY <1>2 DEF Still
  <1>4. Verb(b) /\ b.pc = "reread" /\ b.read = << >>
    BY <1>3, NoneRead DEF Verb, Pcs, Landing
  <1>5. branch' = [branch EXCEPT ![wh] = b]
    BY <1>2 DEF StartValidate
  <1>6. \A i \in 1 .. 3 : ~(i <= Len(b.read))
    BY <1>4
  <1> QED
    BY <1>1, <1>4, <1>5, <1>6, VerbMoves

(***************************************************************************)
(* The export.                                                             *)
(***************************************************************************)
\* The verbs c are the verbs b, but for those the DAG starts.
Kept(b, c) ==
    \A wh \in Wh : \/ c[wh] = b[wh]
                   \/ Verb(c[wh]) /\ c[wh].read = << >> /\ c[wh].pc = "gate"

LEMMA ExportEndsKeeps ==
    ASSUME Inv, NEW ok, ExportEnds(ok)
    PROVE  /\ dag' = [phase |-> dag'.phase, overwrite |-> dag'.overwrite]
           /\ dag'.phase \in {"idle", "export", "branches"}
           /\ branch' = [wh \in Wh |-> branch'[wh]]
           /\ Kept(branch, branch')
  <1>1. /\ dag = [phase |-> dag.phase, overwrite |-> dag.overwrite]
        /\ dag.phase \in {"idle", "export", "branches"}
        /\ branch = [wh \in Wh |-> branch[wh]]
    BY DEF Inv, Shapes
  <1>2. CASE UNCHANGED << dag, branch >>
    BY <1>1, <1>2 DEF Kept
  <1>3. CASE dag' = [dag EXCEPT !.phase = "idle"] /\ UNCHANGED branch
    BY <1>1, <1>3 DEF Kept
  <1>4. CASE /\ dag' = [dag EXCEPT !.phase = "branches"]
             /\ branch' = [wh \in Wh |-> IF wh \in Branches /\ branch[wh] = Still
                                         THEN [Still EXCEPT !.pc = "gate", !.chain = TRUE,
                                                            !.overwrite = dag.overwrite]
                                         ELSE branch[wh]]
    <2>1. PICK g : g = [Still EXCEPT !.pc = "gate", !.chain = TRUE, !.overwrite = dag.overwrite]
      OBVIOUS
    <2>2. g = [pc |-> "gate", chain |-> TRUE, overwrite |-> dag.overwrite, count |-> None,
               read |-> << >>, made |-> None]
      BY <2>1 DEF Still
    <2>3. Verb(g) /\ g.read = << >> /\ g.pc = "gate"
      BY <2>2, NoneRead DEF Verb, Pcs, Landing
    <2>4. branch' = [wh \in Wh |-> IF wh \in Branches /\ branch[wh] = Still
                                   THEN g ELSE branch[wh]]
      BY <1>4, <2>1, Zenon
    <2>5. \A wh \in Wh : branch'[wh] = g \/ branch'[wh] = branch[wh]
      BY <2>4
    <2>6. Kept(branch, branch')
      BY <2>3, <2>5, Zenon DEF Kept
    <2>7. branch' = [wh \in Wh |-> branch'[wh]]
      BY <2>4
    <2>8. dag' = [phase |-> "branches", overwrite |-> dag.overwrite]
      BY <1>1, <1>4
    <2> QED
      BY <2>6, <2>7, <2>8
  <1> QED
    BY <1>2, <1>3, <1>4, Zenon DEF ExportEnds

\* What there is to show of a step that leaves the partitions alone.
LEMMA Assembled ==
    ASSUME Inv, Shapes', ExportIsOfNow', PayloadsCover', NoAdultIsLeftOut',
           Kept(branch, branch'), UNCHANGED partition,
           \A i \in 1 .. 3 : CopiesAgree(i, Known(i), Fresh)',
           \A wh, m : Based(wh, m) => Based(wh, m)'
    PROVE  Inv'
  <1>1. ASSUME NEW wh \in Wh
        PROVE  Verb(branch[wh])'
    <2>1. Verb(branch'[wh])
      BY Zenon DEF Kept, Inv
    <2> QED
      BY <2>1, Zenon DEF Verb
  <1>2. ASSUME NEW wh \in Wh
        PROVE  BasesAgree(wh)'
    <2>1. manifest'[wh] # None => Based(wh, manifest'[wh])
      BY Zenon DEF Inv, BasesAgree, partition
    <2>2. branch'[wh].pc \in {"data", "manifest", "mark"} => Based(wh, branch'[wh].made)
      BY DEF Inv, BasesAgree, Kept
    <2>3. ASSUME NEW m, Based(wh, m)
          PROVE  Based(wh, m)'
      BY <2>3, Zenon
    <2> QED
      BY <2>1, <2>2, <2>3 DEF BasesAgree
  <1> QED
    BY <1>1, <1>2 DEF Inv

\* No copy of a file comes about but the one an export is about to write.
LEMMA KnownKeeps ==
    ASSUME Inv, Kept(branch, branch'),
           \A i \in 1 .. 3 : \/ file'[Files[i]] = file[Files[i]]
                             \/ file'[Files[i]] \in Known(i)
    PROVE  \A i \in 1 .. 3 : \A x \in Known(i)' :
             x \in Known(i) \/ (exp'.pc = "write" /\ x = exp'.payload[Files[i]])
  <1> SUFFICES ASSUME NEW i \in 1 .. 3, NEW x, x \in Copies(i, file', branch', exp')
               PROVE  x \in Known(i) \/ (exp'.pc = "write" /\ x = exp'.payload[Files[i]])
    BY DEF Known
  <1>0. \/ x = file'[Files[i]] /\ x # None
        \/ \E w \in Wh : i <= Len(branch'[w].read) /\ x = branch'[w].read[i]
        \/ exp'.pc = "write" /\ x = exp'.payload[Files[i]]
    <2>1. PICK brs, fls, xp : brs = branch' /\ fls = file' /\ xp = exp'
      OBVIOUS
    <2>2. x \in Copies(i, fls, brs, xp)
            <=> \/ x = fls[Files[i]] /\ x # None
                \/ \E w \in Wh : i <= Len(brs[w].read) /\ x = brs[w].read[i]
                \/ xp.pc = "write" /\ x = xp.payload[Files[i]]
      BY CopiesAre
    <2> QED
      BY <2>1, <2>2
  <1>1. CASE x = file'[Files[i]] /\ x # None
    <2>1. CASE x = file[Files[i]]
      BY <1>1, <2>1, FileIsKnown
    <2> QED
      BY <1>1, <2>1
  <1>2. CASE \E w \in Wh : i <= Len(branch'[w].read) /\ x = branch'[w].read[i]
    <2>1. PICK w \in Wh : i <= Len(branch'[w].read) /\ x = branch'[w].read[i]
      BY <1>2
    <2>2. CASE branch'[w] = branch[w]
      BY <2>1, <2>2, ReadIsKnown
    <2>3. CASE branch'[w].read = << >>
      BY <2>1, <2>3
    <2> QED
      BY <2>2, <2>3, Zenon DEF Kept
  <1> QED
    BY <1>0, <1>1, <1>2

\* A step of the export that begins to write nothing.
LEMMA ExportMoves ==
    ASSUME Inv, Shapes', ExportIsOfNow', Kept(branch, branch'),
           UNCHANGED partition, Fresh <= Fresh',
           \A i \in 1 .. 3 : \/ file'[Files[i]] = file[Files[i]]
                             \/ file'[Files[i]] \in Known(i),
           exp'.pc = "write" => exp.pc = "write" /\ exp'.payload = exp.payload
    PROVE  Inv'
  <1>1. \A i \in 1 .. 3 : Known(i)' \subseteq Known(i)
    <2> SUFFICES ASSUME NEW i \in 1 .. 3, NEW x \in Known(i)'
                 PROVE  x \in Known(i)
      OBVIOUS
    <2>1. x \in Known(i) \/ (exp'.pc = "write" /\ x = exp'.payload[Files[i]])
      BY KnownKeeps
    <2>2. CASE exp'.pc = "write" /\ x = exp'.payload[Files[i]]
      <3>1. exp.pc = "write" /\ x = exp.payload[Files[i]]
        BY <2>2
      <3> QED
        BY <3>1, CopiesAre, Zenon DEF Known
    <2> QED
      BY <2>1, <2>2
  <1>2. /\ \A i \in 1 .. 3 : CopiesAgree(i, Known(i), Fresh)'
        /\ \A wh, m : Based(wh, m) => Based(wh, m)'
    BY <1>1, CopiesKeep
  <1>3. PayloadsCover'
    BY PayloadKeeps, Zenon DEF Inv
  <1>4. NoAdultIsLeftOut'
    BY PayloadKeeps, Zenon DEF Inv
  <1> QED
    BY <1>2, <1>3, <1>4, Assembled

LEMMA FreshGrows ==
    ASSUME Shapes, Shapes', used'.export = used.export, exp'.pc \in Early => exp.pc \in Early
    PROVE  Fresh <= Fresh'
  BY DEF Shapes, Fresh

LEMMA SameVerbs ==
    ASSUME UNCHANGED branch
    PROVE  Kept(branch, branch')
  BY DEF Kept

LEMMA ChangeKeeps ==
    ASSUME Inv, Change
    PROVE  Inv'
  <1>1. UNCHANGED << file, exp, dag, branch, partition, landed >>
        /\ used' \in Kinds /\ used'.export = used.export
    BY SpendCounts DEF Change
  <1>2. silver' \in [area : DOMAIN Area, callejero : DOMAIN Callejero,
                     population : DOMAIN Population, pyramid : DOMAIN Pyramid, minAge : MinAge]
    BY DEF Inv, Shapes, Change
  <1>3. Shapes'
    BY <1>1, <1>2 DEF Inv, Shapes, partition, Kinds
  <1>4. ExportIsOfNow'
    BY <1>1 DEF Inv, ExportIsOfNow, Real, Adult
  <1>5. Fresh <= Fresh'
    BY <1>1, <1>3, FreshGrows DEF Inv
  <1> QED
    BY <1>1, <1>3, <1>4, <1>5, SameVerbs, ExportMoves

LEMMA StartExportKeeps ==
    ASSUME Inv, StartExport
    PROVE  Inv'
  <1>1. /\ UNCHANGED << silver, file, dag, branch, partition, landed >>
        /\ exp.pc = "idle"
        /\ exp' = [pc |-> "candidates", minAge |-> silver.minAge, made |-> used.export + 1]
    BY DEF StartExport, Idle
  <1>2. used' \in Kinds /\ used'.export = used.export + 1 /\ used.export \in Nat
    BY DEF Inv, Shapes, Kinds, StartExport, Spend
  <1>3. Shapes'
    BY <1>1, <1>2 DEF Inv, Shapes, partition, Kinds
  <1>4. ExportIsOfNow'
    BY <1>1, <1>2 DEF ExportIsOfNow, Early
  <1>5. Fresh <= Fresh'
    BY <1>1, <1>2 DEF Fresh, Early
  <1>6. exp'.pc # "write"
    BY <1>1
  <1> QED
    BY <1>1, <1>3, <1>4, <1>5, <1>6, SameVerbs, ExportMoves

\* An export that is refused or dies: its number is used.
LEMMA RefusalKeeps ==
    ASSUME Inv, RefuseExport, UNCHANGED << silver, file, partition >>,
           used' \in Kinds, used'.export = used.export
    PROVE  Inv'
  <1>1. exp'.pc = "idle"
    BY DEF RefuseExport, Idle
  <1>2. /\ dag' = [phase |-> dag'.phase, overwrite |-> dag'.overwrite]
        /\ dag'.phase \in {"idle", "export", "branches"}
        /\ branch' = [wh \in Wh |-> branch'[wh]]
        /\ Kept(branch, branch')
    BY ExportEndsKeeps DEF RefuseExport
  <1>3. Shapes'
    BY <1>1, <1>2 DEF Inv, Shapes, partition, Kinds
  <1>4. ExportIsOfNow'
    BY <1>1 DEF ExportIsOfNow, Early
  <1>5. Fresh <= Fresh'
    BY <1>1, <1>3, FreshGrows DEF Inv, Early
  <1>6. \A i \in 1 .. 3 : file'[Files[i]] = file[Files[i]]
    OBVIOUS
  <1> QED
    BY <1>1, <1>2, <1>3, <1>4, <1>5, <1>6, ExportMoves

LEMMA KillExportKeeps ==
    ASSUME Inv, KillExport
    PROVE  Inv'
  <1>1. used' \in Kinds /\ used'.export = used.export
    BY SpendCounts DEF KillExport
  <1> QED
    BY <1>1, RefusalKeeps DEF KillExport

\* The rows of address_candidates.json are addresses of the edition and the area.
LEMMA CandidatesAreReal ==
    ASSUME Inv, NEW c, c.date = silver.callejero, c.rows = CandidateRows(silver)
    PROVE  Real(c)
  <1>1. silver.callejero \in DOMAIN Callejero /\ silver.area \in DOMAIN Area
    BY DEF Inv, Shapes
  <1>2. PICK streets, area : streets = Callejero[silver.callejero] /\ area = Area[silver.area]
    OBVIOUS
  <1>3. streets \in Seq(Range(streets)) /\ area \in Range(Area)
    BY <1>1, <1>2, EditionsAssumption DEF Range
  <1> DEFINE Row(wh, t) == IF << wh, t.municipality >> \in area /\ t.named
                           THEN << [wh |-> wh, tramo |-> t] >> ELSE << >>
             Rows(wh) == FlattenSeq([j \in DOMAIN streets |-> Row(wh, streets[j])])
             All == FlattenSeq([i \in DOMAIN Warehouse |-> Rows(Warehouse[i])])
             S == {y \in {[wh |-> w, tramo |-> t] : w \in Wh, t \in Range(streets)} :
                     << y.wh, y.tramo.municipality >> \in area}
  <1>4. c.rows = All
    BY <1>2, Zenon DEF CandidateRows
  <1>5. ASSUME NEW wh \in Wh
        PROVE  Rows(wh) \in Seq(S)
    <2>1. ASSUME NEW j \in DOMAIN streets
          PROVE  Row(wh, streets[j]) \in Seq(S)
      <3>1. streets[j] \in Range(streets)
        BY DEF Range
      <3>2. CASE << wh, streets[j].municipality >> \in area /\ streets[j].named
        <4>1. PICK y : y = [wh |-> wh, tramo |-> streets[j]]
          OBVIOUS
        <4>2. y \in S
          BY <3>1, <3>2, <4>1
        <4> HIDE DEF S
        <4> QED
          BY <3>2, <4>1, <4>2
      <3>3. CASE ~(<< wh, streets[j].municipality >> \in area /\ streets[j].named)
        BY <3>3
      <3> QED
        BY <3>2, <3>3
    <2> HIDE DEF S, Row
    <2>2. DOMAIN streets = 1 .. Len(streets) /\ Len(streets) \in Nat
      BY <1>3
    <2>3. [j \in DOMAIN streets |-> Row(wh, streets[j])] \in Seq(Seq(S))
      BY <2>1, <2>2
    <2> QED
      BY <2>3, FlattenedIsOver
  <1> HIDE DEF S, Rows
  <1>6. All \in Seq(S)
    <2>1. DOMAIN Warehouse = 1 .. Len(Warehouse) /\ Len(Warehouse) \in Nat
          /\ \A i \in DOMAIN Warehouse : Warehouse[i] \in Wh
      BY EditionsAssumption DEF Wh, Range
    <2>2. [i \in DOMAIN Warehouse |-> Rows(Warehouse[i])] \in Seq(Seq(S))
      BY <1>5, <2>1
    <2> QED
      BY <2>2, FlattenedIsOver
  <1>7. ASSUME NEW i \in DOMAIN c.rows
        PROVE  c.rows[i] \in S
    <2> HIDE DEF All
    <2> QED
      BY <1>4, <1>6, <1>7
  <1>8. ASSUME NEW i \in DOMAIN c.rows
        PROVE  /\ << c.rows[i].wh, c.rows[i].tramo.municipality >> \in area
               /\ c.rows[i].tramo \in Range(streets)
    BY <1>7 DEF S
  <1> QED
    BY <1>1, <1>2, <1>3, <1>8, Zenon DEF Real

LEMMA QueryCandidatesKeeps ==
    ASSUME Inv, QueryCandidates
    PROVE  Inv'
  <1>1. UNCHANGED << silver, file, partition, landed, used >> /\ exp.pc = "candidates"
    BY DEF QueryCandidates
  <1>2. used' \in Kinds /\ used'.export = used.export
    BY <1>1 DEF Inv, Shapes, Kinds
  <1>3. CASE RefuseExport
    BY <1>1, <1>2, <1>3, RefusalKeeps
  <1>4. CASE ~RefuseExport
    <2>1. PICK rows, c : /\ rows = CandidateRows(silver)
                         /\ c = [date |-> silver.callejero, rows |-> rows, made |-> exp.made]
      OBVIOUS
    <2>2. exp' = [pc |-> "weights", minAge |-> exp.minAge, made |-> exp.made, candidates |-> c]
          /\ UNCHANGED << dag, branch >>
      BY <1>4, <2>1, Zenon DEF QueryCandidates
    <2>3. c.date = silver.callejero /\ c.rows = CandidateRows(silver) /\ c.made = exp.made
      BY <2>1
    <2>4. Real(c)
      BY <2>3, CandidatesAreReal
    <2>5. exp'.pc = "weights" /\ exp'.made = exp.made /\ exp'.candidates = c
      BY <2>2
    <2>6. exp.made = used.export
      BY <1>1 DEF Inv, ExportIsOfNow, Early
    <2>7. ExportIsOfNow'
      <3>1. Real(exp'.candidates) /\ exp'.candidates.made = used'.export /\ exp'.made = used'.export
        BY <1>1, <2>3, <2>4, <2>5, <2>6
      <3>2. Real(exp.candidates)'
        BY <3>1 DEF Real
      <3> QED
        BY <2>5, <3>1, <3>2 DEF ExportIsOfNow
    <2>8. Shapes'
      BY <1>1, <2>2, <2>5 DEF Inv, Shapes, partition
    <2>9. Fresh <= Fresh'
      BY <1>1, <2>8, FreshGrows DEF Inv, Early
    <2> QED
      BY <1>1, <2>2, <2>5, <2>7, <2>8, <2>9, SameVerbs, ExportMoves
  <1> QED
    BY <1>3, <1>4

LEMMA QueryWeightsKeeps ==
    ASSUME Inv, QueryWeights
    PROVE  Inv'
  <1>1. UNCHANGED << silver, file, partition, landed, used >> /\ exp.pc = "weights"
    BY DEF QueryWeights
  <1>2. used' \in Kinds /\ used'.export = used.export
    BY <1>1 DEF Inv, Shapes, Kinds
  <1>3. CASE RefuseExport
    BY <1>1, <1>2, <1>3, RefusalKeeps
  <1>4. CASE ~RefuseExport
    <2>1. PICK rows : rows = WeightRows(silver)
      OBVIOUS
    <2>2. exp' = [pc |-> "ages", minAge |-> exp.minAge, made |-> exp.made,
                  candidates |-> exp.candidates, rows |-> rows,
                  population |-> silver.population]
          /\ UNCHANGED << dag, branch >>
      BY <1>4, <2>1, Zenon DEF QueryWeights
    <2>3. exp'.pc = "ages" /\ exp'.made = exp.made /\ exp'.candidates = exp.candidates
      BY <2>2
    <2>4. exp.made = used.export /\ Real(exp.candidates) /\ exp.candidates.made = used.export
      BY <1>1 DEF Inv, ExportIsOfNow, Early
    <2>5. ExportIsOfNow'
      <3>1. Real(exp.candidates)'
        BY <2>3, <2>4 DEF Real
      <3> QED
        BY <1>1, <2>3, <2>4, <3>1 DEF ExportIsOfNow
    <2>6. Shapes'
      BY <1>1, <2>2, <2>3 DEF Inv, Shapes, partition
    <2>7. Fresh <= Fresh'
      BY <1>1, <2>6, FreshGrows DEF Inv, Early
    <2> QED
      BY <1>1, <2>2, <2>3, <2>5, <2>6, <2>7, SameVerbs, ExportMoves
  <1> QED
    BY <1>3, <1>4

LEMMA MoreLeft ==
    ASSUME NEW S, NEW s \in Seq(S), s # << >>, Len(s) # 1
    PROVE  Tail(s) \in Seq(S) /\ Tail(s) # << >>
  <1>1. Len(s) \in Nat /\ Len(s) # 0
    BY EmptySeq, LenProperties
  <1>2. Tail(s) \in Seq(S) /\ Len(Tail(s)) = Len(s) - 1
    BY HeadTailProperties
  <1>3. Len(Tail(s)) # 0
    BY <1>1, <1>2
  <1> QED
    BY <1>2, <1>3

LEMMA WriteFileKeeps ==
    ASSUME Inv, WriteFile
    PROVE  Inv'
  <1>1. UNCHANGED << silver, partition, landed, used >> /\ exp.pc = "write"
    BY DEF WriteFile
  <1>2. /\ exp = [pc |-> "write", left |-> exp.left, payload |-> exp.payload]
        /\ exp.left \in Seq(Range(Files)) /\ exp.left # << >>
        /\ \A i \in 1 .. 3 : exp.payload[Files[i]].made = used.export
        /\ Real(exp.payload.candidates) /\ Adult(exp.payload.ages)
    BY <1>1 DEF Inv, ExportIsOfNow
  <1>3. PICK f : f = Head(exp.left)
    OBVIOUS
  <1>4. f \in Range(Files) /\ file' = [file EXCEPT ![f] = exp.payload[f]]
    BY <1>2, <1>3 DEF WriteFile
  <1>5. file' = [g \in Range(Files) |-> file'[g]]
        /\ \A g \in Range(Files) : file'[g] = file[g] \/ file'[g] = exp.payload[g]
    BY <1>4 DEF Inv, Shapes
  <1>6. ASSUME NEW i \in 1 .. 3
        PROVE  file'[Files[i]] = file[Files[i]] \/ file'[Files[i]] \in Known(i)
    <2>1. exp.payload[Files[i]] \in Known(i)
      BY <1>1, CopiesAre, Zenon DEF Known
    <2>2. Files[i] \in Range(Files)
      BY FilesAre
    <2> QED
      BY <1>5, <2>1, <2>2, Zenon
  <1>7. /\ exp'.pc \in {"idle", "write"} /\ Kept(branch, branch')
        /\ exp'.pc = "write" => exp'.payload = exp.payload
        /\ ExportIsOfNow' /\ Shapes'
    <2>1. CASE exp' = Idle /\ ExportEnds(TRUE)
      <3>1. exp'.pc = "idle"
        BY <2>1 DEF Idle
      <3>2. /\ dag' = [phase |-> dag'.phase, overwrite |-> dag'.overwrite]
            /\ dag'.phase \in {"idle", "export", "branches"}
            /\ branch' = [wh \in Wh |-> branch'[wh]]
            /\ Kept(branch, branch')
        BY <2>1, ExportEndsKeeps
      <3>3. ExportIsOfNow'
        BY <3>1 DEF ExportIsOfNow, Early
      <3>4. Shapes'
        BY <1>1, <1>5, <3>1, <3>2 DEF Inv, Shapes, partition
      <3> QED
        BY <3>1, <3>2, <3>3, <3>4
    <2>2. CASE /\ Len(exp.left) # 1
               /\ exp' = [exp EXCEPT !.left = Tail(@)] /\ UNCHANGED << dag, branch >>
      <3>1. exp' = [pc |-> "write", left |-> Tail(exp.left), payload |-> exp.payload]
        BY <1>2, <2>2
      <3>2. Tail(exp.left) \in Seq(Range(Files)) /\ Tail(exp.left) # << >>
        BY <1>2, <2>2, MoreLeft
      <3>3. exp'.pc = "write" /\ exp'.left = Tail(exp.left) /\ exp'.payload = exp.payload
        BY <3>1
      <3>4. exp' = [pc |-> "write", left |-> exp'.left, payload |-> exp'.payload]
        BY <3>1, <3>3
      <3>5. Real(exp.payload.candidates)' /\ Adult(exp.payload.ages)'
        BY <1>2, <3>3 DEF Real, Adult
      <3>6. /\ exp'.left \in Seq(Range(Files)) /\ exp'.left # << >>
            /\ \A i \in 1 .. 3 : exp'.payload[Files[i]].made = used'.export
        BY <1>1, <1>2, <3>2, <3>3, Zenon
      <3>7. ExportIsOfNow'
        BY <3>3, <3>4, <3>5, <3>6 DEF ExportIsOfNow, Early
      <3>8. Shapes'
        BY <1>1, <1>5, <2>2, <3>3 DEF Inv, Shapes, partition
      <3> QED
        BY <2>2, <3>3, <3>7, <3>8, SameVerbs
    <2> QED
      BY <2>1, <2>2, Zenon DEF WriteFile
  <1>8. Fresh <= Fresh'
    BY <1>1, <1>7, FreshGrows DEF Inv, Early
  <1> QED
    BY <1>1, <1>6, <1>7, <1>8, ExportMoves

LEMMA StartRunKeeps ==
    ASSUME Inv, NEW overwrite, StartRun(overwrite) \/ EndRun
    PROVE  Inv'
  <1>1. UNCHANGED << silver, file, exp, branch, partition, landed, used >>
    BY DEF StartRun, EndRun
  <1>2. dag' = [phase |-> dag'.phase, overwrite |-> dag'.overwrite]
        /\ dag'.phase \in {"idle", "export"}
    BY DEF StartRun, EndRun
  <1>3. Shapes'
    BY <1>1, <1>2 DEF Inv, Shapes, partition
  <1>4. ExportIsOfNow'
    BY <1>1 DEF Inv, ExportIsOfNow, Real, Adult
  <1>5. Fresh <= Fresh'
    BY <1>1, <1>3, FreshGrows DEF Inv
  <1> QED
    BY <1>1, <1>3, <1>4, <1>5, SameVerbs, ExportMoves

\* One copy more, of an export whose number no other copy has.
LEMMA OneCopyMore ==
    ASSUME NEW i, NEW K, NEW L, NEW e, \A x \in L : x \in K \/ x = e,
           NEW n \in Nat, NEW m \in Nat, n <= e.made, e.made < m, e.made \in Nat,
           i = 1 => Real(e), i = 3 => Adult(e)
    PROVE  /\ CopiesAgree(i, K, n) => CopiesAgree(i, L, m)
           /\ \A wh, base : Agrees(i, wh, base, K, n) => Agrees(i, wh, base, L, m)
  <1>1. ASSUME NEW k \in Nat, k < n
        PROVE  k < m /\ k # e.made
    BY <1>1
  <1>2. CopiesAgree(i, K, n) => CopiesAgree(i, L, m)
    <2> SUFFICES ASSUME CopiesAgree(i, K, n)
                 PROVE  CopiesAgree(i, L, m)
      OBVIOUS
    <2>1. \A x \in K : x.made \in Nat /\ x.made < m /\ x.made # e.made
      BY <1>1 DEF CopiesAgree
    <2>2. \A x \in L : x.made \in Nat /\ x.made < m
      BY <2>1
    <2>3. \A x, y \in L : x.made = y.made => x = y
      BY <2>1, Zenon DEF CopiesAgree
    <2>4. /\ i = 1 => \A x \in L : Real(x)
          /\ i = 3 => \A x \in L : Adult(x)
      BY Zenon DEF CopiesAgree
    <2> QED
      BY <2>2, <2>3, <2>4, Zenon DEF CopiesAgree
  <1>3. ASSUME NEW wh, NEW base, Agrees(i, wh, base, K, n)
        PROVE  Agrees(i, wh, base, L, m)
    <2>1. /\ base.reference[i] \in Nat /\ base.reference[i] < m
          /\ base.reference[i] # e.made
      BY <1>1, <1>3 DEF Agrees
    <2>2. ASSUME NEW x \in L, x.made = base.reference[i]
          PROVE  DrawnFrom(i, wh, base, x)
      <3>1. x \in K
        BY <2>1, <2>2
      <3> QED
        BY <1>3, <2>2, <3>1 DEF Agrees
    <2> QED
      BY <2>1, <2>2 DEF Agrees
  <1> QED
    BY <1>2, <1>3, Zenon

\* Reshaping keeps the places.
LEMMA ReshapedKeeps ==
    ASSUME NEW rows
    PROVE  /\ Places(Reshaped(rows)) = Places(rows)
           /\ {r.wh : r \in Reshaped(rows)} = {r.wh : r \in rows}
           /\ \A r \in Reshaped(rows) : \E q \in rows : r.wh = q.wh /\ r.municipality = q.municipality
  <1> DEFINE F(r) == [wh |-> r.wh, municipality |-> r.municipality, population |-> r.population,
                      weight |-> r.population * PctOf(Habitat, r.population)]
  <1>1. \A r : F(r).wh = r.wh /\ F(r).municipality = r.municipality
    OBVIOUS
  <1>2. Reshaped(rows) = {F(r) : r \in rows}
    BY Zenon DEF Reshaped
  <1> HIDE DEF F
  <1>3. \A r \in Reshaped(rows) : \E q \in rows : r.wh = q.wh /\ r.municipality = q.municipality
    BY <1>1, <1>2
  <1>4. \A q \in rows : \E r \in Reshaped(rows) : r.wh = q.wh /\ r.municipality = q.municipality
    BY <1>1, <1>2
  <1>5. Places(Reshaped(rows)) = Places(rows)
    BY <1>3, <1>4 DEF Places
  <1>6. {r.wh : r \in Reshaped(rows)} = {r.wh : r \in rows}
    BY <1>3, <1>4
  <1> QED
    BY <1>3, <1>5, <1>6

LEMMA SomebodyBuys ==
    ASSUME NEW a
    PROVE  AgePct(a) \in Nat \ {0}
  <1>1. CASE \E b \in AgeBand : InBand(b, a)
    <2>1. AgePct(a) = (CHOOSE b \in AgeBand : InBand(b, a)).pct
      BY <1>1, Zenon DEF AgePct, PctOf
    <2>2. (CHOOSE b \in AgeBand : InBand(b, a)) \in AgeBand
      BY <1>1, Zenon
    <2> QED
      BY <2>1, <2>2, BandsAssumption
  <1>2. CASE ~ \E b \in AgeBand : InBand(b, a)
    <2>1. AgePct(a) = (CHOOSE b \in AgeBand : \A c \in AgeBand : c.low <= b.low).pct
      BY <1>2, Zenon DEF AgePct
    <2>2. (CHOOSE b \in AgeBand : \A c \in AgeBand : c.low <= b.low) \in AgeBand
      BY BandsAssumption, Zenon
    <2> QED
      BY <2>1, <2>2, BandsAssumption
  <1> QED
    BY <1>1, <1>2

LEMMA PositiveProduct ==
    ASSUME NEW m \in Nat, NEW n \in Nat, m > 0, n > 0
    PROVE  m * n > 0
  OBVIOUS

\* The rows of the ages: of every province and adult age, with people if it has some.
LEMMA AgesAreAll ==
    ASSUME NEW pyramid, NEW from, NEW rows, rows = AgeRows(pyramid, from),
           \A p \in DOMAIN pyramid : pyramid[p] \in [Age -> Nat]
    PROVE  /\ \A x \in rows : x.age >= from
           /\ \A p \in DOMAIN pyramid, a \in Age :
                a >= from => \E x \in rows : /\ x.province = p /\ x.age = a
                                             /\ pyramid[p][a] > 0 => x.weight > 0
  <1> DEFINE F(p, a) == [province |-> p, age |-> a, weight |-> pyramid[p][a] * AgePct(a)]
             A == {a \in Age : a >= from}
  <1>1. rows = {F(p, a) : p \in DOMAIN pyramid, a \in A}
    BY DEF AgeRows
  <1>2. \A p, a : /\ F(p, a).province = p /\ F(p, a).age = a
                  /\ F(p, a).weight = pyramid[p][a] * AgePct(a)
    OBVIOUS
  <1> HIDE DEF F
  <1>3. ASSUME NEW x \in rows
        PROVE  x.age >= from
    <2>1. PICK p \in DOMAIN pyramid, a \in A : x = F(p, a)
      BY <1>1
    <2> QED
      BY <1>2, <2>1
  <1>4. ASSUME NEW p \in DOMAIN pyramid, NEW a \in Age, a >= from
        PROVE  \E x \in rows : /\ x.province = p /\ x.age = a
                               /\ pyramid[p][a] > 0 => x.weight > 0
    <2>1. a \in A
      BY <1>4
    <2>2. F(p, a) \in rows
      BY <1>1, <2>1
    <2>3. pyramid[p][a] \in Nat /\ AgePct(a) \in Nat /\ AgePct(a) > 0
      BY SomebodyBuys
    <2>4. pyramid[p][a] > 0 => F(p, a).weight > 0
      BY <1>2, <2>3, PositiveProduct
    <2> QED
      BY <1>2, <2>2, <2>4
  <1> QED
    BY <1>3, <1>4

LEMMA QueryAgesKeeps ==
    ASSUME Inv, QueryAges
    PROVE  Inv'
  <1>1. UNCHANGED << silver, file, partition, landed, used >> /\ exp.pc = "ages"
    BY DEF QueryAges
  <1>2. used' \in Kinds /\ used'.export = used.export /\ used.export \in Nat
    BY <1>1 DEF Inv, Shapes, Kinds
  <1>3. CASE RefuseExport
    BY <1>1, <1>2, <1>3, RefusalKeeps
  <1>4. CASE ~RefuseExport
    <2>1. PICK n, c, rows, from, pyramid, allocation, weights, ages, payload :
            /\ n = used.export /\ c = exp.candidates /\ rows = exp.rows /\ from = exp.minAge
            /\ pyramid = Pyramid[silver.pyramid]
            /\ allocation = [wh \in {r.wh : r \in exp.rows} |->
                               Customers(exp.rows, Pyramid[silver.pyramid], exp.minAge, wh)]
            /\ weights = [date |-> exp.population, rows |-> Reshaped(exp.rows),
                          minAge |-> exp.minAge, customers |-> allocation, made |-> exp.made]
            /\ ages = [date |-> silver.pyramid, minAge |-> exp.minAge,
                       rows |-> AgeRows(Pyramid[silver.pyramid], exp.minAge), made |-> exp.made]
            /\ payload = [candidates |-> exp.candidates, weights |-> weights, ages |-> ages]
      OBVIOUS
    <2>2. /\ exp' = [pc |-> "write", left |-> Files, payload |-> payload]
          /\ UNCHANGED << dag, branch >>
          /\ ~Degenerate(pyramid, from)
          /\ Covered(c.rows, rows, pyramid)
      BY <1>4, <2>1, Zenon DEF QueryAges
    <2>3. exp.made = n /\ Real(c) /\ c.made = n
      BY <1>1, <2>1 DEF Inv, ExportIsOfNow, Early
    <2>4. /\ payload.candidates = c /\ payload.weights = weights /\ payload.ages = ages
          /\ weights.rows = Reshaped(rows) /\ weights.customers = allocation /\ weights.made = n
          /\ ages.date = silver.pyramid /\ ages.minAge = from
          /\ ages.rows = AgeRows(pyramid, from) /\ ages.made = n
          /\ DOMAIN allocation = {r.wh : r \in rows}
      BY <2>1, <2>3
    <2>5. /\ silver.pyramid \in DOMAIN Pyramid
          /\ \A p \in DOMAIN pyramid : pyramid[p] \in [Age -> Nat]
      BY <2>1, EditionsAssumption DEF Inv, Shapes
    <2>6. /\ \A x \in ages.rows : x.age >= from
          /\ \A p \in DOMAIN pyramid, a \in Age :
               a >= from => \E x \in ages.rows : /\ x.province = p /\ x.age = a
                                                 /\ pyramid[p][a] > 0 => x.weight > 0
      BY <2>4, <2>5, AgesAreAll
    <2>7. /\ exp'.pc = "write" /\ exp'.left = Files /\ exp'.payload = payload
      BY <2>2
    <2>8. Adult(ages)
      BY <2>4, <2>6, Zenon DEF Adult
    <2>9. \A p \in DOMAIN pyramid : \E x \in ages.rows : x.province = p
      <3> TAKE p \in DOMAIN pyramid
      <3>1. People(pyramid, p, from) # 0
        BY <2>2 DEF Degenerate
      <3>2. PICK a \in Age : a >= from
        BY <3>1, SomebodyIsCounted
      <3> QED
        BY <2>6, <3>2
    <2>10. PayloadsCover'
      <3>1. /\ Places(weights.rows) = Places(rows)
            /\ {r.wh : r \in weights.rows} = {r.wh : r \in rows}
            /\ \A r \in weights.rows : \E q \in rows :
                 r.wh = q.wh /\ r.municipality = q.municipality
        <4>1. Places(Reshaped(rows)) = Places(rows)
          BY ReshapedKeeps
        <4>2. {r.wh : r \in Reshaped(rows)} = {r.wh : r \in rows}
          BY ReshapedKeeps
        <4>3. \A r \in Reshaped(rows) : \E q \in rows :
                r.wh = q.wh /\ r.municipality = q.municipality
          BY ReshapedKeeps
        <4>4. weights.rows = Reshaped(rows)
          BY <2>4
        <4> QED
          BY <4>1, <4>2, <4>3, <4>4, Zenon
      <3>2. /\ PlacesOf(c.rows) = Places(rows)
            /\ \A r \in rows : ProvinceOf[r.municipality] \in DOMAIN pyramid
        BY <2>2 DEF Covered
      <3>3. ASSUME NEW wh
            PROVE  ~Unsupported(wh, c, weights, ages)
        <4>1. SUFFICES ASSUME NEW r \in weights.rows, r.wh = wh
                       PROVE  /\ << wh, r.municipality >> \in PlacesOf(c.rows)
                              /\ \E x \in ages.rows : x.province = ProvinceOf[r.municipality]
          BY DEF Unsupported
        <4>2. PICK q \in rows : r.wh = q.wh /\ r.municipality = q.municipality
          BY <3>1
        <4>3. << wh, r.municipality >> \in Places(rows)
          BY <4>1, <4>2 DEF Places
        <4>4. ProvinceOf[r.municipality] \in DOMAIN pyramid
          BY <3>2, <4>2
        <4> QED
          BY <2>9, <3>2, <4>3, <4>4
      <3>4. /\ PlacesOf(payload.candidates.rows) = Places(payload.weights.rows)
            /\ DOMAIN payload.weights.customers = {r.wh : r \in payload.weights.rows}
            /\ \A wh \in DOMAIN payload.weights.customers :
                 ~Unsupported(wh, payload.candidates, payload.weights, payload.ages)
        BY <2>4, <3>1, <3>2, <3>3, Zenon
      <3> QED
        BY <2>7, <3>4, Zenon DEF PayloadsCover, Unsupported, Places, PlacesOf
    <2>11. NoAdultIsLeftOut'
      <3> DEFINE D(p) == \A pr \in DOMAIN Pyramid[p.ages.date], a \in Age :
                            a >= p.ages.minAge /\ Pyramid[p.ages.date][pr][a] > 0 =>
                              \E x \in p.ages.rows : x.province = pr /\ x.age = a /\ x.weight > 0
      <3>1. payload.ages = ages /\ Pyramid[ages.date] = pyramid /\ ages.minAge = from
        BY <2>1, <2>4
      <3>2. \A pr \in DOMAIN pyramid, a \in Age :
              a >= from /\ pyramid[pr][a] > 0 =>
                \E x \in ages.rows : x.province = pr /\ x.age = a /\ x.weight > 0
        BY <2>6
      <3>3. D(payload)
        BY <3>1, <3>2
      <3>4. NoAdultIsLeftOut' <=> (exp'.pc = "write" => D(exp'.payload))
        BY Zenon DEF NoAdultIsLeftOut
      <3> HIDE DEF D
      <3> QED
        BY <2>7, <3>3, <3>4, Zenon
    <2>12. Files \in Seq(Range(Files)) /\ Files # << >>
           /\ \A i \in 1 .. 3 : i = 1 \/ i = 2 \/ i = 3
      <3>1. Files \in Seq({"candidates", "weights", "ages"}) /\ Files # << >>
        BY DEF Files
      <3>2. Files \in Seq(Range(Files))
        BY <3>1, FilesAre, Zenon
      <3> QED
        BY <3>1, <3>2
    <2>13. ExportIsOfNow'
      <3>1. \A i \in 1 .. 3 : payload[Files[i]].made = n
        BY <2>3, <2>4, <2>12, FilesAre
      <3>2. Real(payload.candidates) /\ Adult(payload.ages)
        BY <2>3, <2>4, <2>8
      <3>3. Real(exp.payload.candidates)' /\ Adult(exp.payload.ages)'
        BY <2>7, <3>2 DEF Real, Adult
      <3>4. /\ exp' = [pc |-> "write", left |-> exp'.left, payload |-> exp'.payload]
            /\ exp'.left \in Seq(Range(Files)) /\ exp'.left # << >>
            /\ \A i \in 1 .. 3 : exp'.payload[Files[i]].made = used'.export
        <4>1. used'.export = n
          BY <1>2, <2>1
        <4> QED
          BY <2>2, <2>7, <2>12, <3>1, <4>1, Zenon
      <3> QED
        BY <2>7, <3>3, <3>4 DEF ExportIsOfNow, Early
    <2>14. Shapes'
      BY <1>1, <2>2, <2>7 DEF Inv, Shapes, partition
    <2>15. n \in Nat /\ Fresh = n /\ Fresh' = n + 1
      BY <1>1, <1>2, <2>1, <2>7 DEF Fresh, Early
    <2>16. \A i \in 1 .. 3 : \A x \in Known(i)' : x \in Known(i) \/ x = payload[Files[i]]
      <3>1. \A i \in 1 .. 3 : file'[Files[i]] = file[Files[i]]
        BY <1>1
      <3>2. Kept(branch, branch')
        BY <2>2, SameVerbs
      <3>3. \A i \in 1 .. 3 : \A x \in Known(i)' :
             x \in Known(i) \/ (exp'.pc = "write" /\ x = exp'.payload[Files[i]])
        BY <3>1, <3>2, KnownKeeps
      <3> QED
        BY <2>7, <3>3, Zenon
    <2>17. ASSUME NEW i \in 1 .. 3
           PROVE  /\ payload[Files[i]].made = n
                  /\ i = 1 => Real(payload[Files[i]])
                  /\ i = 3 => Adult(payload[Files[i]])
      BY <2>3, <2>4, <2>8, <2>12, FilesAre
    <2>18. ASSUME NEW i \in 1 .. 3
           PROVE  /\ CopiesAgree(i, Known(i), n) => CopiesAgree(i, Known(i)', n + 1)
                  /\ \A wh, m : Agrees(i, wh, m, Known(i), n) => Agrees(i, wh, m, Known(i)', n + 1)
      <3>1. PICK K, L, e, k : K = Known(i) /\ L = Known(i)' /\ e = payload[Files[i]] /\ k = n + 1
        OBVIOUS
      <3>2. /\ \A x \in L : x \in K \/ x = e
            /\ k \in Nat /\ n <= e.made /\ e.made < k /\ e.made \in Nat
            /\ i = 1 => Real(e)
            /\ i = 3 => Adult(e)
        BY <2>15, <2>16, <2>17, <3>1
      <3>3. CopiesAgree(i, K, n) => CopiesAgree(i, L, k)
        BY <2>15, <3>2, OneCopyMore
      <3>4. \A wh, m : Agrees(i, wh, m, K, n) => Agrees(i, wh, m, L, k)
        BY <2>15, <3>2, OneCopyMore
      <3> QED
        BY <3>1, <3>3, <3>4, Zenon
    <2>19. \A i \in 1 .. 3 : CopiesAgree(i, Known(i), Fresh)'
      <3>1. \A i \in 1 .. 3 : CopiesAgree(i, Known(i)', Fresh')
        BY <2>15, <2>18 DEF Inv
      <3> QED
        BY <3>1 DEF CopiesAgree, Real, Adult
    <2>20. ASSUME NEW wh, NEW m, Based(wh, m)
           PROVE  Based(wh, m)'
      <3>1. \A i \in 1 .. 3 : Agrees(i, wh, m, Known(i)', Fresh')
        BY <2>15, <2>18, <2>20 DEF Based
      <3>2. Homely(wh, m) => Homely(wh, m)'
        BY DEF Homely
      <3> QED
        BY <2>20, <3>1, <3>2 DEF Based, Agrees, DrawnFrom
    <2>21. Kept(branch, branch')
      BY <2>2, SameVerbs
    <2>22. UNCHANGED partition
      BY <1>1
    <2> QED
      BY <2>10, <2>11, <2>13, <2>14, <2>19, <2>20, <2>21, <2>22, Assembled
  <1> QED
    BY <1>3, <1>4

(***************************************************************************)
(* The theorems.                                                           *)
(***************************************************************************)
LEMMA InitHolds ==
    ASSUME Init
    PROVE  Inv
  <1>1. Shapes
    BY EditionsAssumption DEF Init, Shapes, Idle
  <1>2. /\ exp.pc = "idle" /\ used.export = 0
        /\ \A wh \in Wh : branch[wh] = Still /\ manifest[wh] = None
    BY DEF Init, Idle
  <1>3. ExportIsOfNow /\ PayloadsCover /\ NoAdultIsLeftOut
    BY <1>2 DEF ExportIsOfNow, PayloadsCover, NoAdultIsLeftOut, Early
  <1>4. ASSUME NEW wh \in Wh
        PROVE  Verb(branch[wh]) /\ BasesAgree(wh)
    <2>1. branch[wh] = Still /\ manifest[wh] = None
      BY <1>2
    <2> QED
      BY <2>1, StillIsVerb DEF BasesAgree
  <1>5. \A i \in 1 .. 3 : Known(i) = {}
    <2> SUFFICES ASSUME NEW i \in 1 .. 3, NEW x \in Known(i)
                 PROVE  FALSE
      OBVIOUS
    <2>1. \/ x = file[Files[i]] /\ x # None
          \/ \E wh \in Wh : i <= Len(branch[wh].read) /\ x = branch[wh].read[i]
          \/ exp.pc = "write" /\ x = exp.payload[Files[i]]
      <3>1. x \in Copies(i, file, branch, exp)
        BY DEF Known
      <3> QED
        BY <3>1, CopiesAre
    <2>2. file[Files[i]] = None
      BY FilesAre DEF Init
    <2>3. \A wh \in Wh : branch[wh].read = << >>
      BY <1>2, StillIsVerb
    <2> QED
      BY <1>2, <2>1, <2>2, <2>3
  <1>6. \A i \in 1 .. 3 : CopiesAgree(i, Known(i), Fresh)
    BY <1>5 DEF CopiesAgree
  <1> QED
    BY <1>1, <1>3, <1>4, <1>6 DEF Inv

LEMMA StepKeeps ==
    ASSUME Inv, [Next]_vars
    PROVE  Inv'
  <1>1. CASE Change
    BY <1>1, ChangeKeeps
  <1>2. CASE ExportStep
    BY <1>2, StartExportKeeps, QueryCandidatesKeeps, QueryWeightsKeeps, QueryAgesKeeps,
       WriteFileKeeps DEF ExportStep
  <1>3. CASE KillExport
    BY <1>3, KillExportKeeps
  <1>4. ASSUME NEW wh \in Wh, BranchStep(wh)
        PROVE  Inv'
    <2>1. CASE Gate(wh) \/ Open(wh) \/ ReadFile(wh) \/ Generate(wh)
      BY <2>1, GateKeeps, OpenKeeps, ReadFileKeeps, GenerateKeeps
    <2>2. CASE WriteData(wh) \/ WriteManifest(wh) \/ Mark(wh)
      BY <2>2, WriteDataKeeps, WriteManifestKeeps, MarkKeeps
    <2>3. CASE Judge(wh)
      BY <2>3, JudgeKeeps
    <2>4. CASE LandData(wh) \/ LandManifest(wh) \/ LandMark(wh) \/ VerifyLanding(wh)
      BY <2>4, LandKeeps
    <2> QED
      BY <1>4, <2>1, <2>2, <2>3, <2>4 DEF BranchStep
  <1>5. ASSUME NEW wh \in Wh, Kill(wh) \/ StartValidate(wh)
        PROVE  Inv'
    BY <1>5, KillKeeps, StartValidateKeeps
  <1>6. ASSUME NEW wh \in Wh, NEW overwrite, NEW count, StartExtract(wh, overwrite, count)
        PROVE  Inv'
    BY <1>6, StartExtractKeeps
  <1>7. ASSUME NEW overwrite, StartRun(overwrite) \/ EndRun
        PROVE  Inv'
    BY <1>7, StartRunKeeps
  <1>8. CASE UNCHANGED vars
    <2>1. /\ UNCHANGED << silver, file, exp, dag, branch, partition, landed, used >>
          /\ used' \in Kinds
      BY <1>8 DEF vars, Inv, Shapes, Kinds
    <2>2. Shapes'
      BY <2>1 DEF Inv, Shapes, partition
    <2>3. ExportIsOfNow'
      BY <2>1 DEF Inv, ExportIsOfNow, Real, Adult
    <2>4. Fresh <= Fresh'
      BY <2>1, <2>2, FreshGrows DEF Inv
    <2> QED
      BY <2>1, <2>2, <2>3, <2>4, SameVerbs, ExportMoves
  <1> QED
    BY <1>1, <1>2, <1>3, <1>4, <1>5, <1>6, <1>7, <1>8 DEF Next

\* The invariant of the customer base: copies of one export are equal, and every
\* base agrees with what it was drawn from (customers_reference.py, extract.py).
THEOREM InvariantHolds == Spec => []Inv
  <1>1. Init => Inv
    BY InitHolds
  <1>2. Inv /\ [Next]_vars => Inv'
    BY StepKeeps
  <1> QED
    BY <1>1, <1>2, PTL DEF Spec

(***************************************************************************)
(* The bucket: where a landing stands, and what is in it by then.          *)
(***************************************************************************)
LandingAt(pc, d, m, s, l, crashes) ==
    /\ l = [data |-> l.data, manifest |-> l.manifest, success |-> l.success]
    /\ l.success \in BOOLEAN
    /\ pc \in Landing => s /\ m # None /\ d = m.data
    /\ pc \in Landing \ {"land"} => l.data = d
    /\ pc \in {"land_mark", "verify"} => l.manifest = m
    /\ pc = "verify" => l.success
    /\ l.success /\ l.data # l.manifest.data => pc = "land_manifest" \/ crashes > 0

Landings ==
    /\ landed = [wh \in Wh |-> landed[wh]]
    /\ \A wh \in Wh : LandingAt(branch[wh].pc, data[wh], manifest[wh], success[wh],
                                landed[wh], used.crash)

\* A landing that goes on, or a phase that is of no landing.
LEMMA LandingStays ==
    ASSUME NEW pc, NEW d, NEW m, NEW s, NEW l, NEW n \in Nat, LandingAt(pc, d, m, s, l, n),
           NEW k \in Nat, n <= k,
           NEW qc, qc = pc \/ (qc \notin Landing /\ (pc # "land_manifest" \/ k > 0))
    PROVE  LandingAt(qc, d, m, s, l, k)
  BY DEF LandingAt, Landing

\* The partition moves while nothing of it lands.
LEMMA LandingNotYet ==
    ASSUME NEW pc, NEW d, NEW m, NEW s, NEW l, NEW n, LandingAt(pc, d, m, s, l, n),
           pc \notin Landing, NEW qc, qc \notin Landing, NEW e, NEW f, NEW t
    PROVE  LandingAt(qc, e, f, t, l, n)
  BY DEF LandingAt, Landing

\* A verb goes to a phase, and the others stay where they are.
Moves(wh, pc) == branch'[wh].pc = pc /\ \A w \in Wh \ {wh} : branch'[w] = branch[w]

LEMMA ToMoves ==
    ASSUME Inv, NEW wh \in Wh, NEW pc, To(wh, pc)
    PROVE  Moves(wh, pc)
  <1>1. branch = [w \in Wh |-> branch[w]] /\ Verb(branch[wh])
    BY DEF Inv, Shapes
  <1>2. branch'[wh] = [branch[wh] EXCEPT !.pc = pc] /\ \A w \in Wh \ {wh} : branch'[w] = branch[w]
    BY <1>1 DEF To
  <1>3. [branch[wh] EXCEPT !.pc = pc].pc = pc
    BY <1>1 DEF Verb
  <1> QED
    BY <1>2, <1>3 DEF Moves

LEMMA EndsMoves ==
    ASSUME Inv, NEW wh \in Wh, Ends(wh)
    PROVE  Moves(wh, "idle")
  <1>1. branch = [w \in Wh |-> branch[w]]
    BY DEF Inv, Shapes
  <1>2. branch'[wh] = Still /\ \A w \in Wh \ {wh} : branch'[w] = branch[w]
    BY <1>1 DEF Ends
  <1> QED
    BY <1>2, StillIsVerb DEF Moves

\* A step of one warehouse.
LEMMA LandingsOfOne ==
    ASSUME Landings, NEW wh \in Wh, NEW pc, Moves(wh, pc),
           used.crash \in Nat, used'.crash \in Nat, used.crash <= used'.crash,
           landed' = [w \in Wh |-> landed'[w]],
           \A w \in Wh \ {wh} : /\ data'[w] = data[w] /\ manifest'[w] = manifest[w]
                                /\ success'[w] = success[w] /\ landed'[w] = landed[w],
           LandingAt(pc, data'[wh], manifest'[wh], success'[wh], landed'[wh], used'.crash)
    PROVE  Landings'
  <1>1. ASSUME NEW w \in Wh
        PROVE  LandingAt(branch'[w].pc, data'[w], manifest'[w], success'[w], landed'[w],
                         used'.crash)
    <2>1. CASE w = wh
      BY <2>1 DEF Moves
    <2>2. CASE w # wh
      BY <2>2, LandingStays DEF Landings, Moves
    <2> QED
      BY <2>1, <2>2
  <1> QED
    BY <1>1, Zenon DEF Landings, LandingAt

\* A step of the verbs that touches neither the partition nor the bucket.
LEMMA LandingsOfVerb ==
    ASSUME Inv, Landings, NEW wh \in Wh, NEW pc, Moves(wh, pc),
           UNCHANGED << partition, landed >>,
           used'.crash \in Nat, used.crash <= used'.crash,
           pc \notin Landing /\ (branch[wh].pc # "land_manifest" \/ used'.crash > 0)
    PROVE  Landings'
  <1>1. used.crash \in Nat
    BY DEF Inv, Shapes
  <1>2. LandingAt(pc, data[wh], manifest[wh], success[wh], landed[wh], used'.crash)
    BY <1>1, LandingStays DEF Landings
  <1>3. data' = data /\ manifest' = manifest /\ success' = success /\ landed' = landed
    BY DEF partition
  <1> QED
    BY <1>1, <1>2, <1>3, LandingsOfOne DEF Landings

\* A step of the export or of Silver.
LEMMA LandingsOfOthers ==
    ASSUME Inv, Landings, Kept(branch, branch'), UNCHANGED << partition, landed >>,
           \A wh \in Wh : branch'[wh] = branch[wh] \/ branch[wh] = Still,
           used'.crash \in Nat, used.crash <= used'.crash
    PROVE  Landings'
  <1>1. used.crash \in Nat
    BY DEF Inv, Shapes
  <1>2. data' = data /\ manifest' = manifest /\ success' = success /\ landed' = landed
    BY DEF partition
  <1>3. ASSUME NEW w \in Wh
        PROVE  LandingAt(branch'[w].pc, data'[w], manifest'[w], success'[w], landed'[w],
                         used'.crash)
    <2>1. LandingAt(branch[w].pc, data[w], manifest[w], success[w], landed[w], used.crash)
      BY DEF Landings
    <2>2. CASE branch'[w] = branch[w]
      BY <1>1, <1>2, <2>1, <2>2, LandingStays
    <2>3. CASE branch'[w] # branch[w]
      <3>1. branch'[w].pc = "gate" /\ branch[w].pc = "idle"
        BY <2>3, StillIsVerb DEF Kept
      <3> QED
        BY <1>1, <1>2, <2>1, <3>1, LandingStays DEF Landing
    <2> QED
      BY <2>2, <2>3
  <1> QED
    BY <1>2, <1>3, Zenon DEF Landings, LandingAt

\* The verbs before the landing: the partition may move, the bucket does not.
LEMMA EarlyVerbsKeepLandings ==
    ASSUME Inv, Landings, NEW wh \in Wh,
           \/ Gate(wh) \/ Open(wh) \/ ReadFile(wh) \/ Generate(wh)
           \/ WriteData(wh) \/ WriteManifest(wh) \/ Mark(wh)
    PROVE  Landings'
  <1>1. /\ branch = [w \in Wh |-> branch[w]] /\ data = [w \in Wh |-> data[w]]
        /\ manifest = [w \in Wh |-> manifest[w]] /\ success \in [Wh -> BOOLEAN]
        /\ used.crash \in Nat /\ Verb(branch[wh])
    BY DEF Inv, Shapes
  <1>2. UNCHANGED << landed, used >> /\ branch[wh].pc \notin Landing
    BY DEF Gate, Open, ReadFile, Generate, WriteData, WriteManifest, Mark, Landing
  <1>3. PICK pc : Moves(wh, pc) /\ pc \notin Landing
    <2>1. CASE Ends(wh)
      BY <2>1, EndsMoves DEF Landing
    <2>2. ASSUME NEW pc \in Pcs \ Landing, To(wh, pc)
          PROVE  Moves(wh, pc) /\ pc \notin Landing
      BY <2>2, ToMoves
    <2>3. CASE Gate(wh) \/ Open(wh) \/ WriteData(wh) \/ WriteManifest(wh)
      BY <2>1, <2>2, <2>3 DEF Gate, Open, WriteData, WriteManifest, Pcs, Landing
    <2>4. ASSUME NEW e, branch' = [branch EXCEPT ![wh] = e], e.pc \notin Landing
          PROVE  Moves(wh, e.pc) /\ e.pc \notin Landing
      BY <1>1, <2>4 DEF Moves
    <2>5. CASE ReadFile(wh) /\ ~Ends(wh)
      <3>1. PICK r : branch' = [branch EXCEPT ![wh] = [branch[wh] EXCEPT !.read = r]]
        BY <2>5 DEF ReadFile
      <3>2. [branch[wh] EXCEPT !.read = r].pc = branch[wh].pc
        BY <1>1 DEF Verb
      <3> QED
        BY <1>2, <2>4, <3>1, <3>2
    <2>6. CASE Mark(wh) /\ ~Ends(wh)
      <3>1. branch' = [branch EXCEPT ![wh] = [branch[wh] EXCEPT !.pc = "reread", !.made = None]]
        BY <2>6, Zenon DEF Mark
      <3>2. [branch[wh] EXCEPT !.pc = "reread", !.made = None].pc = "reread"
        BY <1>1 DEF Verb
      <3> QED
        BY <2>4, <3>1, <3>2 DEF Landing
    <2>7. CASE Generate(wh) /\ ~Ends(wh)
      <3>1. PICK m : branch' = [branch EXCEPT ![wh].pc = "data", ![wh].read = << >>,
                                              ![wh].made = m]
        BY <2>7, Zenon DEF Generate
      <3>2. PICK e : e = [branch[wh] EXCEPT !.pc = "data", !.read = << >>, !.made = m]
        OBVIOUS
      <3>3. branch' = [branch EXCEPT ![wh] = e]
        BY <1>1, <3>1, <3>2
      <3>4. e.pc = "data"
        BY <1>1, <3>2 DEF Verb
      <3> QED
        BY <2>4, <3>3, <3>4 DEF Landing
    <2> QED
      BY <2>1, <2>3, <2>5, <2>6, <2>7, Zenon
  <1>4. \A w \in Wh \ {wh} : /\ data'[w] = data[w] /\ manifest'[w] = manifest[w]
                             /\ success'[w] = success[w] /\ landed'[w] = landed[w]
    <2>1. CASE Gate(wh) \/ Open(wh) \/ ReadFile(wh) \/ Generate(wh)
      BY <1>2, <2>1 DEF Gate, Open, ReadFile, Generate, partition
    <2>2. CASE WriteData(wh) \/ WriteManifest(wh) \/ Mark(wh)
      BY <1>1, <1>2, <2>2 DEF WriteData, WriteManifest, Mark
    <2> QED
      BY <2>1, <2>2
  <1>5. LandingAt(pc, data'[wh], manifest'[wh], success'[wh], landed'[wh], used'.crash)
    <2>1. LandingAt(branch[wh].pc, data[wh], manifest[wh], success[wh], landed[wh], used.crash)
      BY DEF Landings
    <2>2. landed'[wh] = landed[wh] /\ used'.crash = used.crash
      BY <1>2
    <2> QED
      BY <1>2, <1>3, <2>1, <2>2, LandingNotYet
  <1>6. landed' = [w \in Wh |-> landed'[w]]
    BY <1>2 DEF Landings
  <1> QED
    BY <1>1, <1>2, <1>3, <1>4, <1>5, <1>6, LandingsOfOne

\* What is judged whole begins to land.
LEMMA JudgeKeepsLandings ==
    ASSUME Inv, Landings, NEW wh \in Wh, Judge(wh)
    PROVE  Landings'
  <1>1. /\ branch = [w \in Wh |-> branch[w]] /\ used.crash \in Nat /\ Verb(branch[wh])
        /\ UNCHANGED << partition, landed, used >> /\ branch[wh].pc = "reread"
    BY DEF Inv, Shapes, Judge
  <1>2. CASE Ends(wh)
    BY <1>1, <1>2, EndsMoves, LandingsOfVerb DEF Landing
  <1>3. CASE ~Ends(wh)
    <2>1. /\ branch' = [branch EXCEPT ![wh] = [branch[wh] EXCEPT !.pc = "land", !.read = << >>]]
          /\ Accepts(wh, branch[wh].read[1], branch[wh].read[2], branch[wh].read[3])
      BY <1>3, Zenon DEF Judge
    <2>2. success[wh] /\ manifest[wh] # None /\ data[wh] = manifest[wh].data
      BY <2>1, Zenon DEF Accepts, Intact
    <2>3. [branch[wh] EXCEPT !.pc = "land", !.read = << >>].pc = "land"
      BY <1>1 DEF Verb
    <2>4. Moves(wh, "land")
      BY <1>1, <2>1, <2>3 DEF Moves
    <2>5. LandingAt("land", data[wh], manifest[wh], success[wh], landed[wh], used.crash)
      BY <1>1, <2>2 DEF Landings, LandingAt, Landing
    <2>6. /\ data' = data /\ manifest' = manifest /\ success' = success /\ landed' = landed
          /\ used' = used
      BY <1>1 DEF partition
    <2> QED
      BY <1>1, <2>4, <2>5, <2>6, LandingsOfOne DEF Landings
  <1> QED
    BY <1>2, <1>3

\* Object by object.
LEMMA LandKeepsLandings ==
    ASSUME Inv, Landings, NEW wh \in Wh,
           LandData(wh) \/ LandManifest(wh) \/ LandMark(wh) \/ VerifyLanding(wh)
    PROVE  Landings'
  <1>1. /\ used.crash \in Nat /\ landed = [w \in Wh |-> landed[w]]
        /\ LandingAt(branch[wh].pc, data[wh], manifest[wh], success[wh], landed[wh], used.crash)
        /\ UNCHANGED << data, manifest, success, used >>
    BY DEF Inv, Shapes, Landings, LandData, LandManifest, LandMark, VerifyLanding, partition
  <1>0. ASSUME NEW pc, Moves(wh, pc), landed' = [w \in Wh |-> landed'[w]],
               \A w \in Wh \ {wh} : landed'[w] = landed[w],
               LandingAt(pc, data[wh], manifest[wh], success[wh], landed'[wh], used.crash)
        PROVE  Landings'
    <2>1. used'.crash = used.crash /\ used.crash <= used'.crash /\ used'.crash \in Nat
      BY <1>1
    <2>2. LandingAt(pc, data'[wh], manifest'[wh], success'[wh], landed'[wh], used'.crash)
      BY <1>0, <1>1
    <2> QED
      BY <1>0, <1>1, <2>1, <2>2, LandingsOfOne
  <1>2. CASE VerifyLanding(wh)
    BY <1>1, <1>2, EndsMoves, LandingsOfVerb DEF VerifyLanding, Landing
  <1>3. Intact(wh) \/ ~LandData(wh)
    BY <1>1 DEF LandingAt, LandData, Intact, Landing
  <1>4. CASE LandData(wh)
    <2>1. landed' = [landed EXCEPT ![wh].data = data[wh]] /\ Moves(wh, "land_manifest")
      BY <1>3, <1>4, ToMoves DEF LandData
    <2>2. /\ landed'[wh] = [landed[wh] EXCEPT !.data = data[wh]]
          /\ landed' = [w \in Wh |-> landed'[w]]
          /\ \A w \in Wh \ {wh} : landed'[w] = landed[w]
      BY <1>1, <2>1
    <2>3. landed'[wh] = [data |-> data[wh], manifest |-> landed[wh].manifest,
                         success |-> landed[wh].success]
      BY <1>1, <2>2 DEF LandingAt
    <2>4. LandingAt("land_manifest", data[wh], manifest[wh], success[wh], landed'[wh], used.crash)
      BY <1>1, <1>4, <2>3 DEF LandingAt, LandData, Landing
    <2> QED
      BY <1>0, <2>1, <2>2, <2>4
  <1>5. CASE LandManifest(wh)
    <2>1. landed' = [landed EXCEPT ![wh].manifest = manifest[wh]] /\ Moves(wh, "land_mark")
      BY <1>5, ToMoves DEF LandManifest
    <2>2. /\ landed'[wh] = [landed[wh] EXCEPT !.manifest = manifest[wh]]
          /\ landed' = [w \in Wh |-> landed'[w]]
          /\ \A w \in Wh \ {wh} : landed'[w] = landed[w]
      BY <1>1, <2>1
    <2>3. landed'[wh] = [data |-> landed[wh].data, manifest |-> manifest[wh],
                         success |-> landed[wh].success]
      BY <1>1, <2>2 DEF LandingAt
    <2>4. LandingAt("land_mark", data[wh], manifest[wh], success[wh], landed'[wh], used.crash)
      BY <1>1, <1>5, <2>3 DEF LandingAt, LandManifest, Landing
    <2> QED
      BY <1>0, <2>1, <2>2, <2>4
  <1>6. CASE LandMark(wh)
    <2>1. landed' = [landed EXCEPT ![wh].success = TRUE] /\ Moves(wh, "verify")
      BY <1>6, ToMoves DEF LandMark
    <2>2. /\ landed'[wh] = [landed[wh] EXCEPT !.success = TRUE]
          /\ landed' = [w \in Wh |-> landed'[w]]
          /\ \A w \in Wh \ {wh} : landed'[w] = landed[w]
      BY <1>1, <2>1
    <2>3. landed'[wh] = [data |-> landed[wh].data, manifest |-> landed[wh].manifest,
                         success |-> TRUE]
      BY <1>1, <2>2 DEF LandingAt
    <2>4. LandingAt("verify", data[wh], manifest[wh], success[wh], landed'[wh], used.crash)
      BY <1>1, <1>6, <2>3 DEF LandingAt, LandMark, Landing
    <2> QED
      BY <1>0, <2>1, <2>2, <2>4
  <1> QED
    BY <1>2, <1>4, <1>5, <1>6

LEMMA KillKeepsLandings ==
    ASSUME Inv, Landings, NEW wh \in Wh, Kill(wh)
    PROVE  Landings'
  <1>1. used.crash \in Nat /\ used'.crash = used.crash + 1 /\ UNCHANGED << partition, landed >>
    BY DEF Inv, Shapes, Kill, Spend
  <1>2. Moves(wh, "idle")
    BY EndsMoves DEF Kill
  <1> QED
    BY <1>1, <1>2, LandingsOfVerb DEF Landing

LEMMA StartsKeepLandings ==
    ASSUME Inv, Landings, NEW wh \in Wh, NEW overwrite, NEW count,
           StartValidate(wh) \/ StartExtract(wh, overwrite, count)
    PROVE  Landings'
  <1>1. /\ used.crash \in Nat /\ used'.crash = used.crash /\ UNCHANGED << partition, landed >>
        /\ branch[wh] = Still /\ branch = [w \in Wh |-> branch[w]]
    BY DEF Inv, Shapes, StartValidate, StartExtract, Spend
  <1>2. PICK pc : Moves(wh, pc) /\ pc \notin Landing
    <2>1. CASE StartValidate(wh)
      <3>1. Moves(wh, "reread")
        BY <1>1, <2>1 DEF StartValidate, Moves, Still
      <3> QED
        BY <3>1 DEF Landing
    <2>2. CASE StartExtract(wh, overwrite, count)
      <3>1. Moves(wh, "extract")
        BY <1>1, <2>2 DEF StartExtract, Moves, Still
      <3> QED
        BY <3>1 DEF Landing
    <2> QED
      BY <2>1, <2>2
  <1>3. branch[wh].pc = "idle"
    BY <1>1, StillIsVerb
  <1> QED
    BY <1>1, <1>2, <1>3, LandingsOfVerb

\* An export that ends starts branches, and only those at rest.
LEMMA StartedWereStill ==
    ASSUME Inv, NEW ok, ExportEnds(ok)
    PROVE  \A wh \in Wh : branch'[wh] = branch[wh] \/ branch[wh] = Still
  BY DEF Inv, Shapes, ExportEnds

LEMMA ExportKeepsLandings ==
    ASSUME Inv, Landings, Change \/ ExportStep \/ KillExport
    PROVE  Landings'
  <1>1. /\ UNCHANGED << partition, landed >>
        /\ UNCHANGED branch \/ \E ok \in BOOLEAN : ExportEnds(ok)
    BY DEF Change, ExportStep, KillExport, StartExport, QueryCandidates, QueryWeights,
           QueryAges, WriteFile, RefuseExport
  <1>2. used'.crash \in Nat /\ used.crash <= used'.crash
    <2>1. used \in Kinds
      BY DEF Inv, Shapes, Kinds
    <2>2. UNCHANGED used \/ \E what \in {"change", "export", "crash"}, n \in Nat : Spend(what, n)
      BY CustomerAssumption DEF Change, ExportStep, KillExport, StartExport, QueryCandidates,
           QueryWeights, QueryAges, WriteFile
    <2> QED
      BY <2>1, <2>2 DEF Kinds, Spend
  <1>3. /\ Kept(branch, branch')
        /\ \A wh \in Wh : branch'[wh] = branch[wh] \/ branch[wh] = Still
    BY <1>1, SameVerbs, ExportEndsKeeps, StartedWereStill
  <1> QED
    BY <1>1, <1>2, <1>3, LandingsOfOthers

\* Where the landing of a base stands says what of it is in the bucket (land.py).
LEMMA LandingsHold == Spec => []Landings
  <1>1. Init => Landings
    <2> SUFFICES ASSUME Init
                 PROVE  Landings
      OBVIOUS
    <2>1. ASSUME NEW wh \in Wh
          PROVE  /\ branch[wh].pc = "idle"
                 /\ landed[wh] = [data |-> None, manifest |-> None, success |-> FALSE]
      BY StillIsVerb DEF Init
    <2> QED
      BY <2>1 DEF Init, Landings, LandingAt, Landing
  <1>2. Inv /\ Landings /\ [Next]_vars => Landings'
    <2> SUFFICES ASSUME Inv, Landings, [Next]_vars
                 PROVE  Landings'
      OBVIOUS
    <2>1. CASE Change \/ ExportStep \/ KillExport
      BY <2>1, ExportKeepsLandings
    <2>2. ASSUME NEW wh \in Wh, BranchStep(wh)
          PROVE  Landings'
      BY <2>2, EarlyVerbsKeepLandings, JudgeKeepsLandings, LandKeepsLandings DEF BranchStep
    <2>3. ASSUME NEW wh \in Wh, Kill(wh)
          PROVE  Landings'
      BY <2>3, KillKeepsLandings
    <2>4. ASSUME NEW wh \in Wh, NEW overwrite, NEW count,
                 StartValidate(wh) \/ StartExtract(wh, overwrite, count)
          PROVE  Landings'
      BY <2>4, StartsKeepLandings
    <2>5. CASE UNCHANGED << branch, partition, landed, used >>
      BY <2>5 DEF Landings, LandingAt, partition
    <2>6. ASSUME NEW overwrite, StartRun(overwrite) \/ EndRun
          PROVE  Landings'
      BY <2>5, <2>6 DEF StartRun, EndRun
    <2>7. CASE UNCHANGED vars
      BY <2>5, <2>7 DEF vars
    <2> QED
      BY <2>1, <2>2, <2>3, <2>4, <2>6, <2>7 DEF Next
  <1> QED
    BY <1>1, <1>2, InvariantHolds, PTL DEF Spec

\* The files of one export cover one another though Silver moved between its queries,
\* and no adult age drops out of the draw (customers_reference.py).
THEOREM ReferenceAlwaysCovers == Spec => []ReferenceCovers
  <1>1. Inv /\ Landings => ReferenceCovers
    <2> SUFFICES ASSUME Inv, Landings
                 PROVE  ReferenceCovers
      OBVIOUS
    <2>1. /\ silver.area \in DOMAIN Area /\ silver.callejero \in DOMAIN Callejero
          /\ silver.population \in DOMAIN Population /\ silver.pyramid \in DOMAIN Pyramid
          /\ silver.minAge \in MinAge
          /\ exp.pc \in {"idle", "candidates", "weights", "ages", "write"}
          /\ dag.phase \in {"idle", "export", "branches"}
          /\ \A wh \in Wh : success[wh] \in BOOLEAN
      BY DEF Inv, Shapes
    <2>2. \A what \in DOMAIN used : used[what] \in Nat
      BY DEF Inv, Shapes
    <2>3. \A wh \in Wh : /\ branch[wh].pc \in {"idle", "gate", "extract", "load", "data",
                                               "manifest", "mark", "reread", "land",
                                               "land_manifest", "land_mark", "verify"}
                         /\ Len(branch[wh].read) \in 0 .. 3
      <3>1. \A wh \in Wh : branch[wh].pc \in Pcs /\ Len(branch[wh].read) \in 0 .. 3
        BY Zenon DEF Inv, Verb
      <3> QED
        BY <3>1 DEF Pcs, Landing
    <2>4. \A wh \in Wh : landed[wh].success \in BOOLEAN
      BY DEF Landings, LandingAt
    <2>5. TypeOK
      BY <2>1, <2>2, <2>3, <2>4, Zenon DEF TypeOK
    <2> QED
      BY <2>5, Zenon DEF ReferenceCovers, Inv
  <1> QED
    BY <1>1, InvariantHolds, LandingsHold, PTL

\* Customers live at addresses that exist and are no minors, a base is accepted while
\* the files it was drawn from are in place; a landing that gets to its end is exact,
\* and only one that died on the way leaves two bases mixed under a mark
\* (customers_generator.py, validate.py, land.py).
THEOREM BaseIsAlwaysSound == Spec => []BaseIsSound
  <1>1. Inv /\ Landings => BaseIsSound
    <2> SUFFICES ASSUME Inv, Landings
                 PROVE  BaseIsSound
      OBVIOUS
    <2>1. ASSUME NEW wh \in Wh, Intact(wh)
          PROVE  /\ Based(wh, manifest[wh]) /\ manifest[wh] # None
                 /\ data[wh] = manifest[wh].data
      BY <2>1, Zenon DEF Inv, BasesAgree, Intact
    <2>2. HomesAreReal
      <3> SUFFICES ASSUME NEW wh \in Wh, Intact(wh)
                   PROVE  LET one == data[wh].one IN
                          /\ \E area \in Range(Area) : << wh, one.municipality >> \in area
                          /\ \E t \in Range(Callejero[manifest[wh].callejero]) :
                               /\ t.municipality = one.municipality /\ t.street = one.street
                               /\ one.number # None =>
                                    /\ t.numbering \in {"odd", "even"}
                                    /\ (one.number % 2 = 1) = (t.numbering = "odd")
                                    /\ one.number \in Min({t.from, t.to}) .. Max({t.from, t.to})
                                    /\ one.number # 0
        BY Zenon DEF HomesAreReal
      <3>1. Homely(wh, manifest[wh]) /\ data[wh] = manifest[wh].data
        BY <2>1 DEF Based
      <3> QED
        BY <3>1, Zenon DEF Homely
    <2>3. NoMinorIsACustomer
      BY <2>1 DEF NoMinorIsACustomer, Based, Homely
    <2>4. AFreshBaseIsAccepted
      <3> SUFFICES ASSUME NEW wh \in Wh, Intact(wh),
                          \A i \in 1 .. 3 : /\ file[Files[i]] # None
                                            /\ file[Files[i]].made = manifest[wh].reference[i]
                   PROVE  Accepts(wh, file.candidates, file.weights, file.ages)
        BY DEF AFreshBaseIsAccepted
      <3>1. PICK m : m = manifest[wh]
        OBVIOUS
      <3>2. Based(wh, m) /\ data[wh] = m.data
        BY <2>1, <3>1
      <3>3. \A i \in 1 .. 3 : DrawnFrom(i, wh, m, file[Files[i]])
        BY <3>1, <3>2, FileIsKnown DEF Based, Agrees
      <3>4. /\ DrawnFrom(1, wh, m, file.candidates) /\ DrawnFrom(2, wh, m, file.weights)
            /\ DrawnFrom(3, wh, m, file.ages)
        BY <3>3, FilesAre
      <3>5. m.data.one.age >= file.ages.minAge
        BY <3>2, <3>4 DEF Based, Homely, DrawnFrom
      <3>6. Coherent(wh, m.data.one, file.candidates, file.weights, file.ages)
        BY <3>4, <3>5 DEF Coherent, DrawnFrom
      <3>7. m.callejero = file.candidates.date
        BY <3>4 DEF DrawnFrom
      <3> QED
        BY <3>1, <3>2, <3>6, <3>7, Zenon DEF Accepts
    <2>5. LandingsEndVerified
      BY DEF LandingsEndVerified, Landings, LandingAt, Landing, Verified
    <2>6. MixturesHaveACause
      BY DEF MixturesHaveACause, Landings, LandingAt
    <2> QED
      BY <2>2, <2>3, <2>4, <2>5, <2>6 DEF BaseIsSound
  <1> QED
    BY <1>1, InvariantHolds, LandingsHold, PTL

(***************************************************************************)
(* OrderCalendar.                                                          *)
(*                                                                         *)
(* A local day is an interval of UTC, moved by the offset the clock has on *)
(* it: two offsets on the night of a change, one in the opening hours of   *)
(* any day (OneOffsetADay).  With one offset the slot, the opening and the *)
(* closing of a delivery day are numbers, and the checks of validate.py    *)
(* are inequalities between them (OnADay, SlotNumbers).  The night before  *)
(* the slot leaves room for every draw (NightIsLeft), the hours after it   *)
(* for a late delivery (DeliveredOnTheDay).  The cadence is arithmetic of  *)
(* weeks: every stretch of k weeks has one day of a weekday and a phase.   *)
(***************************************************************************)

(***************************************************************************)
(* Dates and cadences.                                                     *)
(***************************************************************************)
\* An instant between two midnights is of the date of the first.
LEMMA DateIs ==
    ASSUME NEW e \in Int, NEW t \in Int, e * FullDay <= t, t < (e + 1) * FullDay
    PROVE  DateOf(t) = e /\ t % FullDay = t - e * FullDay
  BY DEF DateOf, FullDay, Hour, Minute

LEMMA DateBounds ==
    ASSUME NEW t \in Int
    PROVE  /\ DateOf(t) \in Int /\ t % FullDay \in Int
           /\ DateOf(t) * FullDay <= t /\ t < (DateOf(t) + 1) * FullDay
           /\ t % FullDay = t - DateOf(t) * FullDay
  <1>1. /\ t \div 2880 \in Int /\ t % 2880 \in Int
        /\ (t \div 2880) * 2880 <= t /\ t < (t \div 2880 + 1) * 2880
        /\ t % 2880 = t - (t \div 2880) * 2880
    OBVIOUS
  <1>2. FullDay = 2880
    BY DEF FullDay, Hour, Minute
  <1> QED
    BY <1>1, <1>2 DEF DateOf

LEMMA HourIs ==
    ASSUME NEW e \in Int, NEW h \in 0 .. 23
    PROVE  HourOf(e * FullDay + h * Hour) = h
  BY DEF HourOf, FullDay, Hour, Minute

\* Two days in a row are of two weekdays.
LEMMA WeekdaysAlternate ==
    ASSUME NEW d \in Int
    PROVE  Weekday(d) # Weekday(d + 1)
  BY DEF Weekday

LEMMA DayOfWeek ==
    ASSUME NEW f \in Int
    PROVE  /\ f \div 7 \in Int /\ f % 7 \in 0 .. 6 /\ f = 7 * (f \div 7) + (f % 7)
           /\ \A q \in Int, r \in 0 .. 6 : f = 7 * q + r => f \div 7 = q /\ f % 7 = r
  OBVIOUS

LEMMA Multiples ==
    ASSUME NEW k \in {1, 2, 3, 4}, NEW n \in Int
    PROVE  /\ n \div k \in Int /\ n = k * (n \div k) + (n % k)
           /\ (k * n) % k = 0
  <1>1. CASE k = 1
    BY <1>1
  <1>2. CASE k = 2
    BY <1>2
  <1>3. CASE k = 3
    BY <1>3
  <1>4. CASE k = 4
    BY <1>4
  <1> QED
    BY <1>1, <1>2, <1>3, <1>4, Zenon

LEMMA Window ==
    ASSUME NEW k \in {1, 2, 3, 4}, NEW n \in Int
    PROVE  \E y \in Int, x \in 0 .. 7 * k - 1 : n = 7 * k * y + x
  <1>1. CASE k = 1
    BY <1>1, n = 7 * (n \div 7) + (n % 7)
  <1>2. CASE k = 2
    BY <1>2, n = 14 * (n \div 14) + (n % 14)
  <1>3. CASE k = 3
    BY <1>3, n = 21 * (n \div 21) + (n % 21)
  <1>4. CASE k = 4
    BY <1>4, n = 28 * (n \div 28) + (n % 28)
  <1> QED
    BY <1>1, <1>2, <1>3, <1>4, Zenon

\* The days of a customer are those of one remainder.
OfWeek(f, k, w, p) == (f % 7) + 1 = w /\ (f \div 7 - p) % k = 0
OfRemainder(f, k, w, p) == \E m \in Int : f = 7 * (k * m + p) + (w - 1)

LEMMA ScheduledDays ==
    ASSUME NEW k \in {1, 2, 3, 4}, NEW w \in 1 .. 7, NEW p \in Int, NEW f \in Int
    PROVE  OfWeek(f, k, w, p) <=> OfRemainder(f, k, w, p)
  <1>1. ASSUME (f % 7) + 1 = w, (f \div 7 - p) % k = 0
        PROVE  \E m \in Int : f = 7 * (k * m + p) + (w - 1)
    <2>1. f \div 7 \in Int /\ f = 7 * (f \div 7) + (w - 1)
      BY <1>1, DayOfWeek
    <2>2. PICK m \in Int : f \div 7 - p = k * m
      BY <1>1, <2>1, Multiples
    <2>3. k * m \in Int
      OBVIOUS
    <2>4. f = 7 * (k * m + p) + (w - 1)
      BY <2>1, <2>2, <2>3
    <2> QED
      BY <2>4
  <1>2. ASSUME NEW m \in Int, f = 7 * (k * m + p) + (w - 1)
        PROVE  (f % 7) + 1 = w /\ (f \div 7 - p) % k = 0
    <2>1. k * m \in Int /\ (k * m) % k = 0
      BY Multiples
    <2>2. f \div 7 = k * m + p /\ f % 7 = w - 1
      BY <1>2, <2>1, DayOfWeek
    <2>3. f \div 7 - p = k * m
      BY <2>1, <2>2
    <2> QED
      BY <2>1, <2>2, <2>3
  <1> QED
    BY <1>1, <1>2, Zenon DEF OfWeek, OfRemainder

\* The one day of a cadence, in whichever window of its length.
LEMMA OncePerCadence ==
    ASSUME NEW d \in Nat, NEW s, IsSchedule(s)
    PROVE  \E e \in d .. d + s[1] - 1 :
             /\ is_scheduled(s, e)
             /\ \A f \in d .. d + s[1] - 1 : is_scheduled(s, f) => f = e
  <1>1. PICK k \in {1, 2, 3, 4}, w \in 1 .. 7, p \in Int :
          s[1] = 7 * k /\ s[1] \div 7 = k /\ s[2] = w /\ s[3] = p
    BY DEF IsSchedule
  <1>2. \A f \in Int : is_scheduled(s, f) <=> OfRemainder(f, k, w, p)
    <2> TAKE f \in Int
    <2>1. is_scheduled(s, f) <=> OfWeek(f, k, w, p)
      BY <1>1, Zenon DEF is_scheduled, Weekday, OfWeek
    <2>2. OfWeek(f, k, w, p) <=> OfRemainder(f, k, w, p)
      BY ScheduledDays, Zenon
    <2> QED
      BY <2>1, <2>2, Zenon
  <1>3. PICK n \in Int : n = w - 1 + 7 * p - d
    OBVIOUS
  <1>4a. PICK y \in Int, x \in 0 .. 7 * k - 1 : n = 7 * k * y + x
    BY Window
  <1> DEFINE e == d + x
  <1>4. e \in d .. d + 7 * k - 1 /\ e = 7 * (k * (0 - y) + p) + (w - 1)
    BY <1>3, <1>4a
  <1>5. is_scheduled(s, e)
    <2>1. 0 - y \in Int /\ e \in Int
      OBVIOUS
    <2> HIDE DEF e, is_scheduled
    <2> QED
      BY <1>2, <1>4, <2>1 DEF OfRemainder
  <1>6. ASSUME NEW f \in d .. d + 7 * k - 1, is_scheduled(s, f)
        PROVE  f = e
    <2>1. PICK m \in Int : f = 7 * (k * m + p) + (w - 1)
      <3> HIDE DEF is_scheduled
      <3> QED
        BY <1>2, <1>6 DEF OfRemainder
    <2>2. f - e = 7 * (k * (m + y))
      <3>1. f = 7 * (k * m + p) + (w - 1) /\ e = w - 1 + 7 * p - 7 * k * y
        BY <2>1, <1>3, <1>4a
      <3>2. k * (m + y) = k * m + k * y /\ 7 * k * y = 7 * (k * y)
        OBVIOUS
      <3>3. k * m \in Int /\ k * y \in Int
        OBVIOUS
      <3> HIDE DEF e
      <3> QED
        BY <3>1, <3>2, <3>3
    <2>3. f - e > 0 - 7 * k /\ f - e < 7 * k
      BY <1>4
    <2>4. m + y = 0
      <3>1. PICK z \in Int : z = m + y
        OBVIOUS
      <3>2. 7 * (k * z) > 0 - 7 * k /\ 7 * (k * z) < 7 * k
        BY <2>2, <2>3, <3>1
      <3>3. CASE z >= 1
        <4>1. k * z >= k
          BY <3>3
        <4> QED
          BY <3>2, <4>1
      <3>4. CASE z <= 0 - 1
        <4>1. k * z <= 0 - k
          BY <3>4
        <4> QED
          BY <3>2, <4>1
      <3> QED
        BY <3>1, <3>3, <3>4
    <2> QED
      BY <2>2, <2>4
  <1> HIDE DEF e, is_scheduled
  <1> QED
    BY <1>1, <1>4, <1>5, <1>6

LEMMA CadenceIsKept ==
    ASSUME NEW d \in Nat, NEW s, IsSchedule(s)
    PROVE  Cardinality({e \in d .. d + s[1] - 1 : is_scheduled(s, e)}) = 1
  <1>1. PICK e \in d .. d + s[1] - 1 :
          /\ is_scheduled(s, e)
          /\ \A f \in d .. d + s[1] - 1 : is_scheduled(s, f) => f = e
    BY OncePerCadence
  <1>2. {f \in d .. d + s[1] - 1 : is_scheduled(s, f)} = {e}
    BY <1>1
  <1> QED
    BY <1>2, FS_Singleton

(***************************************************************************)
(* What _lifecycle draws from.                                             *)
(***************************************************************************)
\* The n-th operating day after a day.
IsNth(d, n, closed, e) ==
    /\ e \in d + 1 .. d + 2 * n + 1
    /\ Weekday(e) # closed
    /\ Cardinality({o \in d + 1 .. e : Weekday(o) # closed}) = n

\* The first one: tomorrow, or the day after if tomorrow is closed.
LEMMA FirstOperatingDay ==
    ASSUME NEW d \in Nat, NEW closed
    PROVE  \E e \in d + 1 .. d + 2 : IsNth(d, 1, closed, e)
  <1> HIDE DEF Weekday
  <1>1. CASE Weekday(d + 1) # closed
    <2>1. {o \in d + 1 .. d + 1 : Weekday(o) # closed} = {d + 1}
      BY <1>1
    <2>2. IsNth(d, 1, closed, d + 1)
      BY <1>1, <2>1, FS_Singleton DEF IsNth
    <2> QED
      BY <2>2
  <1>2. CASE Weekday(d + 1) = closed
    <2>1. Weekday(d + 2) # closed
      <3>1. d + 1 \in Int /\ d + 2 = (d + 1) + 1
        OBVIOUS
      <3> QED
        BY <1>2, <3>1, WeekdaysAlternate
    <2>2. {o \in d + 1 .. d + 2 : Weekday(o) # closed} = {d + 2}
      BY <1>2, <2>1
    <2>3. IsNth(d, 1, closed, d + 2)
      BY <2>1, <2>2, FS_Singleton DEF IsNth
    <2> QED
      BY <2>3
  <1> QED
    BY <1>1, <1>2

\* After each of them another one follows within two days.
LEMMA NextOperatingDay ==
    ASSUME NEW d \in Nat, NEW n \in Nat, NEW closed, NEW e \in Nat, e <= d + 2 * n,
           IsNth(d, n, closed, e)
    PROVE  \E f \in Nat : f <= d + 2 * (n + 1) /\ IsNth(d, n + 1, closed, f)
  <1> DEFINE S == {o \in d + 1 .. e : Weekday(o) # closed}
  <1>1. IsFiniteSet(S)
    <2>1. d + 1 \in Int /\ e \in Int
      OBVIOUS
    <2>2. IsFiniteSet(d + 1 .. e)
      BY <2>1, FS_Interval
    <2> QED
      BY <2>2, FS_Subset
  <1>2. PICK f \in {e + 1, e + 2} :
          /\ Weekday(f) # closed
          /\ \A o \in e + 1 .. f : Weekday(o) # closed => o = f
    <2>1. CASE Weekday(e + 1) # closed
      BY <2>1
    <2>2. CASE Weekday(e + 1) = closed
      <3>1. Weekday(e + 2) # closed
        <4>1. e + 1 \in Int /\ e + 2 = (e + 1) + 1
          OBVIOUS
        <4> QED
          BY <2>2, <4>1, WeekdaysAlternate
      <3> HIDE DEF Weekday
      <3> QED
        BY <2>2, <3>1
    <2> QED
      BY <2>1, <2>2
  <1>3. {o \in d + 1 .. f : Weekday(o) # closed} = S \union {f}
    <2>1. e \in d + 1 .. d + 2 * n + 1
      BY DEF IsNth
    <2> HIDE DEF Weekday
    <2> QED
      BY <1>2, <2>1
  <1>4. f \notin S
    OBVIOUS
  <1>5. Cardinality(S \union {f}) = n + 1
    <2>1. Cardinality(S) = n
      BY DEF IsNth
    <2> HIDE DEF S
    <2> QED
      BY <1>1, <1>4, <2>1, FS_AddElement
  <1>6. f \in d + 1 .. d + 2 * (n + 1) + 1 /\ f <= d + 2 * (n + 1) /\ f \in Nat
    BY DEF IsNth
  <1> HIDE DEF S
  <1> QED
    BY <1>2, <1>3, <1>5, <1>6 DEF IsNth

\* _delivery_day: the day it counts to is after the order and open.
LEMMA DeliveryDayIsOpen ==
    ASSUME NEW d \in Nat, NEW n \in Nat \ {0}, NEW closed
    PROVE  /\ DeliveryDay(d, n, closed) \in Nat
           /\ DeliveryDay(d, n, closed) > d
           /\ Weekday(DeliveryDay(d, n, closed)) # closed
  <1> DEFINE Has(m) == \E e \in Nat : e <= d + 2 * m /\ IsNth(d, m, closed, e)
             S == {m \in Nat \ {0} : ~Has(m)}
  <1>1. S = {}
    <2> SUFFICES ASSUME S # {}
                 PROVE  FALSE
      OBVIOUS
    <2>1. PICK m \in S : \A x \in S : m <= x
      <3>1. S \in SUBSET Nat
        OBVIOUS
      <3> HIDE DEF S
      <3> QED
        BY <3>1, LeastExists
    <2>2. m # 1
      BY FirstOperatingDay
    <2>3. m - 1 \in Nat /\ m - 1 \notin S /\ m - 1 # 0
      BY <2>1, <2>2
    <2>4. PICK e \in Nat : e <= d + 2 * (m - 1) /\ IsNth(d, m - 1, closed, e)
      BY <2>3
    <2>5. \E f \in Nat : f <= d + 2 * ((m - 1) + 1) /\ IsNth(d, (m - 1) + 1, closed, f)
      BY <2>3, <2>4, NextOperatingDay
    <2>6. (m - 1) + 1 = m
      BY <2>3
    <2> QED
      BY <2>5, <2>6
  <1>2. Has(n)
    BY <1>1
  <1>3. PICK e : IsNth(d, n, closed, e)
    BY <1>2
  <1> HIDE DEF S
  <1>4. \E f \in d + 1 .. d + 2 * n + 1 :
           /\ Weekday(f) # closed
           /\ Cardinality({o \in d + 1 .. f : Weekday(o) # closed}) = n
    BY <1>3, Zenon DEF IsNth
  <1>5. DeliveryDay(d, n, closed) \in d + 1 .. d + 2 * n + 1
        /\ Weekday(DeliveryDay(d, n, closed)) # closed
    <2> HIDE DEF Weekday
    <2> QED
      BY <1>4, Zenon DEF DeliveryDay
  <1> QED
    BY <1>5

\* Some hour of a day has the greatest number.
LEMMA LastHour ==
    ASSUME NEW S \in SUBSET (0 .. 23), S # {}
    PROVE  Max(S) \in S
  <1> DEFINE T == {n \in 0 .. 23 : 23 - n \in S}
  <1>1. T \in SUBSET Nat /\ T # {}
    <2>1. PICK h \in S : TRUE
      OBVIOUS
    <2>2. 23 - h \in 0 .. 23 /\ 23 - (23 - h) = h
      BY <2>1
    <2>3. 23 - h \in T
      BY <2>2
    <2>4. T \in SUBSET Nat
      OBVIOUS
    <2> HIDE DEF T
    <2> QED
      BY <2>3, <2>4
  <1>2. PICK n \in T : \A m \in T : n <= m
    <2> HIDE DEF T
    <2> QED
      BY <1>1, LeastExists
  <1>3. \A y \in S : 23 - n >= y
    <2> TAKE y \in S
    <2>1. 23 - y \in 0 .. 23 /\ 23 - (23 - y) = y
      OBVIOUS
    <2>2. n <= 23 - y
      BY <1>2, <2>1
    <2> QED
      BY <2>2
  <1>4. \E x \in S : \A y \in S : x >= y
    BY <1>2, <1>3
  <1> QED
    BY <1>4, Zenon DEF Max

\* _pick_relative draws one of its keys.
LEMMA DrawnIsAKey ==
    ASSUME NEW keys \in SUBSET (0 .. 23), NEW weight, keys # {}
    PROVE  Drawn(keys, weight) \subseteq keys
  BY LastHour DEF Drawn

(***************************************************************************)
(* The local clock.                                                        *)
(***************************************************************************)
\* A day that is open has one offset from UTC during its opening hours and until it ends.
HasOffset(e, o) ==
    /\ \A utc \in Int :
         e * FullDay + premise.delivery_open_hour * Hour <= utc + o /\ utc + o < (e + 1) * FullDay
           => Local(utc) = utc + o
    /\ \A h \in 0 .. 23 :
         premise.delivery_open_hour <= h => ToUtc(e, h, 0) = e * FullDay + h * Hour - o

LEMMA ClockIsOfNumbers ==
    ASSUME IsClock(clock)
    PROVE  /\ clock.switch \in Int
           /\ clock.before \in Int /\ 0 <= clock.before /\ clock.before <= 1320
           /\ clock.after \in Int /\ 0 <= clock.after /\ clock.after <= 1320
  <1>1. PICK b, a, s, n :
          b = clock.before /\ a = clock.after /\ s = clock.switch /\ n = 11 * Hour
    OBVIOUS
  <1>2. s \in Nat /\ b \in 0 .. n /\ a \in 0 .. n
    BY <1>1, Zenon DEF IsClock
  <1>3. n = 1320
    BY <1>1 DEF Hour, Minute
  <1>4. /\ s \in Int
        /\ b \in Int /\ 0 <= b /\ b <= 1320
        /\ a \in Int /\ 0 <= a /\ a <= 1320
    BY <1>2, <1>3
  <1>5. clock.switch \in Int
    BY <1>1, <1>4, Zenon
  <1>6. clock.before \in Int /\ 0 <= clock.before /\ clock.before <= 1320
    BY <1>1, <1>4, Zenon
  <1>7. clock.after \in Int /\ 0 <= clock.after /\ clock.after <= 1320
    BY <1>1, <1>4
  <1> QED
    BY <1>5, <1>6, <1>7

LEMMA OneMidnight ==
    ASSUME NEW p \in Int, NEW q \in Int, NEW open \in Int, DateOf(p) = DateOf(q),
           p % FullDay <= open, q % FullDay <= open
    PROVE  \E g \in Int : /\ g * FullDay <= p /\ p - g * FullDay <= open
                          /\ g * FullDay <= q /\ q - g * FullDay <= open
  <1>1. PICK g \in Int : g = DateOf(p)
    BY DateBounds
  <1>2. g * FullDay <= p /\ p - g * FullDay <= open
    BY <1>1, DateBounds
  <1>3. g * FullDay <= q /\ q - g * FullDay <= open
    BY <1>1, DateBounds
  <1> QED
    BY <1>2, <1>3

LEMMA MovedOnOneDate ==
    ASSUME MovedAtNight(premise, clock), IsClock(clock), NEW p, NEW q,
           p = clock.switch + clock.before, q = clock.switch + clock.after
    PROVE  /\ p \in Int /\ q \in Int /\ DateOf(p) = DateOf(q)
           /\ p % FullDay <= premise.delivery_open_hour * Hour
           /\ q % FullDay <= premise.delivery_open_hour * Hour
           /\ p % FullDay <= 12 * Hour /\ q % FullDay <= 12 * Hour
  <1>1. p \in Int /\ q \in Int
    BY ClockIsOfNumbers
  <1>2. \A offset \in {clock.before, clock.after} :
         /\ (clock.switch + offset) % FullDay <= premise.delivery_open_hour * Hour
         /\ (clock.switch + offset) % FullDay <= 12 * Hour
    BY Zenon DEF MovedAtNight
  <1>3. DateOf(clock.switch + clock.before) = DateOf(clock.switch + clock.after)
    BY Zenon DEF MovedAtNight
  <1>4. p % FullDay <= premise.delivery_open_hour * Hour /\ p % FullDay <= 12 * Hour
    BY <1>2, Zenon
  <1>5. q % FullDay <= premise.delivery_open_hour * Hour /\ q % FullDay <= 12 * Hour
    BY <1>2, Zenon
  <1> QED
    BY <1>1, <1>3, <1>4, <1>5

LEMMA OneOffsetADay ==
    ASSUME IsClock(clock), MovedAtNight(premise, clock), premise.delivery_open_hour \in Nat,
           NEW e \in Int
    PROVE  \E o \in {clock.before, clock.after} : HasOffset(e, o)
  <1>1. PICK b \in Int, a \in Int, s \in Int :
          b = clock.before /\ a = clock.after /\ s = clock.switch
    BY ClockIsOfNumbers
  <1>2. PICK open \in Int : open = premise.delivery_open_hour * Hour
    BY DEF Hour, Minute
  <1>2a. PICK g \in Int :
          /\ g * FullDay <= s + b /\ s + b - g * FullDay <= open
          /\ g * FullDay <= s + a /\ s + a - g * FullDay <= open
    <2>1. PICK p \in Int, q \in Int : p = s + b /\ q = s + a
      OBVIOUS
    <2>2. DateOf(p) = DateOf(q) /\ p % FullDay <= open /\ q % FullDay <= open
      BY <1>1, <1>2, <2>1, MovedOnOneDate, Zenon
    <2>3. PICK g \in Int : /\ g * FullDay <= p /\ p - g * FullDay <= open
                          /\ g * FullDay <= q /\ q - g * FullDay <= open
      BY <2>2, OneMidnight, Zenon
    <2> QED
      BY <2>1, <2>3 DEF FullDay, Hour, Minute
  <1>3. \A utc : Local(utc) = IF utc < s THEN utc + b ELSE utc + a
    BY <1>1 DEF Local
  <1>4. \A h : ToUtc(e, h, 0) = LET local == e * FullDay + h * Hour + 0
                             IN  IF local - b < s \/ local - a < s THEN local - b ELSE local - a
    BY <1>1 DEF ToUtc
  <1>5. CASE e < g
    <2>1. \A utc \in Int : utc + b < (e + 1) * FullDay => Local(utc) = utc + b
      BY <1>2a, <1>3, <1>5 DEF FullDay, Hour, Minute
    <2>2. \A h \in 0 .. 23 : ToUtc(e, h, 0) = e * FullDay + h * Hour - b
      BY <1>2a, <1>4, <1>5 DEF FullDay, Hour, Minute
    <2> QED
      BY <1>1, <2>1, <2>2 DEF HasOffset
  <1>6. CASE e >= g
    <2>1. \A utc \in Int : e * FullDay + open <= utc + a => Local(utc) = utc + a
      BY <1>2a, <1>3, <1>6 DEF FullDay, Hour, Minute
    <2>2. ASSUME NEW h \in 0 .. 23, open <= h * Hour
          PROVE  ToUtc(e, h, 0) = e * FullDay + h * Hour - a
      <3>1. PICK local \in Int : local = e * FullDay + h * Hour
        BY DEF FullDay, Hour, Minute
      <3>2. ~(local - b < s) /\ ~(local - a < s)
        BY <1>2a, <1>6, <2>2, <3>1 DEF FullDay, Hour, Minute
      <3> QED
        BY <1>4, <3>1, <3>2 DEF FullDay, Hour, Minute
    <2>3. \A h \in 0 .. 23 : premise.delivery_open_hour <= h => open <= h * Hour
      BY <1>2 DEF Hour, Minute
    <2> QED
      BY <1>1, <1>2, <2>1, <2>2, <2>3 DEF HasOffset
  <1> QED
    BY <1>5, <1>6

\* _placement_hours: an order is placed on its day, in UTC and on the local clock.
LEMMA PlacedOnItsDay ==
    ASSUME IsClock(clock), MovedAtNight(premise, clock), NEW d \in Nat,
           NEW hour \in PlacementHours(d), NEW second \in {0, Hour - 1}
    PROVE  /\ ToUtc(d, hour, second) \in Int
           /\ DateOf(ToUtc(d, hour, second)) = d
           /\ DateOf(Local(ToUtc(d, hour, second))) = d
  <1>1. PICK b \in Int, a \in Int, s \in Int :
          b = clock.before /\ a = clock.after /\ s = clock.switch
    BY ClockIsOfNumbers
  <1>2. PICK g \in Int :
          /\ g * FullDay <= s + b /\ s + b - g * FullDay <= 12 * Hour
          /\ g * FullDay <= s + a /\ s + a - g * FullDay <= 12 * Hour
    <2>1. PICK p \in Int, q \in Int : p = s + b /\ q = s + a
      OBVIOUS
    <2>2. DateOf(p) = DateOf(q) /\ p % FullDay <= 12 * Hour /\ q % FullDay <= 12 * Hour
      BY <1>1, <2>1, MovedOnOneDate, Zenon
    <2>3. 12 * Hour \in Int
      BY DEF Hour, Minute
    <2>4. PICK g \in Int : /\ g * FullDay <= p /\ p - g * FullDay <= 12 * Hour
                          /\ g * FullDay <= q /\ q - g * FullDay <= 12 * Hour
      BY <2>2, <2>3, OneMidnight, Zenon
    <2> QED
      BY <2>1, <2>4 DEF FullDay, Hour, Minute
  <1>3. PICK t \in Int, local \in Int :
          /\ t = ToUtc(d, hour, second) /\ local = d * FullDay + hour * Hour + second
          /\ t = IF local - b < s \/ local - a < s THEN local - b ELSE local - a
    BY <1>1 DEF ToUtc, PlacementHours, FullDay, Hour, Minute
  <1>4. d * FullDay <= local /\ local < (d + 1) * FullDay
    BY <1>3 DEF PlacementHours, FullDay, Hour, Minute
  <1>5. Local(t) = IF t < s THEN t + b ELSE t + a
    BY <1>1 DEF Local
  <1>6. PICK u \in Int : u = Local(t) /\ d * FullDay <= u /\ u < (d + 1) * FullDay
    <2>1. CASE local - b < s
      BY <1>3, <1>4, <1>5, <2>1
    <2>2. CASE ~(local - b < s) /\ local - a < s
      <3>1. d = g
        BY <1>2, <1>4, <2>2 DEF FullDay, Hour, Minute
      <3>2. Local(t) = local - b + a
        BY <1>3, <1>5, <2>2
      <3> QED
        BY <1>2, <1>4, <2>2, <3>1, <3>2 DEF FullDay, Hour, Minute
    <2>3. CASE ~(local - b < s) /\ ~(local - a < s)
      BY <1>3, <1>4, <1>5, <2>3
    <2> QED
      BY <2>1, <2>2, <2>3
  <1>7. DateOf(u) = d
    BY <1>6, DateIs
  <1>8. DateOf(ToUtc(d, hour, second)) = d
    BY DEF PlacementHours
  <1> QED
    BY <1>3, <1>6, <1>7, <1>8

\* Noon is such an hour.
LEMMA SomeHourIsOfTheDay ==
    ASSUME IsClock(clock), NEW d \in Nat
    PROVE  PlacementHours(d) # {}
  <1>0. PICK b \in Int, a \in Int, s \in Int :
          b = clock.before /\ a = clock.after /\ s = clock.switch
    BY ClockIsOfNumbers
  <1>1. /\ b = clock.before /\ a = clock.after /\ s = clock.switch
        /\ 0 <= b /\ b <= 1320 /\ 0 <= a /\ a <= 1320
    BY <1>0, ClockIsOfNumbers
  <1>2. ASSUME NEW ticks \in {0, Hour - 1}
        PROVE  DateOf(ToUtc(d, 12, ticks)) = d
    <2>0. ticks \in 0 .. 119
      BY DEF Hour, Minute
    <2>1. PICK t \in Int : t = ToUtc(d, 12, ticks) /\ d * FullDay <= t /\ t < (d + 1) * FullDay
      <3>1. PICK t : t = ToUtc(d, 12, ticks)
        OBVIOUS
      <3>2. LET local == d * FullDay + 12 * Hour + ticks
            IN  t = IF local - b < s \/ local - a < s THEN local - b ELSE local - a
        BY <1>1, <3>1 DEF ToUtc
      <3> QED
        BY <1>1, <2>0, <3>1, <3>2 DEF FullDay, Hour, Minute
    <2> QED
      BY <2>1, DateIs
  <1> QED
    BY <1>2 DEF PlacementHours

(***************************************************************************)
(* The numbers of a table.                                                 *)
(***************************************************************************)
Setup ==
    /\ IsTable(premise) /\ PremisesHold(premise) /\ IsClock(clock) /\ day \in Nat
    /\ MovedAtNight(premise, clock) /\ LeavesANight(premise, clock)

LEMMA SettingIsGiven ==
    ASSUME CalendarTypeOK
    PROVE  /\ IsSchedule(schedule) /\ day \in Nat
           /\ PremisesHold(premise) => Setup
  <1>1. PICK s \in Setting :
          s.premise = premise /\ s.schedule = schedule /\ s.day = day /\ s.clock = clock
    BY Zenon DEF CalendarTypeOK
  <1> QED
    BY <1>1, CalendarAssumption, Zenon DEF Setup

LEMMA Hours ==
    ASSUME Setup
    PROVE  \E open \in Nat, close \in Nat, length \in Nat :
             /\ open = premise.delivery_open_hour /\ close = premise.delivery_close_hour
             /\ length = premise.slot_hours
             /\ open < close /\ close < 24 /\ length >= 1 /\ open + length <= close
  <1>1. PICK open \in Nat, close \in Nat, length \in Nat, late \in Nat :
             /\ open = premise.delivery_open_hour /\ close = premise.delivery_close_hour
             /\ length = premise.slot_hours /\ late = premise.delivery_late_max_minutes
    BY Zenon DEF Setup, IsTable
  <1>2. open < close /\ length >= 1 /\ open + length <= close
    BY <1>1, Zenon DEF Setup, PremisesHold
  <1>3. close * 60 + late < 24 * 60
    BY <1>1, Zenon DEF Setup, LeavesANight
  <1>4. close < 24
    BY <1>3
  <1> QED
    BY <1>1, <1>2, <1>4

LEMMA Pairs ==
    ASSUME Setup,
           NEW pair \in {premise.minutes_to_payment, premise.minutes_to_cancel,
                        premise.minutes_dispatch_before_slot,
                        premise.minutes_picked_before_dispatch,
                        premise.minutes_to_return, premise.basket_lines}
    PROVE  pair[1] \in Nat /\ pair[2] \in Nat /\ pair[1] <= pair[2]
  BY Zenon DEF Setup, IsTable, PremisesHold

\* What is drawn from a pair of minutes is one of its ends.
LEMMA WaitIsBounded ==
    ASSUME NEW pair, pair[1] \in Nat, pair[2] \in Nat, pair[1] <= pair[2],
           NEW wait \in Bounds(pair)
    PROVE  wait \in Nat /\ wait <= 2 * pair[2]
  BY DEF Bounds, Minute

(***************************************************************************)
(* Where the slot lies.                                                    *)
(***************************************************************************)
\* The slot of an order: on an open day e after the order's, o ahead of UTC.
OnADay(e, o) ==
    /\ e \in Nat /\ e > day /\ Weekday(e) # premise.delivery_closed_isoweekday
    /\ o \in Int /\ o \in {clock.before, clock.after} /\ HasOffset(e, o)
    /\ plan.opening = e * FullDay + premise.delivery_open_hour * Hour - o
    /\ \E h \in slot_hours(premise) : plan.start = e * FullDay + h * Hour - o
    /\ plan.end = plan.start + premise.slot_hours * Hour
    /\ plan.lines \in {premise.basket_lines[1], premise.basket_lines[2]}

LEMMA SlotIsOnADay ==
    ASSUME Setup, NEW lead \in premise.slot_lead_days,
           NEW slot \in Drawn(slot_hours(premise), premise.slot_hour_weight), NEW e,
           e = DeliveryDay(day, lead, premise.delivery_closed_isoweekday)
    PROVE  /\ e \in Nat /\ e > day /\ Weekday(e) # premise.delivery_closed_isoweekday
           /\ slot \in slot_hours(premise)
           /\ \E o \in Int :
                /\ o \in {clock.before, clock.after} /\ HasOffset(e, o)
                /\ ToUtc(e, slot, 0) = e * FullDay + slot * Hour - o
                /\ ToUtc(e, premise.delivery_open_hour, 0)
                     = e * FullDay + premise.delivery_open_hour * Hour - o
  <1>1. lead \in Nat \ {0}
    BY DEF Setup, IsTable
  <1>2. e \in Nat /\ e > day /\ Weekday(e) # premise.delivery_closed_isoweekday
    BY <1>1, DeliveryDayIsOpen DEF Setup
  <1>3. PICK open \in Nat, close \in Nat, length \in Nat :
             /\ open = premise.delivery_open_hour /\ close = premise.delivery_close_hour
             /\ length = premise.slot_hours
             /\ open < close /\ close < 24 /\ length >= 1 /\ open + length <= close
    BY Hours
  <1>4. slot_hours(premise) = open .. close - length
    BY <1>3 DEF slot_hours
  <1>5. slot \in slot_hours(premise)
    <2>0. /\ \A h \in open .. close - length : h \in 0 .. 23
          /\ open \in open .. close - length
      BY <1>3
    <2>1. slot_hours(premise) \in SUBSET (0 .. 23) /\ slot_hours(premise) # {}
      BY <1>4, <2>0, Zenon
    <2> QED
      BY <2>1, DrawnIsAKey, Zenon
  <1>6. PICK o \in {clock.before, clock.after} : HasOffset(e, o)
    BY <1>2, <1>3, OneOffsetADay DEF Setup
  <1>7. o \in Int
    BY ClockIsOfNumbers DEF Setup
  <1>8. slot \in 0 .. 23 /\ open <= slot /\ open \in 0 .. 23
    <2>1. slot \in open .. close - length
      BY <1>4, <1>5, Zenon
    <2> QED
      BY <1>3, <2>1
  <1>9. ToUtc(e, slot, 0) = e * FullDay + slot * Hour - o
    BY <1>3, <1>6, <1>8, Zenon DEF HasOffset
  <1>10. ToUtc(e, open, 0) = e * FullDay + open * Hour - o
    <2>1. open <= open
      BY <1>3
    <2> QED
      BY <1>3, <1>6, <1>8, <2>1, Zenon DEF HasOffset
  <1> QED
    BY <1>2, <1>3, <1>5, <1>6, <1>7, <1>9, <1>10, Zenon

\* An instant in the opening hours of a day, or later on it, is of that date.
LEMMA InTheDay ==
    ASSUME NEW e \in Int, NEW o \in Int, HasOffset(e, o), NEW utc \in Int,
           e * FullDay + premise.delivery_open_hour * Hour <= utc + o,
           utc + o < (e + 1) * FullDay, premise.delivery_open_hour \in Nat
    PROVE  /\ Local(utc) = utc + o /\ DateOf(Local(utc)) = e
           /\ Local(utc) % FullDay = utc + o - e * FullDay
  <1>1. Local(utc) = utc + o
    BY Zenon DEF HasOffset
  <1>2. PICK local \in Int : local = utc + o
    OBVIOUS
  <1>3. e * FullDay <= local /\ local < (e + 1) * FullDay
    <2>1. PICK open \in Nat : open = premise.delivery_open_hour
      OBVIOUS
    <2>2. e * FullDay + open * Hour <= local
      BY <1>2, <2>1, Zenon
    <2>3. local < (e + 1) * FullDay
      BY <1>2, Zenon
    <2> QED
      BY <2>2, <2>3 DEF FullDay, Hour, Minute
  <1>4. DateOf(local) = e /\ local % FullDay = local - e * FullDay
    BY <1>3, DateIs
  <1>5. Local(utc) = local
    BY <1>1, <1>2, Zenon
  <1>6. DateOf(Local(utc)) = e
    BY <1>4, <1>5, Zenon
  <1>7. Local(utc) % FullDay = utc + o - e * FullDay
    <2>1. Local(utc) % FullDay = local - e * FullDay
      BY <1>4, <1>5, Zenon
    <2>2. local - e * FullDay = utc + o - e * FullDay
      BY <1>2 DEF FullDay, Hour, Minute
    <2> QED
      BY <2>1, <2>2, Zenon
  <1> QED
    BY <1>1, <1>6, <1>7

\* The numbers of a slot.
LEMMA SlotNumbers ==
    ASSUME Setup, NEW e, NEW o, OnADay(e, o)
    PROVE  \E h \in Nat, open \in Nat, close \in Nat, length \in Nat,
              start \in Int, end \in Int, opening \in Int :
             /\ open = premise.delivery_open_hour /\ close = premise.delivery_close_hour
             /\ length = premise.slot_hours
             /\ start = plan.start /\ end = plan.end /\ opening = plan.opening
             /\ open <= h /\ h + length <= close /\ close < 24 /\ length >= 1
             /\ start = e * FullDay + h * Hour - o /\ end = start + length * Hour
             /\ opening = e * FullDay + open * Hour - o
  <1>1. PICK open \in Nat, close \in Nat, length \in Nat :
             /\ open = premise.delivery_open_hour /\ close = premise.delivery_close_hour
             /\ length = premise.slot_hours
             /\ open < close /\ close < 24 /\ length >= 1 /\ open + length <= close
    BY Hours
  <1>2. e \in Nat /\ o \in Int
    BY DEF OnADay
  <1>3. PICK h \in slot_hours(premise) : plan.start = e * FullDay + h * Hour - o
    BY Zenon DEF OnADay
  <1>4. h \in open .. close - length
    BY <1>1, <1>3, Zenon DEF slot_hours
  <1>5. h \in Nat /\ open <= h /\ h + length <= close
    BY <1>1, <1>4
  <1>6. PICK start \in Int : start = e * FullDay + h * Hour - o
    BY <1>2, <1>5 DEF FullDay, Hour, Minute
  <1>7. PICK end \in Int : end = start + length * Hour
    BY <1>1 DEF Hour, Minute
  <1>8. PICK opening \in Int : opening = e * FullDay + open * Hour - o
    BY <1>1, <1>2 DEF FullDay, Hour, Minute
  <1>9. start = plan.start
    BY <1>3, <1>6, Zenon
  <1>10. end = plan.end
    BY <1>1, <1>7, <1>9, Zenon DEF OnADay
  <1>11. opening = plan.opening
    BY <1>1, <1>8, Zenon DEF OnADay
  <1> QED
    BY <1>1, <1>5, <1>6, <1>7, <1>8, <1>9, <1>10, <1>11, Zenon

\* _check_calendar, of the slot alone.
LEMMA SlotIsInTheCalendar ==
    ASSUME Setup, NEW e, NEW o, OnADay(e, o)
    PROVE  /\ DateOf(Local(plan.start)) = e /\ DateOf(Local(plan.end)) = e
           /\ HourOf(Local(plan.start)) >= premise.delivery_open_hour
           /\ Local(plan.end) % FullDay <= premise.delivery_close_hour * Hour
  <1>1. PICK h \in Nat, open \in Nat, close \in Nat, length \in Nat,
              start \in Int, end \in Int, opening \in Int :
             /\ open = premise.delivery_open_hour /\ close = premise.delivery_close_hour
             /\ length = premise.slot_hours
             /\ start = plan.start /\ end = plan.end /\ opening = plan.opening
             /\ open <= h /\ h + length <= close /\ close < 24 /\ length >= 1
             /\ start = e * FullDay + h * Hour - o /\ end = start + length * Hour
             /\ opening = e * FullDay + open * Hour - o
    BY SlotNumbers
  <1>2. e \in Nat /\ o \in Int /\ HasOffset(e, o)
    BY DEF OnADay
  <1>3. /\ e * FullDay + open * Hour <= start + o /\ start + o < (e + 1) * FullDay
        /\ e * FullDay + open * Hour <= end + o /\ end + o < (e + 1) * FullDay
    BY <1>1, <1>2 DEF FullDay, Hour, Minute
  <1>4. /\ e \in Int
        /\ e * FullDay + premise.delivery_open_hour * Hour <= start + o
        /\ e * FullDay + premise.delivery_open_hour * Hour <= end + o
        /\ premise.delivery_open_hour \in Nat
    BY <1>1, <1>2, <1>3
  <1>5. Local(start) = start + o /\ DateOf(Local(start)) = e
    BY <1>2, <1>3, <1>4, InTheDay
  <1>6. /\ Local(end) = end + o /\ DateOf(Local(end)) = e
        /\ Local(end) % FullDay = end + o - e * FullDay
    BY <1>2, <1>3, <1>4, InTheDay
  <1>7. HourOf(Local(start)) = h
    <2>1. h \in 0 .. 23
      BY <1>1
    <2>2. start + o = e * FullDay + h * Hour
      BY <1>1, <1>2 DEF FullDay, Hour, Minute
    <2>3. HourOf(e * FullDay + h * Hour) = h
      BY <1>4, <2>1, HourIs
    <2> QED
      BY <1>5, <2>2, <2>3, Zenon
  <1>8. Local(end) % FullDay <= close * Hour
    <2>1. end + o - e * FullDay <= close * Hour
      BY <1>1, <1>2 DEF FullDay, Hour, Minute
    <2> QED
      BY <1>6, <2>1, Zenon
  <1>9. h >= open
    BY <1>1
  <1>10. HourOf(Local(start)) >= open
    BY <1>7, <1>9, Zenon
  <1> QED
    BY <1>1, <1>5, <1>6, <1>8, <1>10, Zenon

(***************************************************************************)
(* Before the slot and after it.                                           *)
(***************************************************************************)
\* The night between the payment and the start of picking.
LEMMA PickingMinutes ==
    ASSUME NEW k \in Nat, NEW n \in Nat, NEW m \in Nat, n <= m
    PROVE  k * n \in Nat /\ k * m \in Nat /\ k * n <= k * m
  <1>1. PICK x \in Nat : m = n + x
    BY m - n \in Nat
  <1>2. k * x \in Nat /\ k * n \in Nat /\ k * m \in Nat
    OBVIOUS
  <1>3. k * m = k * n + k * x
    BY <1>1
  <1> QED
    BY <1>2, <1>3

LEMMA NightIsLeft ==
    ASSUME Setup, NEW e, NEW o, OnADay(e, o), NEW placed \in Int, DateOf(placed) = day,
           NEW paid \in Int, paid <= placed + 2 * premise.minutes_to_payment[2],
           NEW before \in Bounds(premise.minutes_dispatch_before_slot),
           NEW gap \in Bounds(premise.minutes_picked_before_dispatch),
           NEW picking,
           picking = plan.start - before - gap
                       - premise.minutes_per_line_picked * Minute * plan.lines
    PROVE  /\ picking \in Int /\ paid + Minute <= picking
           /\ before \in Nat /\ gap \in Nat
           /\ premise.minutes_per_line_picked * Minute * plan.lines \in Nat
  <1>1. PICK h \in Nat, open \in Nat, close \in Nat, length \in Nat,
              start \in Int, end \in Int, opening \in Int :
             /\ open = premise.delivery_open_hour /\ close = premise.delivery_close_hour
             /\ length = premise.slot_hours
             /\ start = plan.start /\ end = plan.end /\ opening = plan.opening
             /\ open <= h /\ h + length <= close /\ close < 24 /\ length >= 1
             /\ start = e * FullDay + h * Hour - o /\ end = start + length * Hour
             /\ opening = e * FullDay + open * Hour - o
    BY SlotNumbers
  <1>2. e \in Nat /\ o \in Int /\ o \in {clock.before, clock.after} /\ e > day /\ day \in Nat
    BY DEF OnADay, Setup
  <1>3. PICK pay, out, ready, basket :
          /\ pay = premise.minutes_to_payment /\ out = premise.minutes_dispatch_before_slot
          /\ ready = premise.minutes_picked_before_dispatch /\ basket = premise.basket_lines
    OBVIOUS
  <1>4. pay[2] \in Nat /\ out[2] \in Nat /\ ready[2] \in Nat /\ basket[2] \in Nat /\ basket[1] \in Nat
        /\ basket[1] <= basket[2]
    BY <1>3, Pairs
  <1>5. before \in Nat /\ before <= 2 * out[2]
    <2>1. out[1] \in Nat /\ out[2] \in Nat /\ out[1] <= out[2] /\ before \in Bounds(out)
      BY <1>3, Pairs
    <2> QED
      BY <2>1, WaitIsBounded
  <1>6. gap \in Nat /\ gap <= 2 * ready[2]
    <2>1. ready[1] \in Nat /\ ready[2] \in Nat /\ ready[1] <= ready[2] /\ gap \in Bounds(ready)
      BY <1>3, Pairs
    <2> QED
      BY <2>1, WaitIsBounded
  <1>7. PICK each \in Nat : each = premise.minutes_per_line_picked
    BY DEF Setup, IsTable
  <1>8. PICK lines \in Nat : lines = plan.lines /\ lines <= basket[2]
    <2>1. plan.lines \in {basket[1], basket[2]}
      BY <1>3, Zenon DEF OnADay
    <2> QED
      BY <1>4, <2>1
  <1>9. o + Minute * (1 + pay[2] + out[2] + ready[2] + each * basket[2]) <= open * Hour
    BY <1>1, <1>2, <1>3, <1>7, Zenon DEF Setup, LeavesANight
  <1>10. PICK most \in Nat, some \in Nat :
            most = each * basket[2] /\ some = each * lines /\ some <= most
    BY <1>4, <1>7, <1>8, PickingMinutes
  <1>11. PICK p \in Nat, d \in Nat, r \in Nat : p = pay[2] /\ d = out[2] /\ r = ready[2]
    BY <1>4
  <1>11a. o + Minute * (1 + p + d + r + most) <= open * Hour
    BY <1>9, <1>10, <1>11, Zenon
  <1>11b. o + 2 * (1 + p + d + r + most) <= open * 120
    BY <1>2, <1>10, <1>11, <1>11a DEF Minute, Hour
  <1>11c. before \in Nat /\ gap \in Nat /\ before <= 2 * d /\ gap <= 2 * r
    BY <1>5, <1>6, <1>11, Zenon
  <1>12. each * Minute * lines = 2 * some
    BY <1>7, <1>8, <1>10 DEF Minute
  <1>13. placed < (day + 1) * 2880
    <2>1. placed < (DateOf(placed) + 1) * FullDay
      BY DateBounds
    <2> QED
      BY <2>1 DEF FullDay, Hour, Minute
  <1>14. paid <= placed + 2 * p
    BY <1>3, <1>11, Zenon
  <1>15. picking = start - before - gap - 2 * some
    BY <1>1, <1>7, <1>8, <1>12, Zenon
  <1>16. start >= (day + 1) * 2880 + open * 120 - o
    BY <1>1, <1>2 DEF FullDay, Hour, Minute
  <1>17. picking \in Int /\ paid + 2 <= picking
    BY <1>2, <1>10, <1>11b, <1>11c, <1>13, <1>14, <1>15, <1>16
  <1>18. each * Minute * lines \in Nat
    BY <1>10, <1>12
  <1> QED
    BY <1>5, <1>6, <1>7, <1>8, <1>17, <1>18 DEF Minute

\* Whenever it is delivered, the order is dispatched and it is a day of delivery.
LEMMA DeliveredOnTheDay ==
    ASSUME Setup, NEW e, NEW o, OnADay(e, o), plan.dispatch \in Int,
           plan.dispatch <= plan.start, NEW at \in DeliveryInstants(premise, plan)
    PROVE  /\ at \in Int /\ plan.dispatch <= at /\ DateOf(Local(at)) = e
  <1>1. PICK h \in Nat, open \in Nat, close \in Nat, length \in Nat,
              start \in Int, end \in Int, opening \in Int :
             /\ open = premise.delivery_open_hour /\ close = premise.delivery_close_hour
             /\ length = premise.slot_hours
             /\ start = plan.start /\ end = plan.end /\ opening = plan.opening
             /\ open <= h /\ h + length <= close /\ close < 24 /\ length >= 1
             /\ start = e * FullDay + h * Hour - o /\ end = start + length * Hour
             /\ opening = e * FullDay + open * Hour - o
    BY SlotNumbers
  <1>2. e \in Nat /\ o \in Int /\ HasOffset(e, o)
    BY DEF OnADay
  <1>3. PICK dispatch \in Int : dispatch = plan.dispatch /\ dispatch <= start
    BY <1>1
  <1>4. PICK early \in Nat, late \in Nat :
          /\ early = premise.delivery_early_max_minutes /\ late = premise.delivery_late_max_minutes
          /\ close * 60 + late < 24 * 60
    BY <1>1, Zenon DEF Setup, IsTable, LeavesANight
  <1> DEFINE Fits == /\ at \in Int /\ dispatch <= at
                     /\ e * FullDay + open * Hour <= at + o /\ at + o < (e + 1) * FullDay
  <1>5. Fits
    <2>1. CASE at \in {start, end - Minute}
      BY <1>1, <1>2, <1>3, <2>1 DEF FullDay, Hour, Minute
    <2>2. ASSUME NEW m \in {1, early}, at = Max({start - m * Minute, opening, dispatch + Minute})
          PROVE  Fits
      <3>1. PICK x \in Int, y \in Int, z \in Int :
              x = start - m * Minute /\ y = opening /\ z = dispatch + Minute
        BY DEF Minute
      <3>2. at = Max({x, y, z})
        BY <2>2, <3>1, Zenon
      <3>3. \E v \in {x, y, z} : \A w \in {x, y, z} : v >= w
        OBVIOUS
      <3>4. at \in {x, y, z} /\ \A w \in {x, y, z} : at >= w
        BY <3>2, <3>3, Zenon DEF Max
      <3>5. at \in Int /\ at >= y /\ at >= z /\ (at = x \/ at = y \/ at = z)
        BY <3>4
      <3>6. m \in Nat
        OBVIOUS
      <3> QED
        BY <1>1, <1>2, <1>3, <3>1, <3>5, <3>6 DEF FullDay, Hour, Minute
    <2>3. ASSUME NEW m \in {1, late}, at = end + m * Minute
          PROVE  Fits
      BY <1>1, <1>2, <1>3, <1>4, <2>3 DEF FullDay, Hour, Minute
    <2>4. at \in {start, end - Minute}
                \union {Max({start - m * Minute, opening, dispatch + Minute}) : m \in {1, early}}
                \union {end + m * Minute : m \in {1, late}}
      BY <1>1, <1>3, <1>4, Zenon DEF DeliveryInstants
    <2> HIDE DEF Fits
    <2> QED
      BY <2>1, <2>2, <2>3, <2>4, Zenon
  <1>6. /\ e \in Int /\ e * FullDay + premise.delivery_open_hour * Hour <= at + o
        /\ premise.delivery_open_hour \in Nat
    BY <1>1, <1>2, <1>5
  <1>7. DateOf(Local(at)) = e
    BY <1>2, <1>5, <1>6, InTheDay
  <1> QED
    BY <1>3, <1>5, <1>7

(***************************************************************************)
(* The log.                                                                *)
(***************************************************************************)
Endings == {"order_cancelled", "order_delivered", "order_delivery_failed"}
Types == Endings \union
    {"order_placed", "order_payment_failed", "order_payment_authorized", "order_picking_started",
     "order_line_removed", "order_picked", "order_dispatched", "order_returned"}
Event == [type : Types, at : Int]

InOrder(s) == \A i \in DOMAIN s : i > 1 => s[i - 1].at <= s[i].at

\* A log in order, in which nothing of a cancellation or a delivery is said yet.
Running(s) == s \in Seq(Event) /\ InOrder(s) /\ \A i \in DOMAIN s : s[i].type \notin Endings

Extended(s, type, at) == Append(s, [type |-> type, at |-> at])

LEMMA OneEventMore ==
    ASSUME NEW s \in Seq(Event), NEW type \in Types, NEW at \in Int, NEW t,
           t = Extended(s, type, at)
    PROVE  /\ t \in Seq(Event) /\ Len(t) = Len(s) + 1
           /\ \A i \in 1 .. Len(s) : t[i] = s[i]
           /\ t[Len(t)].type = type /\ t[Len(t)].at = at
           /\ DOMAIN t = 1 .. Len(s) + 1 /\ DOMAIN s = 1 .. Len(s) /\ Len(s) \in Nat
  <1> DEFINE e == [type |-> type, at |-> at]
  <1>1. e \in Event /\ e.type = type /\ e.at = at
    BY DEF Event
  <1> HIDE DEF e
  <1>2. /\ t \in Seq(Event) /\ Len(t) = Len(s) + 1
        /\ \A i \in 1 .. Len(s) : t[i] = s[i]
        /\ t[Len(s) + 1] = e
    <2>1. t = Append(s, e)
      BY DEF e, Extended
    <2> QED
      BY <1>1, <2>1, AppendProperties
  <1>3. DOMAIN t = 1 .. Len(s) + 1 /\ DOMAIN s = 1 .. Len(s) /\ Len(s) \in Nat
    BY <1>2
  <1> QED
    BY <1>1, <1>2, <1>3, Zenon

\* An event that is not before the last one keeps the log in order.
LEMMA OneLater ==
    ASSUME NEW s \in Seq(Event), InOrder(s), NEW type \in Types, NEW at \in Int, NEW t,
           t = Extended(s, type, at),
           Len(s) > 0 => s[Len(s)].at <= at
    PROVE  InOrder(t)
  <1>1. /\ Len(t) = Len(s) + 1 /\ \A i \in 1 .. Len(s) : t[i] = s[i]
        /\ t[Len(t)].at = at
        /\ DOMAIN t = 1 .. Len(s) + 1 /\ DOMAIN s = 1 .. Len(s) /\ Len(s) \in Nat
    BY OneEventMore
  <1>2. ASSUME NEW i \in DOMAIN t, i > 1
        PROVE  t[i - 1].at <= t[i].at
    <2>1. CASE i = Len(s) + 1
      <3>1. i - 1 \in 1 .. Len(s) /\ i - 1 = Len(s) /\ Len(s) > 0
        BY <1>1, <1>2, <2>1
      <3>2. t[i - 1] = s[Len(s)]
        BY <1>1, <3>1
      <3>3. t[i].at = at
        BY <1>1, <2>1
      <3> QED
        BY <3>1, <3>2, <3>3
    <2>2. CASE i # Len(s) + 1
      <3>1. i \in 1 .. Len(s) /\ i - 1 \in 1 .. Len(s)
        BY <1>1, <1>2, <2>2
      <3>2. t[i] = s[i] /\ t[i - 1] = s[i - 1]
        BY <1>1, <3>1, Zenon
      <3>3. s[i - 1].at <= s[i].at
        BY <1>1, <1>2, <3>1, Zenon DEF InOrder
      <3> QED
        BY <3>2, <3>3, Zenon
    <2> QED
      BY <2>1, <2>2
  <1> QED
    BY <1>2 DEF InOrder

LEMMA ExtendedBy ==
    ASSUME NEW s \in Seq(Event), NEW type \in Types, NEW at \in Int
    PROVE  Extended(s, type, at) = s \o << [type |-> type, at |-> at] >>
  <1>1. PICK e \in Event : e = [type |-> type, at |-> at]
    BY DEF Event
  <1>2. Append(s, e) = s \o << e >>
    BY AppendIsConcat
  <1> QED
    BY <1>1, <1>2, Zenon DEF Extended

LEMMA AppendTwo ==
    ASSUME NEW S, NEW s \in Seq(S), NEW e \in S, NEW f \in S
    PROVE  Append(Append(s, e), f) = s \o << e, f >>
  OBVIOUS

LEMMA RunsOn ==
    ASSUME NEW s, Running(s), NEW type \in Types, type \notin Endings, NEW at \in Int, NEW t,
           t = Extended(s, type, at),
           Len(s) > 0 => s[Len(s)].at <= at
    PROVE  /\ Running(t) /\ Len(t) = Len(s) + 1 /\ t[Len(t)].at = at
           /\ Len(s) > 0 => t[1] = s[1]
  <1>1. s \in Seq(Event) /\ InOrder(s) /\ \A i \in DOMAIN s : s[i].type \notin Endings
    BY DEF Running
  <1>2. /\ t \in Seq(Event) /\ Len(t) = Len(s) + 1 /\ \A i \in 1 .. Len(s) : t[i] = s[i]
        /\ t[Len(t)].type = type /\ t[Len(t)].at = at
        /\ DOMAIN t = 1 .. Len(s) + 1 /\ DOMAIN s = 1 .. Len(s) /\ Len(s) \in Nat
    BY <1>1, OneEventMore
  <1>3. InOrder(t)
    BY <1>1, OneLater
  <1>4. ASSUME NEW i \in DOMAIN t
        PROVE  t[i].type \notin Endings
    <2>1. i \in 1 .. Len(s) \/ i = Len(t)
      BY <1>2
    <2> QED
      BY <1>1, <1>2, <2>1, Zenon
  <1>5. Len(s) > 0 => t[1] = s[1]
    BY <1>2
  <1> QED
    BY <1>2, <1>3, <1>4, <1>5 DEF Running

(***************************************************************************)
(* The inductive invariant.                                                *)
(***************************************************************************)
Placed ==
    /\ Len(log) > 0 /\ log[1].type \notin Endings
    /\ DateOf(log[1].at) = day /\ DateOf(Local(log[1].at)) = day

Slotted == \E e, o : OnADay(e, o)

Paid == Len(log) = 2 /\ log[2].at <= log[1].at + 2 * premise.minutes_to_payment[2]

Scheduled ==
    /\ plan.picking \in Int /\ plan.picked \in Int /\ plan.dispatch \in Int
    /\ log[2].at + Minute <= plan.picking
    /\ premise.minutes_per_line_picked * Minute * plan.lines \in Nat
    /\ plan.picked = plan.picking + premise.minutes_per_line_picked * Minute * plan.lines
    /\ plan.picked <= plan.dispatch /\ plan.dispatch <= plan.start

Gone ==
    /\ Len(log) > 0 /\ plan.dispatch \in Int
    /\ log[Len(log)].at = plan.dispatch /\ plan.dispatch <= plan.start

OnAnOpenDay ==
    \A i \in DOMAIN log : log[i].type \in {"order_delivered", "order_delivery_failed"} =>
        /\ DateOf(Local(log[i].at)) > day
        /\ Weekday(DateOf(Local(log[i].at))) # premise.delivery_closed_isoweekday

Over == Len(log) > 0 /\ log \in Seq(Event) /\ InOrder(log) /\ OnAnOpenDay /\ CancelledInTime

CalendarInv ==
    /\ CalendarTypeOK
    /\ stage # "refused"
    /\ stage \in {"premises", "none", "place"} => log = << >>
    /\ stage \notin {"premises", "none"} => PremisesHold(premise)
    /\ stage \notin {"premises", "none", "place"} => Placed /\ Slotted
    /\ stage \notin {"return", "done"} => Running(log)
    /\ stage = "pay" => Len(log) = 1
    /\ stage \in {"schedule", "confirmed"} => Paid
    /\ stage = "confirmed" => Scheduled
    /\ stage = "dispatched" => Gone
    /\ stage \in {"return", "done"} => Over

LEMMA NothingRuns == Running(<< >>)
  BY DEF Running, InOrder

LEMMA SameClock ==
    ASSUME UNCHANGED given
    PROVE  /\ premise' = premise /\ schedule' = schedule /\ day' = day /\ clock' = clock
           /\ \A t : Local(t)' = Local(t)
           /\ \A e, o : HasOffset(e, o)' <=> HasOffset(e, o)
  <1>1. premise' = premise /\ schedule' = schedule /\ day' = day /\ clock' = clock
    BY DEF given
  <1>2. \A t : Local(t)' = Local(t)
    BY <1>1 DEF Local
  <1>3. \A d, h, ticks : ToUtc(d, h, ticks)' = ToUtc(d, h, ticks)
    BY <1>1 DEF ToUtc
  <1> HIDE DEF Local, ToUtc
  <1>4. \A e, o : HasOffset(e, o)' <=> HasOffset(e, o)
    BY <1>1, <1>2, <1>3, Zenon DEF HasOffset
  <1> QED
    BY <1>1, <1>2, <1>4

LEMMA TypeIsKept ==
    ASSUME CalendarTypeOK, UNCHANGED given, log' \in Seq(Event),
           stage' \in {"premises", "none", "place", "pay", "schedule", "refused", "confirmed",
                      "dispatched", "return", "done"}
    PROVE  CalendarTypeOK'
  <1>1. premise' = premise /\ schedule' = schedule /\ day' = day /\ clock' = clock
    BY SameClock
  <1>2. PICK s \in Setting :
          premise = s.premise /\ schedule = s.schedule /\ day = s.day /\ clock = s.clock
    BY Zenon DEF CalendarTypeOK
  <1>3. premise' = s.premise /\ schedule' = s.schedule /\ day' = s.day /\ clock' = s.clock
    BY <1>1, <1>2, Zenon
  <1>4. \A i \in DOMAIN log' : log'[i].at \in Int
    <2>1. \A i \in DOMAIN log' : log'[i] \in Event
      OBVIOUS
    <2> QED
      BY <2>1 DEF Event
  <1> QED
    BY <1>3, <1>4, Zenon DEF CalendarTypeOK

LEMMA StillPlaced ==
    ASSUME UNCHANGED given, Placed, Len(log') > 0, log'[1] = log[1]
    PROVE  Placed'
  BY SameClock, Zenon DEF Placed

LEMMA StillSlotted ==
    ASSUME UNCHANGED given, Slotted, plan'.start = plan.start, plan'.end = plan.end,
           plan'.opening = plan.opening, plan'.lines = plan.lines
    PROVE  Slotted'
  <1>1. PICK e, o : OnADay(e, o)
    BY DEF Slotted
  <1>2. OnADay(e, o)'
    BY <1>1, SameClock, Zenon DEF OnADay
  <1> QED
    BY <1>2 DEF Slotted

LEMMA StartKeepsTheCalendar ==
    ASSUME CalendarInv, Start
    PROVE  CalendarInv'
  <1>1. UNCHANGED given /\ plan' = plan /\ log' = log /\ log = << >> /\ CalendarTypeOK
    BY DEF CalendarInv, Start
  <1>2. premise' = premise
    BY <1>1, SameClock
  <1>3. stage' \in {"place", "none"} /\ (stage' = "place" => PremisesHold(premise))
    BY DEF Start
  <1>4. log' \in Seq(Event) /\ Running(log')
    BY <1>1, NothingRuns DEF Running
  <1>5. CalendarTypeOK'
    BY <1>1, <1>3, <1>4, TypeIsKept
  <1>6. stage' = "place" => PremisesHold(premise)'
    BY <1>2, <1>3
  <1> QED
    BY <1>1, <1>3, <1>4, <1>5, <1>6 DEF CalendarInv

LEMMA PlaceKeepsTheCalendar ==
    ASSUME CalendarInv, Place
    PROVE  CalendarInv'
  <1>1. /\ UNCHANGED given /\ log = << >> /\ CalendarTypeOK /\ PremisesHold(premise)
        /\ stage' = "pay"
    BY DEF CalendarInv, Place
  <1>2. Setup
    BY <1>1, SettingIsGiven
  <1>3. PICK hour \in Drawn(PlacementHours(day), premise.order_hour_weight),
             second \in {0, Hour - 1}, lead \in premise.slot_lead_days,
             slot \in Drawn(slot_hours(premise), premise.slot_hour_weight),
             lines \in {premise.basket_lines[1], premise.basket_lines[2]} :
          LET delivery == DeliveryDay(day, lead, premise.delivery_closed_isoweekday)
              start == ToUtc(delivery, slot, 0)
          IN  /\ Emit("order_placed", ToUtc(day, hour, second))
              /\ plan' = [start |-> start, end |-> start + premise.slot_hours * Hour,
                          opening |-> ToUtc(delivery, premise.delivery_open_hour, 0),
                          lines |-> lines]
    BY Zenon DEF Place
  <1>4. PICK e, start, opening, at :
          /\ e = DeliveryDay(day, lead, premise.delivery_closed_isoweekday)
          /\ start = ToUtc(e, slot, 0) /\ opening = ToUtc(e, premise.delivery_open_hour, 0)
          /\ at = ToUtc(day, hour, second)
    OBVIOUS
  <1>5. log' = Extended(log, "order_placed", at)
    BY <1>3, <1>4, Zenon DEF Emit, Extended
  <1>6. plan' = [start |-> start, end |-> start + premise.slot_hours * Hour,
                 opening |-> opening, lines |-> lines]
    BY <1>3, <1>4, Zenon
  <1>7. at \in Int /\ DateOf(at) = day /\ DateOf(Local(at)) = day
    <2>1. day \in Nat /\ IsClock(clock) /\ MovedAtNight(premise, clock)
      BY <1>2 DEF Setup
    <2>2. PlacementHours(day) \in SUBSET (0 .. 23) /\ PlacementHours(day) # {}
      BY <2>1, SomeHourIsOfTheDay DEF PlacementHours
    <2>3. hour \in PlacementHours(day)
      BY <1>3, <2>2, DrawnIsAKey, Zenon
    <2> QED
      BY <1>3, <1>4, <2>1, <2>3, PlacedOnItsDay, Zenon
  <1>8. Running(log') /\ Len(log') = 1 /\ log'[1].at = at
    <2>1. Running(log) /\ Len(log) = 0
      <3>1. Running(log)
        BY <1>1, NothingRuns, Zenon
      <3>2. Len(log) = 0
        BY <1>1
      <3> QED
        BY <3>1, <3>2
    <2>2. PICK type \in Types : type = "order_placed" /\ type \notin Endings
      <3>1. "order_placed" \notin Endings /\ "order_placed" \in Types
        BY DEF Endings, Types
      <3> QED
        BY <3>1
    <2>3. Len(log) > 0 => log[Len(log)].at <= at
      BY <2>1
    <2>4. Running(log') /\ Len(log') = Len(log) + 1 /\ log'[Len(log')].at = at
      <3>1. log' = Extended(log, type, at)
        BY <1>5, <2>2, Zenon
      <3>2. type \notin Endings /\ at \in Int /\ Running(log)
        BY <1>7, <2>1, <2>2, Zenon
      <3> QED
        BY <2>3, <3>1, <3>2, RunsOn
    <2> QED
      BY <2>1, <2>4
  <1>9. Placed'
    <2>1. Local(at)' = Local(at) /\ day' = day
      BY <1>1, SameClock
    <2>2. (log[1].at)' = at /\ Len(log)' > 0
      BY <1>8
    <2>3. log'[1].type \notin Endings
      <3>1. 1 \in DOMAIN log'
        BY <1>8 DEF Running
      <3> QED
        BY <1>8, <3>1, Zenon DEF Running
    <2> QED
      BY <1>7, <2>1, <2>2, <2>3, Zenon DEF Placed
  <1>10. Slotted'
    <2>1. /\ e \in Nat /\ e > day /\ Weekday(e) # premise.delivery_closed_isoweekday
          /\ slot \in slot_hours(premise)
      BY <1>2, <1>3, <1>4, SlotIsOnADay
    <2>2. PICK o \in Int :
            /\ o \in {clock.before, clock.after} /\ HasOffset(e, o)
            /\ ToUtc(e, slot, 0) = e * FullDay + slot * Hour - o
            /\ ToUtc(e, premise.delivery_open_hour, 0)
                 = e * FullDay + premise.delivery_open_hour * Hour - o
      BY <1>2, <1>3, <1>4, SlotIsOnADay
    <2>3. /\ plan'.start = start /\ plan'.end = plan'.start + premise.slot_hours * Hour
          /\ plan'.opening = opening /\ plan'.lines = lines
      BY <1>6
    <2>4. /\ premise' = premise /\ day' = day /\ clock' = clock
          /\ HasOffset(e, o)' <=> HasOffset(e, o)
      BY <1>1, SameClock
    <2>5. OnADay(e, o)'
      BY <1>3, <1>4, <2>1, <2>2, <2>3, <2>4, Zenon DEF OnADay
    <2> QED
      BY <2>5 DEF Slotted
  <1>11. CalendarTypeOK'
    BY <1>1, <1>8, TypeIsKept DEF Running
  <1>12. PremisesHold(premise)'
    BY <1>1, SameClock
  <1> QED
    BY <1>1, <1>8, <1>9, <1>10, <1>11, <1>12 DEF CalendarInv

\* A log that ends with an event which is not before the last one.
LEMMA EndsWith ==
    ASSUME NEW s, Running(s), NEW type \in Types, NEW at \in Int, NEW t,
           t = Extended(s, type, at), Len(s) > 0, s[Len(s)].at <= at
    PROVE  /\ t \in Seq(Event) /\ InOrder(t) /\ Len(t) > 0 /\ t[1] = s[1]
           /\ \A i \in DOMAIN t : t[i].type \in Endings =>
                /\ t[i].type = type /\ t[i].at = at /\ t[i - 1] = s[Len(s)]
  <1>1. s \in Seq(Event) /\ InOrder(s) /\ \A i \in DOMAIN s : s[i].type \notin Endings
    BY DEF Running
  <1>2. /\ t \in Seq(Event) /\ Len(t) = Len(s) + 1 /\ \A i \in 1 .. Len(s) : t[i] = s[i]
        /\ t[Len(t)].type = type /\ t[Len(t)].at = at
        /\ DOMAIN t = 1 .. Len(s) + 1 /\ DOMAIN s = 1 .. Len(s) /\ Len(s) \in Nat
    BY <1>1, OneEventMore
  <1>3. InOrder(t)
    BY <1>1, OneLater
  <1>4. ASSUME NEW i \in DOMAIN t, t[i].type \in Endings
        PROVE  t[i].type = type /\ t[i].at = at /\ t[i - 1] = s[Len(s)]
    <2>1. i \in 1 .. Len(s) \/ i = Len(t)
      BY <1>2
    <2>2. i \notin 1 .. Len(s)
      BY <1>1, <1>2, <1>4, Zenon
    <2>3. i = Len(t) /\ i - 1 = Len(s) /\ Len(s) \in 1 .. Len(s)
      BY <1>2, <2>1, <2>2
    <2> QED
      BY <1>2, <2>3, Zenon
  <1>5. t[1] = s[1] /\ Len(t) > 0
    BY <1>2
  <1> QED
    BY <1>2, <1>3, <1>4, <1>5

\* Nothing that ends an order is said.
LEMMA NothingEnds ==
    ASSUME Running(log'), Len(log') > 0
    PROVE  Over'
  <1>1. \A i \in DOMAIN log' : log'[i].type \notin Endings
    BY DEF Running
  <1>2. OnAnOpenDay'
    BY <1>1 DEF OnAnOpenDay, Endings
  <1>3. CancelledInTime'
    BY <1>1 DEF CancelledInTime, Endings
  <1> QED
    BY <1>2, <1>3, Zenon DEF Over, Running

LEMMA PayKeepsTheCalendar ==
    ASSUME CalendarInv, Pay
    PROVE  CalendarInv'
  <1>1. /\ UNCHANGED given /\ plan' = plan /\ CalendarTypeOK /\ PremisesHold(premise)
        /\ Placed /\ Slotted /\ Running(log) /\ Len(log) = 1
    BY DEF CalendarInv, Pay
  <1>2. Setup
    BY <1>1, SettingIsGiven
  <1>3. PICK wait \in Bounds(premise.minutes_to_payment) :
          \/ Emit("order_payment_failed", log[1].at + wait) /\ stage' = "done"
          \/ Emit("order_payment_authorized", log[1].at + wait) /\ stage' = "schedule"
    BY Zenon DEF Pay
  <1>4. PICK type \in {"order_payment_failed", "order_payment_authorized"} :
          /\ Emit(type, log[1].at + wait)
          /\ stage' \in {"done", "schedule"}
    BY <1>3, Zenon
  <1>5. PICK pay : pay = premise.minutes_to_payment
    OBVIOUS
  <1>6. wait \in Nat /\ wait <= 2 * pay[2]
    <2>1. pay[1] \in Nat /\ pay[2] \in Nat /\ pay[1] <= pay[2] /\ wait \in Bounds(pay)
      BY <1>2, <1>5, Pairs
    <2> QED
      BY <2>1, WaitIsBounded
  <1>7. PICK first \in Int, at \in Int : first = log[1].at /\ at = first + wait
    <2>1. log[1].at \in Int
      <3>1. 1 \in DOMAIN log
        BY <1>1 DEF Running
      <3> QED
        BY <1>1, <3>1 DEF CalendarTypeOK
    <2> QED
      BY <1>6, <2>1
  <1>8. first <= at /\ pay[2] \in Nat /\ at <= first + 2 * pay[2]
    BY <1>2, <1>5, <1>6, <1>7, Pairs
  <1>9. log' = Extended(log, type, at)
    BY <1>4, <1>7, Zenon DEF Emit, Extended
  <1>10. /\ Running(log') /\ Len(log') = Len(log) + 1 /\ log'[Len(log')].at = at
         /\ Len(log) > 0 => log'[1] = log[1]
    <2>1. type \notin Endings /\ type \in Types
      BY DEF Endings, Types
    <2>2. Len(log) > 0 => log[Len(log)].at <= at
      BY <1>1, <1>7, <1>8, Zenon
    <2> QED
      <3>1. at \in Int /\ Running(log) /\ type \notin Endings /\ type \in Types
        BY <1>1, <1>7, <2>1
      <3> QED
        BY <1>9, <2>2, <3>1, RunsOn
  <1>11. Len(log') = 2 /\ log'[2].at = at /\ log'[1] = log[1] /\ Len(log') > 0
    BY <1>1, <1>10
  <1>12. Placed' /\ Slotted'
    BY <1>1, <1>11, StillPlaced, StillSlotted, Zenon
  <1>13. Paid'
    <2>1. premise' = premise
      BY <1>1, SameClock
    <2>2. at <= first + 2 * premise'.minutes_to_payment[2]
      BY <1>5, <1>8, <2>1, Zenon
    <2> QED
      BY <1>7, <1>11, <2>2, Zenon DEF Paid
  <1>14. Over'
    BY <1>10, <1>11, NothingEnds, Zenon
  <1>15. CalendarTypeOK'
    BY <1>1, <1>4, <1>10, TypeIsKept DEF Running
  <1>16. PremisesHold(premise)'
    BY <1>1, SameClock
  <1> QED
    BY <1>4, <1>10, <1>12, <1>13, <1>14, <1>15, <1>16 DEF CalendarInv

LEMMA PlanKeepsTheCalendar ==
    ASSUME CalendarInv, Plan
    PROVE  CalendarInv'
  <1>1. /\ UNCHANGED given /\ log' = log /\ CalendarTypeOK /\ PremisesHold(premise)
        /\ Placed /\ Slotted /\ Running(log) /\ Paid
    BY DEF CalendarInv, Plan
  <1>2. Setup
    BY <1>1, SettingIsGiven
  <1>3. PICK before \in Bounds(premise.minutes_dispatch_before_slot),
             gap \in Bounds(premise.minutes_picked_before_dispatch) :
         LET dispatch == plan.start - before
             picked == dispatch - gap
             picking == picked - premise.minutes_per_line_picked * Minute * plan.lines
         IN  /\ plan' = [start |-> plan.start, end |-> plan.end, opening |-> plan.opening,
                         lines |-> plan.lines, dispatch |-> dispatch, picked |-> picked,
                         picking |-> picking]
             /\ stage' = IF picking <= log[2].at THEN "refused" ELSE "confirmed"
    BY Zenon DEF Plan
  <1>4. PICK picked, dispatch, picking, work :
          /\ work = premise.minutes_per_line_picked * Minute * plan.lines
          /\ dispatch = plan.start - before /\ picked = dispatch - gap
          /\ picking = picked - work
    OBVIOUS
  <1>5. plan' = [start |-> plan.start, end |-> plan.end, opening |-> plan.opening,
                 lines |-> plan.lines, dispatch |-> dispatch, picked |-> picked,
                 picking |-> picking]
    BY <1>3, <1>4, Zenon
  <1>6. /\ plan'.start = plan.start /\ plan'.end = plan.end
        /\ plan'.opening = plan.opening /\ plan'.lines = plan.lines
        /\ plan'.dispatch = dispatch /\ plan'.picked = picked /\ plan'.picking = picking
    BY <1>5
  <1>7. PICK e, o : OnADay(e, o)
    BY <1>1 DEF Slotted
  <1>8. PICK start \in Int : start = plan.start
    BY <1>2, <1>7, SlotNumbers
  <1>9. PICK placed \in Int, paid \in Int : placed = log[1].at /\ paid = log[2].at
    <2>1. 1 \in DOMAIN log /\ 2 \in DOMAIN log
      BY <1>1 DEF Running, Paid
    <2> QED
      BY <1>1, <2>1 DEF CalendarTypeOK
  <1>10. DateOf(placed) = day /\ paid <= placed + 2 * premise.minutes_to_payment[2]
    BY <1>1, <1>9, Zenon DEF Placed, Paid
  <1>11. /\ picking \in Int /\ paid + Minute <= picking /\ before \in Nat /\ gap \in Nat
         /\ work \in Nat
    <2>1. picking = plan.start - before - gap
                       - premise.minutes_per_line_picked * Minute * plan.lines
      BY <1>4, Zenon
    <2>2. premise.minutes_per_line_picked * Minute * plan.lines \in Nat
          /\ picking \in Int /\ paid + Minute <= picking /\ before \in Nat /\ gap \in Nat
      BY <1>2, <1>3, <1>7, <1>9, <1>10, <2>1, NightIsLeft
    <2> QED
      BY <1>4, <2>2, Zenon
  <1>12. /\ dispatch \in Int /\ picked \in Int /\ picked = picking + work
         /\ picked <= dispatch /\ dispatch <= start /\ ~(picking <= paid)
    BY <1>4, <1>8, <1>11 DEF Minute
  <1>13. stage' = "confirmed"
    <2>1. stage' = IF picking <= log[2].at THEN "refused" ELSE "confirmed"
      BY <1>3, <1>4, Zenon
    <2> QED
      BY <1>9, <1>12, <2>1, Zenon
  <1>14. Placed' /\ Slotted'
    <2>1. Len(log') > 0 /\ log'[1] = log[1]
      BY <1>1 DEF Placed
    <2> QED
      BY <1>1, <1>6, <2>1, StillPlaced, StillSlotted, Zenon
  <1>15. Paid' /\ premise' = premise
    BY <1>1, SameClock, Zenon DEF Paid
  <1>16. Scheduled'
    <2>1. premise'.minutes_per_line_picked * Minute * plan'.lines = work
      BY <1>4, <1>6, <1>15, Zenon
    <2>2. plan'.dispatch <= plan'.start
      BY <1>6, <1>8, <1>12, Zenon
    <2>3. (log[2].at)' + Minute <= plan'.picking
      BY <1>1, <1>6, <1>9, <1>11, Zenon
    <2> QED
      BY <1>6, <1>11, <1>12, <2>1, <2>2, <2>3, Zenon DEF Scheduled
  <1>17. CalendarTypeOK'
    BY <1>1, <1>13, TypeIsKept DEF Running
  <1>18. PremisesHold(premise)' /\ Running(log')
    BY <1>1, <1>15
  <1> QED
    BY <1>13, <1>14, <1>15, <1>16, <1>17, <1>18 DEF CalendarInv

\* What a customer has left before the picking leaves the cancellation before it.
LEMMA CancelKeepsTheCalendar ==
    ASSUME CalendarInv, Cancel
    PROVE  CalendarInv'
  <1>1. /\ UNCHANGED given /\ plan' = plan /\ CalendarTypeOK /\ PremisesHold(premise)
        /\ Placed /\ Slotted /\ Running(log) /\ Paid /\ Scheduled /\ stage' = "done"
    BY DEF CalendarInv, Cancel
  <1>2. Setup
    BY <1>1, SettingIsGiven
  <1>3. PICK paid \in Int, picking \in Int :
          paid = log[2].at /\ picking = plan.picking /\ paid + 2 <= picking
    <2>1. 2 \in DOMAIN log
      BY <1>1 DEF Running, Paid
    <2>2. log[2].at \in Int
      BY <1>1, <2>1 DEF CalendarTypeOK
    <2>3. plan.picking \in Int /\ log[2].at + Minute <= plan.picking
      BY <1>1 DEF Scheduled
    <2> QED
      BY <2>2, <2>3 DEF Minute
  <1>4. PICK room \in Int : room = (picking - paid) \div Minute - 1
    BY DEF Minute
  <1>5. PICK minutes \in CancelDraws(premise, room) :
          Emit("order_cancelled", paid + minutes * Minute)
    BY <1>3, <1>4, Zenon DEF Cancel
  <1>6. PICK cancel : cancel = premise.minutes_to_cancel
    OBVIOUS
  <1>7. room \in Nat /\ 2 * room < picking - paid
    BY <1>3, <1>4 DEF Minute
  <1>8. minutes \in Nat /\ minutes <= room
    <2>1. cancel[1] \in Nat /\ cancel[2] \in Nat
      BY <1>2, <1>6, Pairs
    <2>2. PICK draw \in Nat : minutes = Min({draw, room})
      BY <1>5, <1>6, <2>1, Zenon DEF CancelDraws
    <2>3. \E v \in {draw, room} : \A w \in {draw, room} : v <= w
      BY <1>7
    <2>4. minutes \in {draw, room} /\ \A w \in {draw, room} : minutes <= w
      BY <2>2, <2>3, Zenon DEF Min
    <2> QED
      BY <1>7, <2>4
  <1>9. PICK at \in Int : at = paid + minutes * Minute
    BY <1>8 DEF Minute
  <1>10. paid <= at /\ at < picking
    BY <1>7, <1>8, <1>9 DEF Minute
  <1>11. PICK type \in Types : type = "order_cancelled"
    <2>1. "order_cancelled" \in Types
      BY DEF Types, Endings
    <2> QED
      BY <2>1
  <1>12. log' = Extended(log, type, at)
    BY <1>5, <1>9, <1>11, Zenon DEF Emit, Extended
  <1>13. Len(log) = 2 /\ Len(log) > 0 /\ log[Len(log)].at = paid
    BY <1>1, <1>3 DEF Paid
  <1>14. /\ log' \in Seq(Event) /\ InOrder(log') /\ Len(log') > 0 /\ log'[1] = log[1]
         /\ \A i \in DOMAIN log' : log'[i].type \in Endings =>
              /\ log'[i].type = type /\ log'[i].at = at /\ log'[i - 1] = log[Len(log)]
    <2>1. Running(log) /\ Len(log) > 0 /\ log[Len(log)].at <= at
      BY <1>1, <1>10, <1>13, Zenon
    <2> QED
      BY <1>12, <2>1, EndsWith
  <1>15. OnAnOpenDay'
    <2>1. type \notin {"order_delivered", "order_delivery_failed"}
      BY <1>11
    <2>2. {"order_delivered", "order_delivery_failed"} \subseteq Endings
      BY DEF Endings
    <2> QED
      BY <1>14, <2>1, <2>2, Zenon DEF OnAnOpenDay
  <1>16. CancelledInTime'
    <2>1. "order_cancelled" \in Endings
      BY DEF Endings
    <2>2. ASSUME NEW i \in DOMAIN log', log'[i].type = "order_cancelled"
          PROVE  log'[i - 1].at <= log'[i].at /\ log'[i].at < plan'.picking
      <3>1. log'[i].at = at /\ log'[i - 1] = log[Len(log)]
        BY <1>14, <2>1, <2>2, Zenon
      <3>2. log'[i - 1].at = paid /\ plan'.picking = picking
        BY <1>1, <1>3, <1>13, <3>1, Zenon
      <3> QED
        BY <1>10, <3>1, <3>2, Zenon
    <2> QED
      BY <2>2, Zenon DEF CancelledInTime
  <1>17. Over'
    BY <1>14, <1>15, <1>16, Zenon DEF Over
  <1>18. Placed' /\ Slotted'
    BY <1>1, <1>14, StillPlaced, StillSlotted, Zenon
  <1>19. CalendarTypeOK'
    BY <1>1, <1>14, TypeIsKept
  <1>20. PremisesHold(premise)'
    BY <1>1, SameClock
  <1> QED
    BY <1>1, <1>17, <1>18, <1>19, <1>20 DEF CalendarInv

LEMMA DeliverKeepsTheCalendar ==
    ASSUME CalendarInv, Deliver
    PROVE  CalendarInv'
  <1>1. /\ UNCHANGED given /\ plan' = plan /\ CalendarTypeOK /\ PremisesHold(premise)
        /\ Placed /\ Slotted /\ Running(log) /\ Gone
    BY DEF CalendarInv, Deliver
  <1>2. Setup
    BY <1>1, SettingIsGiven
  <1>3. PICK at \in DeliveryInstants(premise, plan) :
         \/ Emit("order_delivery_failed", at) /\ stage' = "done"
         \/ Emit("order_delivered", at) /\ stage' \in {"done", "return"}
    BY Zenon DEF Deliver
  <1>4. PICK type \in {"order_delivery_failed", "order_delivered"} :
          Emit(type, at) /\ stage' \in {"done", "return"}
    BY <1>3, Zenon
  <1>5. PICK e, o : OnADay(e, o)
    BY <1>1 DEF Slotted
  <1>6. at \in Int /\ plan.dispatch <= at /\ DateOf(Local(at)) = e
    BY <1>1, <1>2, <1>5, DeliveredOnTheDay DEF Gone
  <1>7. type \in Types /\ type # "order_cancelled"
    BY DEF Types, Endings
  <1>8. log' = Extended(log, type, at)
    BY <1>4, Zenon DEF Emit, Extended
  <1>9. /\ log' \in Seq(Event) /\ InOrder(log') /\ Len(log') > 0 /\ log'[1] = log[1]
        /\ \A i \in DOMAIN log' : log'[i].type \in Endings =>
             /\ log'[i].type = type /\ log'[i].at = at /\ log'[i - 1] = log[Len(log)]
    <2>1. Len(log) > 0 /\ log[Len(log)].at <= at
      BY <1>1, <1>6, Zenon DEF Gone
    <2> QED
      BY <1>1, <1>6, <1>7, <1>8, <2>1, EndsWith
  <1>10. OnAnOpenDay'
    <2>1. /\ e > day /\ Weekday(e) # premise.delivery_closed_isoweekday
      BY <1>5 DEF OnADay
    <2>2. /\ premise' = premise /\ day' = day /\ Local(at)' = Local(at)
      BY <1>1, SameClock
    <2>3. {"order_delivered", "order_delivery_failed"} \subseteq Endings
      BY DEF Endings
    <2>4. ASSUME NEW i \in DOMAIN log',
                 log'[i].type \in {"order_delivered", "order_delivery_failed"}
          PROVE  /\ DateOf(Local(log[i].at))' > day'
                 /\ Weekday(DateOf(Local(log[i].at)))' # premise'.delivery_closed_isoweekday
      <3>1. log'[i].at = at
        BY <1>9, <2>3, <2>4, Zenon
      <3>2. DateOf(Local(log[i].at))' = e
        BY <1>6, <2>2, <3>1 DEF Local
      <3>3. DateOf(Local(log[i].at))' > day'
        BY <2>1, <2>2, <3>2, Zenon
      <3>4. Weekday(DateOf(Local(log[i].at)))' = Weekday(e)
        BY <3>2, Zenon
      <3> QED
        BY <2>1, <2>2, <3>3, <3>4, Zenon
    <2> QED
      BY <2>4, Zenon DEF OnAnOpenDay
  <1>11. CancelledInTime'
    <2>1. "order_cancelled" \in Endings
      BY DEF Endings
    <2>2. \A i \in DOMAIN log' : log'[i].type # "order_cancelled"
      BY <1>7, <1>9, <2>1, Zenon
    <2> QED
      BY <2>2, Zenon DEF CancelledInTime
  <1>12. Over'
    BY <1>9, <1>10, <1>11, Zenon DEF Over
  <1>13. Placed' /\ Slotted'
    BY <1>1, <1>9, StillPlaced, StillSlotted, Zenon
  <1>14. CalendarTypeOK'
    BY <1>1, <1>4, <1>9, TypeIsKept
  <1>15. PremisesHold(premise)'
    BY <1>1, SameClock
  <1> QED
    BY <1>4, <1>12, <1>13, <1>14, <1>15 DEF CalendarInv

\* A return is after the delivery, whenever that was.
LEMMA ReturnKeepsTheCalendar ==
    ASSUME CalendarInv, Return
    PROVE  CalendarInv'
  <1>1. /\ UNCHANGED given /\ plan' = plan /\ CalendarTypeOK /\ PremisesHold(premise)
        /\ Placed /\ Slotted /\ Over /\ stage' = "done"
    BY DEF CalendarInv, Return
  <1>2. Setup
    BY <1>1, SettingIsGiven
  <1>3. PICK wait \in Bounds(premise.minutes_to_return) :
          Emit("order_returned", log[Len(log)].at + wait)
    BY Zenon DEF Return
  <1>4. PICK return : return = premise.minutes_to_return
    OBVIOUS
  <1>5. wait \in Nat
    <2>1. return[1] \in Nat /\ return[2] \in Nat /\ return[1] <= return[2]
          /\ wait \in Bounds(return)
      BY <1>2, <1>4, Pairs
    <2> QED
      BY <2>1, WaitIsBounded
  <1>6. PICK last \in Int, at \in Int : last = log[Len(log)].at /\ at = last + wait
    <2>1. Len(log) \in DOMAIN log
      BY <1>1 DEF Over
    <2>2. log[Len(log)].at \in Int
      BY <1>1, <2>1 DEF CalendarTypeOK
    <2> QED
      BY <1>5, <2>2
  <1>7. PICK type \in Types : type = "order_returned" /\ type \notin Endings
    <2>1. "order_returned" \in Types /\ "order_returned" \notin Endings
      BY DEF Types, Endings
    <2> QED
      BY <2>1
  <1>8. log' = Extended(log, type, at)
    BY <1>3, <1>6, <1>7, Zenon DEF Emit, Extended
  <1>9. log \in Seq(Event) /\ InOrder(log) /\ Len(log) > 0 /\ log[Len(log)].at <= at
    <2>1. last <= at
      BY <1>5, <1>6
    <2> QED
      BY <1>1, <1>6, <2>1, Zenon DEF Over
  <1>10. /\ log' \in Seq(Event) /\ Len(log') = Len(log) + 1
         /\ \A i \in 1 .. Len(log) : log'[i] = log[i]
         /\ log'[Len(log')].type = type
         /\ DOMAIN log' = 1 .. Len(log) + 1 /\ DOMAIN log = 1 .. Len(log) /\ Len(log) \in Nat
    BY <1>8, <1>9, OneEventMore
  <1>11. InOrder(log')
    BY <1>8, <1>9, OneLater
  <1>12. Len(log') > 0 /\ log'[1] = log[1]
    BY <1>9, <1>10
  <1>13. ASSUME NEW i \in DOMAIN log', log'[i].type \in Endings
         PROVE  i \in DOMAIN log /\ log'[i] = log[i]
    <2>1. i # Len(log')
      BY <1>7, <1>10, <1>13, Zenon
    <2>2. i \in 1 .. Len(log)
      BY <1>10, <2>1
    <2> QED
      BY <1>10, <2>2, Zenon
  <1>14. OnAnOpenDay'
    <2>1. /\ premise' = premise /\ day' = day /\ \A t : Local(t)' = Local(t)
      BY <1>1, SameClock
    <2>2. {"order_delivered", "order_delivery_failed"} \subseteq Endings
      BY DEF Endings
    <2>3. ASSUME NEW i \in DOMAIN log',
                 log'[i].type \in {"order_delivered", "order_delivery_failed"}
          PROVE  /\ DateOf(Local(log[i].at))' > day'
                 /\ Weekday(DateOf(Local(log[i].at)))' # premise'.delivery_closed_isoweekday
      <3>1. i \in DOMAIN log /\ log'[i] = log[i]
        BY <1>13, <2>2, <2>3, Zenon
      <3>2. log[i].type \in {"order_delivered", "order_delivery_failed"}
        BY <2>3, <3>1, Zenon
      <3>3. /\ DateOf(Local(log[i].at)) > day
            /\ Weekday(DateOf(Local(log[i].at))) # premise.delivery_closed_isoweekday
        BY <1>1, <3>1, <3>2, Zenon DEF Over, OnAnOpenDay
      <3>4. DateOf(Local(log[i].at))' = DateOf(Local(log[i].at))
        BY <1>1, <3>1 DEF Local, given
      <3>5. Weekday(DateOf(Local(log[i].at)))' = Weekday(DateOf(Local(log[i].at)))
        BY <3>4, Zenon
      <3> QED
        BY <2>1, <3>3, <3>4, <3>5, Zenon
    <2> QED
      BY <2>3, Zenon DEF OnAnOpenDay
  <1>15. CancelledInTime'
    <2>1. "order_cancelled" \in Endings
      BY DEF Endings
    <2>2. ASSUME NEW i \in DOMAIN log', log'[i].type = "order_cancelled"
          PROVE  log'[i - 1].at <= log'[i].at /\ log'[i].at < plan'.picking
      <3>1. i \in DOMAIN log /\ log'[i] = log[i]
        BY <1>13, <2>1, <2>2, Zenon
      <3>2. log[i - 1].at <= log[i].at /\ log[i].at < plan.picking
        BY <1>1, <2>2, <3>1, Zenon DEF Over, CancelledInTime
      <3>3. log'[i].at < plan'.picking
        BY <1>1, <3>1, <3>2, Zenon
      <3>4. CASE i > 1
        BY <1>11, <2>2, <3>3, <3>4, Zenon DEF InOrder
      <3>5. CASE i = 1
        BY <1>1, <2>1, <2>2, <3>1, <3>5, Zenon DEF Placed
      <3>6. i > 1 \/ i = 1
        BY <1>10
      <3> QED
        BY <3>4, <3>5, <3>6
    <2> QED
      BY <2>2, Zenon DEF CancelledInTime
  <1>16. Over'
    BY <1>11, <1>10, <1>12, <1>14, <1>15, Zenon DEF Over
  <1>17. Placed' /\ Slotted'
    BY <1>1, <1>12, StillPlaced, StillSlotted, Zenon
  <1>18. CalendarTypeOK'
    BY <1>1, <1>10, TypeIsKept
  <1>19. PremisesHold(premise)'
    BY <1>1, SameClock
  <1> QED
    BY <1>1, <1>16, <1>17, <1>18, <1>19 DEF CalendarInv

\* From the start of picking to the dispatch, a line changed in between or none.
LEMMA PickKeepsTheCalendar ==
    ASSUME CalendarInv, Pick
    PROVE  CalendarInv'
  <1>1. /\ UNCHANGED given /\ plan' = plan /\ CalendarTypeOK /\ PremisesHold(premise)
        /\ Placed /\ Slotted /\ Running(log) /\ Paid /\ Scheduled /\ stage' = "dispatched"
    BY DEF CalendarInv, Pick
  <1>2. Setup
    BY <1>1, SettingIsGiven
  <1>3. PICK changed \in {{}, {1}, {plan.lines}} :
          log' = log
           \o << [type |-> "order_picking_started", at |-> plan.picking] >>
           \o (IF changed = {} THEN << >>
               ELSE << [type |-> "order_line_removed",
                        at |-> plan.picking + premise.minutes_per_line_picked * Minute
                                                * (CHOOSE l \in changed : TRUE)] >>)
           \o << [type |-> "order_picked", at |-> plan.picked],
                 [type |-> "order_dispatched", at |-> plan.dispatch] >>
    BY Zenon DEF Pick
  <1>4. PICK started \in Types, removed \in Types, picked \in Types, dispatched \in Types :
          /\ started = "order_picking_started" /\ removed = "order_line_removed"
          /\ picked = "order_picked" /\ dispatched = "order_dispatched"
          /\ {started, removed, picked, dispatched} \cap Endings = {}
    <2>1. /\ "order_picking_started" \in Types /\ "order_line_removed" \in Types
          /\ "order_picked" \in Types /\ "order_dispatched" \in Types
      BY DEF Types
    <2>2. {"order_picking_started", "order_line_removed", "order_picked", "order_dispatched"}
            \cap Endings = {}
      BY DEF Endings
    <2> QED
      BY <2>1, <2>2
  <1>5. PICK paid \in Int, a \in Int, c \in Int, d \in Int, start \in Int :
          /\ paid = log[2].at /\ a = plan.picking /\ c = plan.picked /\ d = plan.dispatch
          /\ start = plan.start /\ paid <= a /\ a <= c /\ c <= d /\ d <= start
    <2>1. 2 \in DOMAIN log
      BY <1>1 DEF Running, Paid
    <2>2. PICK paid \in Int, a \in Int, c \in Int, d \in Int, work \in Nat :
            /\ paid = log[2].at /\ a = plan.picking /\ c = plan.picked /\ d = plan.dispatch
            /\ work = premise.minutes_per_line_picked * Minute * plan.lines
      BY <1>1, <2>1, Zenon DEF Scheduled, CalendarTypeOK
    <2>3. paid + 2 <= a /\ c = a + work /\ c <= d
      BY <1>1, <2>2 DEF Scheduled, Minute
    <2>4. PICK e, o : OnADay(e, o)
      BY <1>1 DEF Slotted
    <2>5. PICK start \in Int : start = plan.start
      BY <1>2, <2>4, SlotNumbers
    <2>6. d <= start
      BY <1>1, <2>2, <2>5, Zenon DEF Scheduled
    <2>7. paid <= a /\ a <= c
      BY <2>3
    <2> QED
      BY <2>2, <2>3, <2>5, <2>6, <2>7
  <1>6. PICK s1 : s1 = Extended(log, started, a)
    OBVIOUS
  <1>7. /\ Running(s1) /\ Len(s1) = Len(log) + 1 /\ s1[Len(s1)].at = a
        /\ Len(log) > 0 => s1[1] = log[1]
    <2>1. Len(log) > 0 => log[Len(log)].at <= a
      BY <1>1, <1>5, Zenon DEF Paid
    <2>2. started \notin Endings
      BY <1>4
    <2> QED
      BY <1>1, <1>6, <2>1, <2>2, RunsOn
  <1>8. Len(log) > 0 /\ Len(s1) > 0 /\ s1[1] = log[1]
    BY <1>1, <1>7 DEF Paid
  <1>9. PICK b \in Int :
          /\ a <= b /\ b <= c
          /\ changed # {} =>
               b = plan.picking + premise.minutes_per_line_picked * Minute
                                    * (CHOOSE l \in changed : TRUE)
    <2>1. PICK each \in Nat : each = premise.minutes_per_line_picked
      BY <1>2 DEF Setup, IsTable
    <2>2. PICK lines \in Nat : lines = plan.lines /\ 1 <= lines
      <3>1. PICK basket : basket = premise.basket_lines
        OBVIOUS
      <3>2. PICK e, o : OnADay(e, o)
        BY <1>1 DEF Slotted
      <3>3. plan.lines \in {basket[1], basket[2]}
        BY <3>1, <3>2, Zenon DEF OnADay
      <3>4. basket[1] \in Nat /\ basket[2] \in Nat /\ basket[1] <= basket[2]
        BY <1>2, <3>1, Pairs
      <3>5. basket[1] >= 1
        BY <1>2, <3>1, Zenon DEF Setup, PremisesHold
      <3> QED
        BY <3>3, <3>4, <3>5
    <2>3. PICK k \in Nat : k = each * Minute
      BY DEF Minute
    <2>4. c = a + k * lines
      BY <1>1, <1>5, <2>1, <2>2, <2>3, Zenon DEF Scheduled
    <2>5. CASE changed = {}
      BY <1>5, <2>5
    <2>6. CASE changed # {}
      <3>1. changed = {1} \/ changed = {lines}
        BY <2>2, <2>6
      <3>2. PICK n \in Nat : n = (CHOOSE l \in changed : TRUE)
        BY <3>1
      <3>3. n \in changed
        BY <2>6, <3>2
      <3>4. n = 1 \/ n = lines
        BY <3>1, <3>3
      <3>5. n <= lines
        BY <2>2, <3>4
      <3>6. k * n \in Nat /\ k * lines \in Nat /\ k * n <= k * lines
        BY <3>5, PickingMinutes
      <3>7. PICK b \in Int : b = a + k * n
        BY <3>6
      <3>8. a <= b /\ b <= c
        BY <2>4, <3>6, <3>7
      <3>9. b = plan.picking + premise.minutes_per_line_picked * Minute
                                 * (CHOOSE l \in changed : TRUE)
        BY <1>5, <2>1, <2>3, <3>2, <3>7, Zenon
      <3> QED
        BY <3>8, <3>9, Zenon
    <2> QED
      BY <2>5, <2>6
  <1>10. PICK s2 : s2 = IF changed = {} THEN s1 ELSE Extended(s1, removed, b)
    OBVIOUS
  <1>11. Running(s2) /\ Len(s2) > 0 /\ s2[1] = log[1] /\ s2[Len(s2)].at <= c
    <2>1. CASE changed = {}
      <3>1. s2 = s1
        BY <1>10, <2>1, Zenon
      <3> QED
        BY <1>5, <1>7, <1>8, <3>1, Zenon
    <2>2. CASE changed # {}
      <3>1. s2 = Extended(s1, removed, b) /\ removed \notin Endings
        BY <1>4, <1>10, <2>2
      <3>2. Len(s1) > 0 => s1[Len(s1)].at <= b
        BY <1>7, <1>9, Zenon
      <3>3. /\ Running(s2) /\ Len(s2) = Len(s1) + 1 /\ s2[Len(s2)].at = b
            /\ Len(s1) > 0 => s2[1] = s1[1]
        BY <1>7, <3>1, <3>2, RunsOn
      <3>4. Len(s2) > 0
        BY <1>7, <1>8, <3>3 DEF Running
      <3> QED
        BY <1>8, <1>9, <3>3, <3>4, Zenon
    <2> QED
      BY <2>1, <2>2
  <1>12. PICK s3 : s3 = Extended(s2, picked, c)
    OBVIOUS
  <1>13. /\ Running(s3) /\ Len(s3) = Len(s2) + 1 /\ s3[Len(s3)].at = c
         /\ Len(s2) > 0 => s3[1] = s2[1]
    <2>1. picked \notin Endings
      BY <1>4
    <2> QED
      BY <1>11, <1>12, <2>1, RunsOn
  <1>14. Len(s3) > 0 /\ s3[1] = log[1] /\ s3[Len(s3)].at <= d
    BY <1>5, <1>11, <1>13 DEF Running
  <1>15. PICK s4 : s4 = Extended(s3, dispatched, d)
    OBVIOUS
  <1>16. /\ Running(s4) /\ Len(s4) = Len(s3) + 1 /\ s4[Len(s4)].at = d
         /\ Len(s3) > 0 => s4[1] = s3[1]
    <2>1. dispatched \notin Endings
      BY <1>4
    <2> QED
      BY <1>13, <1>14, <1>15, <2>1, RunsOn
  <1>17. log' = s4
    <2> DEFINE middle ==
            IF changed = {} THEN << >>
            ELSE << [type |-> "order_line_removed",
                     at |-> plan.picking + premise.minutes_per_line_picked * Minute
                                             * (CHOOSE l \in changed : TRUE)] >>
    <2>1. log' = ((log \o << [type |-> "order_picking_started", at |-> plan.picking] >>)
                     \o middle)
                    \o << [type |-> "order_picked", at |-> plan.picked],
                          [type |-> "order_dispatched", at |-> plan.dispatch] >>
      BY <1>3
    <2> HIDE DEF middle
    <2>2. log' = ((log \o << [type |-> started, at |-> a] >>) \o middle)
                   \o << [type |-> picked, at |-> c], [type |-> dispatched, at |-> d] >>
      <3>1. [type |-> started, at |-> a] = [type |-> "order_picking_started", at |-> plan.picking]
        BY <1>4, <1>5, Zenon
      <3>3. [type |-> picked, at |-> c] = [type |-> "order_picked", at |-> plan.picked]
        BY <1>4, <1>5, Zenon
      <3>4. [type |-> dispatched, at |-> d]
              = [type |-> "order_dispatched", at |-> plan.dispatch]
        BY <1>4, <1>5, Zenon
      <3> QED
        BY <2>1, <3>1, <3>3, <3>4, Zenon
    <2>3. log \in Seq(Event) /\ s1 \in Seq(Event) /\ s2 \in Seq(Event)
      BY <1>1, <1>7, <1>11 DEF Running
    <2>4. s1 = log \o << [type |-> started, at |-> a] >>
      BY <1>6, <2>3, ExtendedBy, Zenon
    <2>5. s2 = s1 \o middle
      <3>1. CASE changed = {}
        <4>1. middle = << >> /\ s2 = s1
          BY <1>10, <3>1, Zenon DEF middle
        <4> QED
          BY <2>3, <4>1
      <3>2. CASE changed # {}
        <4>1. middle = << [type |-> removed, at |-> b] >>
          BY <1>4, <1>9, <3>2, Zenon DEF middle
        <4>2. s2 = Extended(s1, removed, b)
          BY <1>10, <3>2, Zenon
        <4> QED
          BY <2>3, <4>1, <4>2, ExtendedBy, Zenon
      <3> QED
        BY <3>1, <3>2
    <2>6. s4 = s2 \o << [type |-> picked, at |-> c], [type |-> dispatched, at |-> d] >>
      <3>1. PICK e \in Event, f \in Event :
              e = [type |-> picked, at |-> c] /\ f = [type |-> dispatched, at |-> d]
        BY DEF Event
      <3>2. s4 = Append(Append(s2, e), f)
        BY <1>12, <1>15, <3>1, Zenon DEF Extended
      <3>3. Append(Append(s2, e), f) = s2 \o << e, f >>
        BY <2>3, AppendTwo
      <3> QED
        BY <3>1, <3>2, <3>3, Zenon
    <2> QED
      BY <2>2, <2>4, <2>5, <2>6, Zenon
  <1>18. Len(log') > 0 /\ log'[1] = log[1] /\ Running(log') /\ log'[Len(log')].at = d
    <2>1. Len(s4) > 0
      BY <1>13, <1>14, <1>16 DEF Running
    <2> QED
      BY <1>14, <1>16, <1>17, <2>1, Zenon
  <1>19. Gone'
    <2>1. plan'.dispatch = d /\ plan'.dispatch <= plan'.start /\ plan'.dispatch \in Int
      BY <1>1, <1>5, Zenon
    <2> QED
      BY <1>18, <2>1, Zenon DEF Gone
  <1>20. Placed' /\ Slotted'
    BY <1>1, <1>18, StillPlaced, StillSlotted, Zenon
  <1>21. CalendarTypeOK'
    BY <1>1, <1>18, TypeIsKept DEF Running
  <1>22. PremisesHold(premise)'
    BY <1>1, SameClock
  <1> QED
    BY <1>1, <1>18, <1>19, <1>20, <1>21, <1>22 DEF CalendarInv

LEMMA CalendarInvIsKept ==
    ASSUME CalendarInv, [CalendarNext]_calendarVars
    PROVE  CalendarInv'
  <1>1. CASE Start
    BY <1>1, StartKeepsTheCalendar
  <1>2. CASE Place
    BY <1>2, PlaceKeepsTheCalendar
  <1>3. CASE Pay
    BY <1>3, PayKeepsTheCalendar
  <1>4. CASE Plan
    BY <1>4, PlanKeepsTheCalendar
  <1>5. CASE Cancel
    BY <1>5, CancelKeepsTheCalendar
  <1>6. CASE Pick
    BY <1>6, PickKeepsTheCalendar
  <1>7. CASE Deliver
    BY <1>7, DeliverKeepsTheCalendar
  <1>8. CASE Return
    BY <1>8, ReturnKeepsTheCalendar
  <1>9. CASE UNCHANGED calendarVars
    <2>1. /\ UNCHANGED given /\ log' = log /\ plan' = plan /\ stage' = stage
          /\ premise' = premise /\ schedule' = schedule /\ day' = day /\ clock' = clock
      BY <1>9 DEF calendarVars, given
    <2>2. CalendarTypeOK'
      BY <2>1, Zenon DEF CalendarInv, CalendarTypeOK
    <2>3. Placed' <=> Placed
      BY <2>1, SameClock, Zenon DEF Placed
    <2>4. Slotted => Slotted'
      BY <2>1, StillSlotted, Zenon
    <2>5. (Paid' <=> Paid) /\ (Scheduled' <=> Scheduled) /\ (Gone' <=> Gone)
      BY <2>1, Zenon DEF Paid, Scheduled, Gone
    <2>6. Over' <=> Over
      BY <2>1, SameClock, Zenon DEF Over, OnAnOpenDay, CancelledInTime
    <2> QED
      BY <2>1, <2>2, <2>3, <2>4, <2>5, <2>6, Zenon DEF CalendarInv
  <1> QED
    BY <1>1, <1>2, <1>3, <1>4, <1>5, <1>6, <1>7, <1>8, <1>9 DEF CalendarNext

LEMMA CalendarBegins ==
    ASSUME CalendarInit
    PROVE  CalendarInv
  <1>1. CalendarTypeOK
    <2>1. log = << >> /\ stage = "premises"
      BY DEF CalendarInit
    <2>2. \A i \in DOMAIN log : log[i].at \in Int
      BY <2>1
    <2> QED
      BY <2>1, <2>2, Zenon DEF CalendarTypeOK, CalendarInit
  <1>2. stage = "premises" /\ log = << >>
    BY DEF CalendarInit
  <1>3. Running(log)
    BY <1>2, NothingRuns, Zenon
  <1> QED
    BY <1>1, <1>2, <1>3 DEF CalendarInv

LEMMA CalendarInvSays ==
    ASSUME CalendarInv
    PROVE  CalendarIsKept
  <1>1. CalendarTypeOK
    BY DEF CalendarInv
  <1>2. OneOrderPerCadence
    BY <1>1, SettingIsGiven, CadenceIsKept DEF OneOrderPerCadence
  <1>3. NoDrawIsRefused
    BY DEF CalendarInv, NoDrawIsRefused
  <1>4. CancelledInTime
    <2>1. CASE stage \in {"return", "done"}
      BY <2>1 DEF CalendarInv, Over
    <2>2. CASE stage \notin {"return", "done"}
      <3>1. \A i \in DOMAIN log : log[i].type \notin Endings
        BY <2>2 DEF CalendarInv, Running
      <3>2. "order_cancelled" \in Endings
        BY DEF Endings
      <3> QED
        BY <3>1, <3>2, Zenon DEF CancelledInTime
    <2> QED
      BY <2>1, <2>2
  <1>5. AFreshOrderIsAccepted
    <2> SUFFICES ASSUME stage = "done" PROVE LogAccepted
      BY DEF AFreshOrderIsAccepted
    <2>1. Over /\ Placed /\ Slotted /\ PremisesHold(premise)
      BY DEF CalendarInv
    <2>2. Setup
      BY <1>1, <2>1, SettingIsGiven
    <2>3. PICK e, o : OnADay(e, o)
      BY <2>1 DEF Slotted
    <2>4. /\ DateOf(Local(plan.start)) = e /\ DateOf(Local(plan.end)) = e
          /\ HourOf(Local(plan.start)) >= premise.delivery_open_hour
          /\ Local(plan.end) % FullDay <= premise.delivery_close_hour * Hour
      BY <2>2, <2>3, SlotIsInTheCalendar
    <2>5. e > day /\ Weekday(e) # premise.delivery_closed_isoweekday
      BY <2>3 DEF OnADay
    <2>6. DateOf(log[1].at) = day /\ DateOf(Local(log[1].at)) = day
      BY <2>1 DEF Placed
    <2>7. CalendarHolds
      BY <2>1, <2>4, <2>5, <2>6, Zenon DEF CalendarHolds, Over, OnAnOpenDay
    <2> QED
      BY <2>1, <2>6, <2>7, Zenon DEF LogAccepted, Over, InOrder
  <1> QED
    BY <1>2, <1>3, <1>4, <1>5 DEF CalendarIsKept

\* The calendar of the generator is inductive: before the delivery nothing of the log ends
\* the order, and the plan keeps the night before the slot free.
THEOREM CalendarInvariantHolds == CalendarSpec => []CalendarInv
  <1>1. CalendarInit => CalendarInv
    BY CalendarBegins
  <1>2. CalendarInv /\ [CalendarNext]_calendarVars => CalendarInv'
    BY CalendarInvIsKept
  <1> QED
    BY <1>1, <1>2, PTL DEF CalendarSpec

\* _lifecycle and is_scheduled, for every setting of the assumption: an order's instants are
\* in the order and the hours validate.py demands, no draw is refused, a cancellation is
\* before the picking, and a customer has one order per cadence.
THEOREM CalendarAlwaysKept == CalendarSpec => []CalendarIsKept
  BY CalendarInvariantHolds, CalendarInvSays, PTL

=============================================================================
