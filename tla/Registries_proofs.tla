--------------------------- MODULE Registries_proofs ---------------------------
(***************************************************************************)
(* Theorems about the registries, for any number of files in any order,    *)
(* any headers, schemas, ids and versions, and under other file names; and *)
(* about the paths of artifacts and migrations.                            *)
(***************************************************************************)
EXTENDS RegistriesProperties, SequenceTheorems, FiniteSetTheorems, FunctionTheorems,
        WellFoundedInduction, TLAPS

-----------------------------------------------------------------------------
(* Folds.  A fold takes the greatest index of a set of indices last, so    *)
(* that on the indices 1 .. n it is a loop over the first n files.         *)

LEMMA LeastExists ==
  ASSUME NEW T \in SUBSET Nat, T # {}  PROVE \E m \in T : \A n \in T : m <= n
<1> DEFINE R == OpToRel(<, Nat)
<1>1. IsWellFoundedOn(R, Nat)
  BY NatLessThanWellFounded, Zenon
<1>2. \A x \in T, y \in T : y < x => <<y, x>> \in R
  BY DEF OpToRel
<1> HIDE DEF R
<1>3. \E x \in T : \A y \in T : ~ (<<y, x>> \in R)
  BY <1>1, WFMin
<1>4. \A x, y \in T : ~(y < x) => x <= y
  OBVIOUS
<1>5. QED  BY <1>2, <1>3, <1>4

(* What holds of 0 and of n + 1 when it holds of n, holds of all.          *)
LEMMA NoCounterexample ==
  ASSUME NEW T \in SUBSET Nat, 0 \notin T, \A n \in Nat : n + 1 \in T => n \in T
  PROVE  T = {}
<1> SUFFICES ASSUME T # {}  PROVE FALSE
  OBVIOUS
<1>1. PICK m \in T : \A n \in T : m <= n
  BY LeastExists
<1>2. m - 1 \in Nat /\ (m - 1) + 1 = m /\ ~(m <= m - 1)
  OBVIOUS
<1>3. QED  BY <1>1, <1>2

LEMMA MaxFacts ==
  ASSUME NEW n \in Nat, NEW s \in SUBSET (1 .. n), s # {}
  PROVE  Max(s) \in s /\ \A y \in s : Max(s) >= y
<1> DEFINE T == {n - y : y \in s}
<1>1. T \in SUBSET Nat /\ T # {}
  <2>1. \A y \in s : n - y \in Nat
    OBVIOUS
  <2>2. QED  BY <2>1
<1>2. PICK m \in T : \A k \in T : m <= k
  BY <1>1, LeastExists
<1>3. PICK x \in s : m = n - x
  BY <1>2
<1>4. \A y \in s : x >= y
  <2> SUFFICES ASSUME NEW y \in s  PROVE x >= y
    OBVIOUS
  <2>1. n - y \in T /\ x \in 1 .. n /\ y \in 1 .. n
    OBVIOUS
  <2>2. n - x <= n - y
    BY <1>2, <1>3, <2>1
  <2> HIDE DEF T
  <2>3. QED  BY <2>1, <2>2
<1>5. QED  BY <1>4 DEF Max

LEMMA MaxOfInterval ==
  ASSUME NEW n \in Nat \ {0}
  PROVE  Max(1 .. n) = n /\ (1 .. n) \ {Max(1 .. n)} = 1 .. n - 1
<1>1. n \in 1 .. n /\ 1 .. n # {}
  OBVIOUS
<1>2. Max(1 .. n) \in 1 .. n /\ Max(1 .. n) >= n
  BY <1>1, MaxFacts
<1>3. QED  BY <1>2

-----------------------------------------------------------------------------
(* buildMigrationRegistry as a loop *)

Start == [entries |-> <<>>, issues |-> <<>>]

IsFold(g, files, n) ==
  g = [s \in SUBSET (1 .. n) |->
         IF s = {} THEN Start
         ELSE LET x == Max(s) IN IndexMigration(g[s \ {x}], files[x])]

LEMMA FoldExists ==
  ASSUME NEW files, NEW n \in Nat  PROVE \E g : IsFold(g, files, n)
<1> DEFINE Without == {m \in Nat : ~ \E g : IsFold(g, files, m)}
<1>1. 0 \notin Without
  <2> DEFINE g == [s \in SUBSET (1 .. 0) |-> Start]
  <2>1. SUBSET (1 .. 0) = {{}}
    OBVIOUS
  <2>2. IsFold(g, files, 0)
    BY <2>1 DEF IsFold
  <2> HIDE DEF g
  <2>3. QED  BY <2>2
<1>2. ASSUME NEW m \in Nat, NEW g, IsFold(g, files, m)  PROVE \E h : IsFold(h, files, m + 1)
  <2> DEFINE S == SUBSET (1 .. m + 1)
             Step(s) == LET x == Max(s) IN IndexMigration(g[s \ {x}], files[x])
             h == [s \in S |-> IF s = {} THEN Start ELSE Step(s)]
  <2>1. ASSUME NEW s \in S, s # {}
        PROVE  s \ {Max(s)} \in SUBSET (1 .. m)
    <3>1. m + 1 \in Nat /\ s \in SUBSET (1 .. m + 1)
      OBVIOUS
    <3>2. Max(s) \in s /\ \A y \in s : Max(s) >= y
      BY <2>1, <3>1, MaxFacts
    <3>3. ASSUME NEW y \in s \ {Max(s)}  PROVE y \in 1 .. m
      <4>1. y \in 1 .. m + 1 /\ Max(s) \in 1 .. m + 1 /\ y <= Max(s) /\ y # Max(s)
        BY <3>1, <3>2
      <4>2. QED  BY <4>1
    <3>4. QED  BY <3>3
  <2>2. ASSUME NEW t \in SUBSET (1 .. m)  PROVE h[t] = g[t]
    <3>1. t \in S
      OBVIOUS
    <3>2. g[t] = IF t = {} THEN Start ELSE Step(t)
      BY <1>2 DEF IsFold
    <3>3. QED  BY <3>1, <3>2
  <2>3. \A s \in S : s # {} => h[s \ {Max(s)}] = g[s \ {Max(s)}]
    BY <2>1, <2>2
  <2>4. h = [s \in S |-> IF s = {} THEN Start
                         ELSE LET x == Max(s) IN IndexMigration(h[s \ {x}], files[x])]
    BY <2>3
  <2> HIDE DEF h
  <2>5. IsFold(h, files, m + 1)
    BY <2>4 DEF IsFold
  <2>6. QED  BY <2>5
<1>3. \A m \in Nat : m + 1 \in Without => m \in Without
  BY <1>2
<1>4. Without = {}
  BY <1>1, <1>3, NoCounterexample
<1>5. QED  BY <1>4

(* The registry after the first n files.                                   *)
Done(files, n) == (CHOOSE g : IsFold(g, files, Len(files)))[1 .. n]

LEMMA DoneFacts ==
  ASSUME NEW files, Len(files) \in Nat, DOMAIN files = 1 .. Len(files)
  PROVE  /\ buildMigrationRegistry(files) = Done(files, Len(files))
         /\ Done(files, 0) = Start
         /\ \A n \in 1 .. Len(files) :
              Done(files, n) = IndexMigration(Done(files, n - 1), files[n])
<1> DEFINE fold == CHOOSE g : IsFold(g, files, Len(files))
<1>1. IsFold(fold, files, Len(files))
  BY FoldExists
<1>2. buildMigrationRegistry(files) = Done(files, Len(files))
  BY DEF buildMigrationRegistry, FoldLeft, MapThenFoldSet, IsFold, Done, Start
<1> HIDE DEF fold
<1>3. fold[{}] = Start
  BY <1>1 DEF IsFold
<1>4. 1 .. 0 = {}
  OBVIOUS
<1>5. ASSUME NEW n \in 1 .. Len(files)
      PROVE  fold[1 .. n] = IndexMigration(fold[1 .. n - 1], files[n])
  <2>1. 1 .. n \in SUBSET (1 .. Len(files)) /\ 1 .. n # {} /\ n \in Nat \ {0}
    <3>1. n \in 1 .. n /\ n \in Nat \ {0}
      OBVIOUS
    <3>2. \A i \in 1 .. n : i \in 1 .. Len(files)
      OBVIOUS
    <3>3. QED  BY <3>1, <3>2
  <2>2. fold[1 .. n] = LET x == Max(1 .. n) IN IndexMigration(fold[(1 .. n) \ {x}], files[x])
    BY <1>1, <2>1 DEF IsFold
  <2>3. QED  BY <2>1, <2>2, MaxOfInterval
<1>6. QED  BY <1>2, <1>3, <1>4, <1>5 DEF Done, fold

-----------------------------------------------------------------------------
(* What the loop has put into the registry after n files: the first of the *)
(* good files of each key; and what it has said of the others.             *)

Good(files, i)  == parseMigrationProvenance(files[i].header) = "ok"
KeyAt(files, i) == KeyOf(files[i].header)
First(files, i) == /\ Good(files, i)
                   /\ \A j \in 1 .. i - 1 : Good(files, j) => KeyAt(files, j) # KeyAt(files, i)
EntryAt(files, i) == [key |-> KeyAt(files, i), path |-> files[i].name]

Earlier(files, i) == {j \in 1 .. i - 1 : First(files, j) /\ KeyAt(files, j) = KeyAt(files, i)}
Torn(files, i) == Issue("integrity_error", {files[i].name})
Twin(files, i) ==
  Issue("duplicate_migration", {files[j].name : j \in Earlier(files, i)} \cup {files[i].name})

EntriesAfter(files, n) == {EntryAt(files, i) : i \in {j \in 1 .. n : First(files, j)}}
IssuesAfter(files, n) ==
  {Torn(files, i) : i \in {j \in 1 .. n : ~Good(files, j)}}
  \cup {Twin(files, i) : i \in {j \in 1 .. n : Good(files, j) /\ ~First(files, j)}}

Indexed(files, n, done) ==
  /\ done = [entries |-> done.entries, issues |-> done.issues]
  /\ done.entries \in Seq(EntriesAfter(files, n)) /\ ToSet(done.entries) = EntriesAfter(files, n)
  /\ done.issues \in Seq(IssuesAfter(files, n)) /\ ToSet(done.issues) = IssuesAfter(files, n)

LEMMA AppendRange ==
  \A S, e : \A s \in Seq(S) : /\ Append(s, e) \in Seq(S \cup {e})
                              /\ ToSet(Append(s, e)) = ToSet(s) \cup {e}
<1> SUFFICES ASSUME NEW S, NEW e, NEW s \in Seq(S)
             PROVE  /\ Append(s, e) \in Seq(S \cup {e})
                    /\ ToSet(Append(s, e)) = ToSet(s) \cup {e}
  OBVIOUS
<1>1. Append(s, e) \in Seq(S \cup {e})
  OBVIOUS
<1>2. /\ DOMAIN Append(s, e) = 1 .. Len(s) + 1 /\ Len(s) \in Nat
      /\ \A k \in 1 .. Len(s) : Append(s, e)[k] = s[k]
      /\ Append(s, e)[Len(s) + 1] = e /\ DOMAIN s = 1 .. Len(s)
  OBVIOUS
<1>3. 1 .. Len(s) + 1 = (1 .. Len(s)) \cup {Len(s) + 1}
  BY <1>2
<1>4. QED  BY <1>1, <1>2, <1>3 DEF ToSet

(* The good files of a key have a first one.                               *)
LEMMA FirstExists ==
  ASSUME NEW files, NEW i \in Nat \ {0}, Good(files, i), ~First(files, i)
  PROVE  \E j \in 1 .. i - 1 : First(files, j) /\ KeyAt(files, j) = KeyAt(files, i)
<1> DEFINE T == {j \in 1 .. i - 1 : Good(files, j) /\ KeyAt(files, j) = KeyAt(files, i)}
<1>1. T \in SUBSET Nat /\ T # {}
  BY DEF First
<1>2. PICK m \in T : \A k \in T : m <= k
  BY <1>1, LeastExists
<1>3. ASSUME NEW j \in 1 .. m - 1, Good(files, j), KeyAt(files, j) = KeyAt(files, m)  PROVE FALSE
  <2>1. j \in 1 .. i - 1 /\ ~(m <= j)
    OBVIOUS
  <2>2. j \in T
    BY <1>3, <2>1
  <2>3. QED  BY <1>2, <2>1, <2>2
<1>4. First(files, m)
  BY <1>3 DEF First
<1>5. QED  BY <1>4

LEMMA EntriesStep ==
  ASSUME NEW files, NEW n \in Nat \ {0}
  PROVE  /\ First(files, n) =>
              EntriesAfter(files, n) = EntriesAfter(files, n - 1) \cup {EntryAt(files, n)}
         /\ ~First(files, n) => EntriesAfter(files, n) = EntriesAfter(files, n - 1)
         /\ ~Good(files, n) =>
              IssuesAfter(files, n) = IssuesAfter(files, n - 1) \cup {Torn(files, n)}
         /\ Good(files, n) /\ ~First(files, n) =>
              IssuesAfter(files, n) = IssuesAfter(files, n - 1) \cup {Twin(files, n)}
         /\ First(files, n) => IssuesAfter(files, n) = IssuesAfter(files, n - 1)
<1>1. 1 .. n = (1 .. n - 1) \cup {n}
  OBVIOUS
<1>2. First(files, n) => Good(files, n)
  BY DEF First
<1>3. QED  BY <1>1, <1>2 DEF EntriesAfter, IssuesAfter

LEMMA AppendTo ==
  ASSUME NEW done, NEW es, NEW is, NEW e, done = [entries |-> es, issues |-> is]
  PROVE  /\ [done EXCEPT !.issues = Append(@, e)] = [entries |-> es, issues |-> Append(is, e)]
         /\ [done EXCEPT !.entries = Append(@, e)] = [entries |-> Append(es, e), issues |-> is]
<1>1. ASSUME NEW v  PROVE /\ [done EXCEPT !.issues = v] = [entries |-> es, issues |-> v]
                         /\ [done EXCEPT !.entries = v] = [entries |-> v, issues |-> is]
  OBVIOUS
<1>2. done.issues = is /\ done.entries = es
  OBVIOUS
<1>3. /\ [done EXCEPT !.issues = Append(@, e)] = [done EXCEPT !.issues = Append(done.issues, e)]
      /\ [done EXCEPT !.entries = Append(@, e)] = [done EXCEPT !.entries = Append(done.entries, e)]
  OBVIOUS
<1>4. /\ [done EXCEPT !.issues = Append(is, e)] = [entries |-> es, issues |-> Append(is, e)]
      /\ [done EXCEPT !.entries = Append(es, e)] = [entries |-> Append(es, e), issues |-> is]
  BY <1>1
<1>5. QED  BY <1>2, <1>3, <1>4

(* A registry that is as it should be, with one more issue or entry.       *)
LEMMA IndexedMore ==
  ASSUME NEW files, NEW n, NEW m, NEW es, NEW is, NEW e,
         es \in Seq(EntriesAfter(files, m)), ToSet(es) = EntriesAfter(files, m),
         is \in Seq(IssuesAfter(files, m)), ToSet(is) = IssuesAfter(files, m)
  PROVE  /\ /\ EntriesAfter(files, n) = EntriesAfter(files, m)
            /\ IssuesAfter(files, n) = IssuesAfter(files, m) \cup {e}
            => Indexed(files, n, [entries |-> es, issues |-> Append(is, e)])
         /\ /\ EntriesAfter(files, n) = EntriesAfter(files, m) \cup {e}
            /\ IssuesAfter(files, n) = IssuesAfter(files, m)
            => Indexed(files, n, [entries |-> Append(es, e), issues |-> is])
<1>1. /\ Append(is, e) \in Seq(IssuesAfter(files, m) \cup {e})
      /\ ToSet(Append(is, e)) = ToSet(is) \cup {e}
      /\ Append(es, e) \in Seq(EntriesAfter(files, m) \cup {e})
      /\ ToSet(Append(es, e)) = ToSet(es) \cup {e}
  BY AppendRange, Zenon
<1>2. ASSUME NEW x, NEW y, x \in Seq(EntriesAfter(files, n)), ToSet(x) = EntriesAfter(files, n),
             y \in Seq(IssuesAfter(files, n)), ToSet(y) = IssuesAfter(files, n)
      PROVE  Indexed(files, n, [entries |-> x, issues |-> y])
  <2> DEFINE done == [entries |-> x, issues |-> y]
  <2>1. done.entries = x /\ done.issues = y
    OBVIOUS
  <2> HIDE DEF done
  <2>2. done = [entries |-> done.entries, issues |-> done.issues]
    BY <2>1 DEF done
  <2>3. Indexed(files, n, done)
    BY <1>2, <2>1, <2>2 DEF Indexed
  <2>4. QED  BY <2>3 DEF done
<1>3. ASSUME EntriesAfter(files, n) = EntriesAfter(files, m),
             IssuesAfter(files, n) = IssuesAfter(files, m) \cup {e}
      PROVE  Indexed(files, n, [entries |-> es, issues |-> Append(is, e)])
  <2> DEFINE y == Append(is, e)
  <2>1. y \in Seq(IssuesAfter(files, n)) /\ ToSet(y) = IssuesAfter(files, n)
    BY <1>1, <1>3
  <2> HIDE DEF y
  <2>2. Indexed(files, n, [entries |-> es, issues |-> y])
    BY <1>2, <1>3, <2>1
  <2>3. QED  BY <2>2 DEF y
<1>4. ASSUME EntriesAfter(files, n) = EntriesAfter(files, m) \cup {e},
             IssuesAfter(files, n) = IssuesAfter(files, m)
      PROVE  Indexed(files, n, [entries |-> Append(es, e), issues |-> is])
  <2> DEFINE x == Append(es, e)
  <2>1. x \in Seq(EntriesAfter(files, n)) /\ ToSet(x) = EntriesAfter(files, n)
    BY <1>1, <1>4
  <2> HIDE DEF x
  <2>2. Indexed(files, n, [entries |-> x, issues |-> is])
    BY <1>2, <1>4, <2>1
  <2>3. QED  BY <2>2 DEF x
<1>5. QED  BY <1>3, <1>4

(* What one more file does: a torn header and a twin are issues, the first *)
(* good file of a key is an entry.                                         *)
Said(done, issue) == [entries |-> done.entries, issues |-> Append(done.issues, issue)]
Put(done, entry)  == [entries |-> Append(done.entries, entry), issues |-> done.issues]

LEMMA IndexCases ==
  ASSUME NEW files, NEW n \in Nat \ {0}, NEW done, Indexed(files, n - 1, done)
  PROVE  /\ ~Good(files, n) => IndexMigration(done, files[n]) = Said(done, Torn(files, n))
         /\ Good(files, n) /\ ~First(files, n) =>
              IndexMigration(done, files[n]) = Said(done, Twin(files, n))
         /\ First(files, n) => IndexMigration(done, files[n]) = Put(done, EntryAt(files, n))
<1> DEFINE next == IndexMigration(done, files[n])
           existing == {e \in ToSet(done.entries) : e.key = KeyOf(files[n].header)}
<1>1. /\ done = [entries |-> done.entries, issues |-> done.issues]
      /\ done.entries \in Seq(EntriesAfter(files, n - 1))
      /\ ToSet(done.entries) = EntriesAfter(files, n - 1)
      /\ done.issues \in Seq(IssuesAfter(files, n - 1))
      /\ ToSet(done.issues) = IssuesAfter(files, n - 1)
  BY DEF Indexed
<1>2. ASSUME NEW e
      PROVE  /\ [done EXCEPT !.issues = Append(@, e)]
                  = [entries |-> done.entries, issues |-> Append(done.issues, e)]
             /\ [done EXCEPT !.entries = Append(@, e)]
                  = [entries |-> Append(done.entries, e), issues |-> done.issues]
  <2>1. ASSUME NEW v
        PROVE  /\ [done EXCEPT !.issues = v] = [entries |-> done.entries, issues |-> v]
               /\ [done EXCEPT !.entries = v] = [entries |-> v, issues |-> done.issues]
    BY <1>1
  <2>2. QED  BY <2>1
<1>3. existing = {EntryAt(files, j) : j \in Earlier(files, n)}
  BY <1>1 DEF EntriesAfter, EntryAt, Earlier, KeyAt
<1>4. CASE ~Good(files, n)
  <2>1. next = Said(done, Torn(files, n))
    BY <1>2, <1>4 DEF IndexMigration, Good, Torn, Said
  <2>2. ~First(files, n)
    BY <1>4 DEF First
  <2>3. QED  BY <1>4, <2>1, <2>2
<1>5. CASE Good(files, n) /\ ~First(files, n)
  <2>1. existing # {}
    BY <1>3, <1>5, FirstExists DEF Earlier
  <2>2. {e.path : e \in existing} = {files[j].name : j \in Earlier(files, n)}
    <3>1. \A j : EntryAt(files, j).path = files[j].name
      BY DEF EntryAt
    <3> HIDE DEF existing
    <3>2. QED  BY <1>3, <3>1
  <2>3. next = Said(done, Twin(files, n))
    BY <1>2, <1>5, <2>1, <2>2 DEF IndexMigration, Good, Twin, Said
  <2>4. QED  BY <1>5, <2>3
<1>6. CASE First(files, n)
  <2>1. Good(files, n) /\ Earlier(files, n) = {}
    BY <1>6 DEF First, Earlier
  <2>2. existing = {}
    BY <1>3, <2>1
  <2>3. next = Put(done, EntryAt(files, n))
    BY <1>2, <2>1, <2>2 DEF IndexMigration, Good, EntryAt, KeyAt, Put
  <2>4. QED  BY <1>6, <2>1, <2>3
<1>7. QED  BY <1>4, <1>5, <1>6

LEMMA IndexStep ==
  ASSUME NEW files, NEW n \in Nat \ {0}, NEW done, Indexed(files, n - 1, done)
  PROVE  Indexed(files, n, IndexMigration(done, files[n]))
<1> DEFINE next == IndexMigration(done, files[n])
<1>1. /\ done.entries \in Seq(EntriesAfter(files, n - 1))
      /\ ToSet(done.entries) = EntriesAfter(files, n - 1)
      /\ done.issues \in Seq(IssuesAfter(files, n - 1))
      /\ ToSet(done.issues) = IssuesAfter(files, n - 1)
  BY DEF Indexed
<1>2. /\ ~Good(files, n) => next = Said(done, Torn(files, n))
      /\ Good(files, n) /\ ~First(files, n) => next = Said(done, Twin(files, n))
      /\ First(files, n) => next = Put(done, EntryAt(files, n))
  BY IndexCases
<1> HIDE DEF next
<1>3. CASE ~Good(files, n)
  <2>1. /\ EntriesAfter(files, n) = EntriesAfter(files, n - 1)
        /\ IssuesAfter(files, n) = IssuesAfter(files, n - 1) \cup {Torn(files, n)}
    BY <1>3, EntriesStep DEF First
  <2>2. Indexed(files, n, Said(done, Torn(files, n)))
    BY <1>1, <2>1, IndexedMore, Zenon DEF Said
  <2>3. QED  BY <1>2, <1>3, <2>2 DEF next
<1>4. CASE Good(files, n) /\ ~First(files, n)
  <2>1. /\ EntriesAfter(files, n) = EntriesAfter(files, n - 1)
        /\ IssuesAfter(files, n) = IssuesAfter(files, n - 1) \cup {Twin(files, n)}
    BY <1>4, EntriesStep
  <2>2. Indexed(files, n, Said(done, Twin(files, n)))
    BY <1>1, <2>1, IndexedMore, Zenon DEF Said
  <2>3. QED  BY <1>2, <1>4, <2>2 DEF next
<1>5. CASE First(files, n)
  <2>1. /\ EntriesAfter(files, n) = EntriesAfter(files, n - 1) \cup {EntryAt(files, n)}
        /\ IssuesAfter(files, n) = IssuesAfter(files, n - 1)
    BY <1>5, EntriesStep
  <2>2. Indexed(files, n, Put(done, EntryAt(files, n)))
    BY <1>1, <2>1, IndexedMore, Zenon DEF Put
  <2>3. QED  BY <1>2, <1>5, <2>2 DEF next
<1>6. QED  BY <1>3, <1>4, <1>5

LEMMA RegistryIs ==
  ASSUME NEW files, Len(files) \in Nat, DOMAIN files = 1 .. Len(files)
  PROVE  Indexed(files, Len(files), buildMigrationRegistry(files))
<1> DEFINE Wrong == {n \in Nat : n <= Len(files) /\ ~Indexed(files, n, Done(files, n))}
<1>1. 0 \notin Wrong
  <2>1. EntriesAfter(files, 0) = {} /\ IssuesAfter(files, 0) = {}
    BY DEF EntriesAfter, IssuesAfter
  <2>2. Start.entries = <<>> /\ Start.issues = <<>> /\ ToSet(<<>>) = {} /\ <<>> \in Seq({})
    BY DEF Start, ToSet
  <2>3. Indexed(files, 0, Start)
    BY <2>1, <2>2 DEF Indexed, Start
  <2>4. QED  BY <2>3, DoneFacts
<1>2. ASSUME NEW n \in Nat, n + 1 \in Wrong  PROVE n \in Wrong
  <2>1. n + 1 \in 1 .. Len(files) /\ n + 1 \in Nat \ {0} /\ (n + 1) - 1 = n /\ n <= Len(files)
    BY <1>2
  <2>2. Done(files, n + 1) = IndexMigration(Done(files, n), files[n + 1])
    BY <2>1, DoneFacts
  <2>3. ~Indexed(files, n, Done(files, n))
    BY <1>2, <2>1, <2>2, IndexStep
  <2>4. QED  BY <2>1, <2>3
<1>3. Wrong = {}
  BY <1>1, <1>2, NoCounterexample
<1>4. Indexed(files, Len(files), Done(files, Len(files)))
  BY <1>3
<1>5. QED  BY <1>4, DoneFacts

-----------------------------------------------------------------------------
(* Files come at any place, under a name that no other has.                *)

LEMMA InsertAtFacts ==
  ASSUME NEW S, NEW s \in Seq(S), NEW i \in 1 .. Len(s) + 1, NEW e \in S
  PROVE  /\ InsertAt(s, i, e) \in Seq(S) /\ Len(InsertAt(s, i, e)) = Len(s) + 1
         /\ \A j \in 1 .. Len(s) + 1 :
              InsertAt(s, i, e)[j] = IF j < i THEN s[j] ELSE IF j = i THEN e ELSE s[j - 1]
<1> DEFINE front == SubSeq(s, 1, i - 1)
           rest  == SubSeq(s, i, Len(s))
<1>1. Len(s) \in Nat /\ i \in Int /\ i - 1 \in Int /\ 1 \in Int /\ Len(s) \in Int
      /\ \A j \in 1 .. Len(s) : s[j] \in S
  OBVIOUS
<1>2. /\ \A j \in 1 .. i - 1 : s[j] \in S
      /\ \A j \in i .. Len(s) : s[j] \in S
  BY <1>1
<1>3. /\ front \in Seq(S) /\ Len(front) = i - 1
      /\ \A j \in 1 .. (i - 1) - 1 + 1 : front[j] = s[1 + j - 1]
  <2>1. /\ front \in Seq(S) /\ Len(front) = IF 1 <= i - 1 THEN (i - 1) - 1 + 1 ELSE 0
        /\ \A j \in 1 .. (i - 1) - 1 + 1 : front[j] = s[1 + j - 1]
    BY <1>1, <1>2, SubSeqProperties
  <2> HIDE DEF front
  <2>2. QED  BY <2>1, <1>1
<1>4. /\ rest \in Seq(S) /\ Len(rest) = Len(s) - i + 1
      /\ \A j \in 1 .. Len(s) - i + 1 : rest[j] = s[i + j - 1]
  <2>1. /\ rest \in Seq(S) /\ Len(rest) = IF i <= Len(s) THEN Len(s) - i + 1 ELSE 0
        /\ \A j \in 1 .. Len(s) - i + 1 : rest[j] = s[i + j - 1]
    BY <1>1, <1>2, SubSeqProperties
  <2> HIDE DEF rest
  <2>2. QED  BY <2>1, <1>1
<1> HIDE DEF front, rest
<1> DEFINE most == front \o <<e>>
<1>5. <<e>> \in Seq(S) /\ Len(<<e>>) = 1 /\ <<e>>[1] = e
  OBVIOUS
<1>6. /\ most \in Seq(S) /\ Len(most) = i
      /\ \A j \in 1 .. i : most[j] = IF j <= i - 1 THEN s[j] ELSE e
  <2>1. /\ most \in Seq(S) /\ Len(most) = Len(front) + 1
        /\ \A j \in 1 .. Len(front) + 1 :
             most[j] = IF j <= Len(front) THEN front[j] ELSE <<e>>[j - Len(front)]
    BY <1>3, <1>5, ConcatProperties
  <2> HIDE DEF most
  <2>2. Len(front) + 1 = i
    BY <1>1, <1>3
  <2>3. ASSUME NEW j \in 1 .. i  PROVE most[j] = IF j <= i - 1 THEN s[j] ELSE e
    <3>1. CASE j <= i - 1
      BY <1>3, <2>1, <2>2, <3>1
    <3>2. CASE j = i
      <4>1. most[j] = <<e>>[j - Len(front)] /\ j - Len(front) = 1
        BY <1>3, <2>1, <2>2, <3>2
      <4>2. ~(j <= i - 1)
        BY <3>2
      <4>3. QED  BY <1>5, <4>1, <4>2
    <3>3. QED  BY <3>1, <3>2
  <2>4. QED  BY <2>1, <2>2, <2>3
<1> HIDE DEF most
<1> DEFINE all == most \o rest
<1>7. /\ all \in Seq(S) /\ Len(all) = Len(most) + Len(rest)
      /\ \A j \in 1 .. Len(most) + Len(rest) :
           all[j] = IF j <= Len(most) THEN most[j] ELSE rest[j - Len(most)]
  BY <1>4, <1>6, ConcatProperties
<1>8. InsertAt(s, i, e) = all
  BY DEF InsertAt, all, most, front, rest
<1> HIDE DEF all
<1>9. Len(most) + Len(rest) = Len(s) + 1
  BY <1>1, <1>4, <1>6
<1>10. ASSUME NEW j \in 1 .. Len(s) + 1
       PROVE  all[j] = IF j < i THEN s[j] ELSE IF j = i THEN e ELSE s[j - 1]
  <2>1. CASE j <= i
    <3>1. all[j] = most[j] /\ j \in 1 .. i
      BY <1>6, <1>7, <1>9, <2>1
    <3>2. most[j] = IF j <= i - 1 THEN s[j] ELSE e
      BY <1>6, <3>1
    <3>3. (j <= i - 1) <=> (j < i)
      OBVIOUS
    <3>4. j < i \/ j = i
      BY <2>1
    <3>5. QED  BY <3>1, <3>2, <3>3, <3>4
  <2>2. CASE i < j
    <3>1. all[j] = rest[j - i] /\ j - i \in 1 .. Len(s) - i + 1 /\ i + (j - i) - 1 = j - 1
      BY <1>6, <1>7, <1>9, <2>2
    <3>2. rest[j - i] = s[j - 1]
      BY <1>4, <3>1
    <3>3. QED  BY <2>2, <3>1, <3>2
  <2>3. QED  BY <2>1, <2>2
<1>11. QED  BY <1>7, <1>8, <1>9, <1>10

MigrationFile == [name : Nat, loads : BOOLEAN, header : Headers]
SchemaFile    == [name : Nat, loads : BOOLEAN, exports : Seq(Exports)]

\* Files of the set F, each with a number of its own for its name.
Numbered(files, F) ==
  /\ files \in Seq(F)
  /\ \A i \in 1 .. Len(files) : files[i].name \in Nat /\ files[i].name < Len(files)
  /\ \A i, j \in 1 .. Len(files) : files[i].name = files[j].name => i = j

LEMMA NumberedInsert ==
  ASSUME NEW F, NEW files, Numbered(files, F), NEW place \in Places(files),
         NEW new \in F, new.name = Len(files)
  PROVE  Numbered(InsertAt(files, place, new), F)
<1> DEFINE more == InsertAt(files, place, new)
           from(j) == IF j < place THEN j ELSE j - 1
<1>1. files \in Seq(F) /\ Len(files) \in Nat /\ place \in 1 .. Len(files) + 1
  BY DEF Numbered, Places
<1>3. /\ more \in Seq(F) /\ Len(more) = Len(files) + 1
      /\ \A j \in 1 .. Len(files) + 1 :
           more[j] = IF j < place THEN files[j] ELSE IF j = place THEN new ELSE files[j - 1]
  BY <1>1, InsertAtFacts
<1> HIDE DEF more
<1>4. ASSUME NEW j \in 1 .. Len(files) + 1, j # place
      PROVE  from(j) \in 1 .. Len(files) /\ more[j] = files[from(j)]
  BY <1>1, <1>3, <1>4
<1>5. ASSUME NEW j \in 1 .. Len(files) + 1, NEW k \in 1 .. Len(files) + 1, j # place, k # place,
             from(j) = from(k)
      PROVE  j = k
  BY <1>1, <1>5
<1>6. more[place] = new
  BY <1>1, <1>3
<1> HIDE DEF from
<1>7. ASSUME NEW j \in 1 .. Len(files) + 1, j # place
      PROVE  more[j].name < Len(files) /\ more[j].name \in Nat
  BY <1>4, <1>7 DEF Numbered
<1>8. \A j \in 1 .. Len(more) : more[j].name \in Nat /\ more[j].name < Len(more)
  BY <1>1, <1>3, <1>6, <1>7
<1>9. ASSUME NEW j \in 1 .. Len(more), NEW k \in 1 .. Len(more), more[j].name = more[k].name
      PROVE  j = k
  <2>1. CASE j # place /\ k # place
    <3>1. files[from(j)].name = files[from(k)].name
      BY <1>3, <1>4, <1>9, <2>1
    <3>2. from(j) = from(k)
      BY <1>3, <1>4, <2>1, <3>1 DEF Numbered
    <3>3. QED  BY <1>3, <1>5, <2>1, <3>2
  <2>2. CASE j = place /\ k # place
    BY <1>1, <1>3, <1>6, <1>7, <1>9, <2>2
  <2>3. CASE j # place /\ k = place
    BY <1>1, <1>3, <1>6, <1>7, <1>9, <2>3
  <2>4. QED  BY <2>1, <2>2, <2>3
<1>10. Numbered(more, F)
  BY <1>3, <1>8, <1>9 DEF Numbered
<1>11. QED  BY <1>10 DEF more

(* A file is replaced by one of the same name.                             *)
LEMMA NumberedEdit ==
  ASSUME NEW F, NEW files, Numbered(files, F), NEW i \in DOMAIN files,
         NEW mended \in F, mended.name = files[i].name
  PROVE  Numbered([files EXCEPT ![i] = mended], F)
<1> DEFINE edited == [files EXCEPT ![i] = mended]
<1>1. files \in Seq(F) /\ i \in 1 .. Len(files)
  BY DEF Numbered
<1>2. /\ edited \in Seq(F) /\ Len(edited) = Len(files)
      /\ \A j \in 1 .. Len(files) : edited[j] = IF j = i THEN mended ELSE files[j]
  BY <1>1, ExceptSeq
<1> HIDE DEF edited
<1>3. \A j \in 1 .. Len(files) : edited[j].name = files[j].name
  BY <1>2
<1>4. Numbered(edited, F)
  BY <1>2, <1>3 DEF Numbered
<1>5. QED  BY <1>4 DEF edited

LEMMA NumberedHolds ==
  Spec => [](Numbered(migrationFiles, MigrationFile) /\ Numbered(schemaFiles, SchemaFile))
<1> DEFINE Inv == Numbered(migrationFiles, MigrationFile) /\ Numbered(schemaFiles, SchemaFile)
<1>1. Init => Inv
  BY DEF Init, Numbered
<1>2. Inv /\ [Next]_vars => Inv'
  <2> SUFFICES ASSUME Inv, [Next]_vars  PROVE Inv'
    OBVIOUS
  <2>1. /\ Numbered(migrationFiles, MigrationFile) /\ Len(migrationFiles) \in Nat
        /\ \A i \in DOMAIN migrationFiles : migrationFiles[i] \in MigrationFile
        /\ Numbered(schemaFiles, SchemaFile) /\ Len(schemaFiles) \in Nat
        /\ \A i \in DOMAIN schemaFiles : schemaFiles[i] \in SchemaFile
    BY DEF Numbered
  <2> SUFFICES Numbered(migrationFiles', MigrationFile) /\ Numbered(schemaFiles', SchemaFile)
    OBVIOUS
  <2> HIDE DEF Inv
  <2>2. CASE AddMigrationFile
    <3>1. PICK place \in Places(migrationFiles), header \in Headers :
            migrationFiles' = InsertAt(migrationFiles, place,
              [name |-> Len(migrationFiles), loads |-> TRUE, header |-> header])
      BY <2>2 DEF AddMigrationFile
    <3> DEFINE new == [name |-> Len(migrationFiles), loads |-> TRUE, header |-> header]
    <3>2. new \in MigrationFile /\ new.name = Len(migrationFiles)
      BY <2>1 DEF MigrationFile
    <3> HIDE DEF new
    <3>3. Numbered(InsertAt(migrationFiles, place, new), MigrationFile)
      BY <2>1, <3>2, NumberedInsert
    <3>4. schemaFiles' = schemaFiles
      BY <2>2 DEF AddMigrationFile
    <3>5. QED  BY <2>1, <3>1, <3>3, <3>4 DEF new
  <2>3. CASE EditMigrationFile
    <3>1. PICK i \in DOMAIN migrationFiles :
            migrationFiles' = [migrationFiles EXCEPT ![i].loads = ~@]
      BY <2>3 DEF EditMigrationFile
    <3> DEFINE mended == [migrationFiles[i] EXCEPT !.loads = ~@]
    <3>2. mended \in MigrationFile /\ mended.name = migrationFiles[i].name
      BY <2>1 DEF MigrationFile
    <3> HIDE DEF mended
    <3>3. Numbered([migrationFiles EXCEPT ![i] = mended], MigrationFile)
      BY <2>1, <3>2, NumberedEdit
    <3>4. schemaFiles' = schemaFiles
      BY <2>3 DEF EditMigrationFile
    <3>5. QED  BY <2>1, <3>1, <3>3, <3>4, Zenon DEF mended
  <2>4. CASE AddSchemaFile
    <3>1. PICK place \in Places(schemaFiles), schema \in Exports :
            schemaFiles' = InsertAt(schemaFiles, place,
              [name |-> Len(schemaFiles), loads |-> TRUE, exports |-> <<schema>>])
      BY <2>4 DEF AddSchemaFile
    <3> DEFINE new == [name |-> Len(schemaFiles), loads |-> TRUE, exports |-> <<schema>>]
    <3>2. new \in SchemaFile /\ new.name = Len(schemaFiles)
      BY <2>1 DEF SchemaFile
    <3> HIDE DEF new
    <3>3. Numbered(InsertAt(schemaFiles, place, new), SchemaFile)
      BY <2>1, <3>2, NumberedInsert
    <3>4. migrationFiles' = migrationFiles
      BY <2>4 DEF AddSchemaFile
    <3>5. QED  BY <2>1, <3>1, <3>3, <3>4 DEF new
  <2>5. CASE AddExport
    <3>1. PICK i \in DOMAIN schemaFiles, schema \in Exports :
            schemaFiles' = [schemaFiles EXCEPT ![i].exports = Append(@, schema)]
      BY <2>5 DEF AddExport
    <3> DEFINE mended == [schemaFiles[i] EXCEPT !.exports = Append(@, schema)]
    <3>2. mended \in SchemaFile /\ mended.name = schemaFiles[i].name
      <4>1. schemaFiles[i] \in SchemaFile /\ schemaFiles[i].exports \in Seq(Exports)
        BY <2>1 DEF SchemaFile
      <4>2. Append(schemaFiles[i].exports, schema) \in Seq(Exports)
        BY <4>1
      <4>3. \A e \in Seq(Exports) : /\ [schemaFiles[i] EXCEPT !.exports = e] \in SchemaFile
                                   /\ [schemaFiles[i] EXCEPT !.exports = e].name = schemaFiles[i].name
        BY <4>1 DEF SchemaFile
      <4>4. QED  BY <4>2, <4>3
    <3> HIDE DEF mended
    <3>3. Numbered([schemaFiles EXCEPT ![i] = mended], SchemaFile)
      BY <2>1, <3>2, NumberedEdit
    <3>4. migrationFiles' = migrationFiles
      BY <2>5 DEF AddExport
    <3>5. QED  BY <2>1, <3>1, <3>3, <3>4, Zenon DEF mended
  <2>6. CASE EditSchemaFile
    <3>1. PICK i \in DOMAIN schemaFiles : schemaFiles' = [schemaFiles EXCEPT ![i].loads = ~@]
      BY <2>6 DEF EditSchemaFile
    <3> DEFINE mended == [schemaFiles[i] EXCEPT !.loads = ~@]
    <3>2. mended \in SchemaFile /\ mended.name = schemaFiles[i].name
      BY <2>1 DEF SchemaFile
    <3> HIDE DEF mended
    <3>3. Numbered([schemaFiles EXCEPT ![i] = mended], SchemaFile)
      BY <2>1, <3>2, NumberedEdit
    <3>4. migrationFiles' = migrationFiles
      BY <2>6 DEF EditSchemaFile
    <3>5. QED  BY <2>1, <3>1, <3>3, <3>4, Zenon DEF mended
  <2>7. CASE UNCHANGED vars
    BY <2>1, <2>7 DEF vars
  <2>8. QED  BY <2>2, <2>3, <2>4, <2>5, <2>6, <2>7 DEF Next
<1>3. QED  BY <1>1, <1>2, PTL DEF Spec

-----------------------------------------------------------------------------
(* The answers.  A file has a twin when another good file has its key.     *)

HasTwin(files, i) ==
  \E j \in 1 .. Len(files) : Good(files, j) /\ j # i /\ KeyAt(files, j) = KeyAt(files, i)

Names(files, i, issue) == files[i].name \in issue.names

(* A good file without a twin is the first of its key; one that is not the *)
(* first has a twin.                                                       *)
LEMMA FirstAndTwins ==
  ASSUME NEW files, Len(files) \in Nat, NEW i \in 1 .. Len(files), Good(files, i)
  PROVE  /\ ~HasTwin(files, i) => First(files, i)
         /\ \A j \in 1 .. Len(files) : First(files, i) /\ Good(files, j) /\ j # i
              /\ KeyAt(files, j) = KeyAt(files, i) => i \in Earlier(files, j) /\ ~First(files, j)
<1>1. ASSUME ~First(files, i)  PROVE HasTwin(files, i)
  <2>1. PICK j \in 1 .. i - 1 : Good(files, j) /\ KeyAt(files, j) = KeyAt(files, i)
    BY <1>1 DEF First
  <2>2. j \in 1 .. Len(files) /\ j # i
    OBVIOUS
  <2>3. QED  BY <2>1, <2>2 DEF HasTwin
<1>2. ASSUME NEW j \in 1 .. Len(files), First(files, i), Good(files, j), j # i,
             KeyAt(files, j) = KeyAt(files, i)
      PROVE  i \in Earlier(files, j) /\ ~First(files, j)
  <2>1. ~(j \in 1 .. i - 1)
    BY <1>2 DEF First
  <2>2. i \in 1 .. j - 1
    BY <1>2, <2>1
  <2>3. QED  BY <1>2, <2>2 DEF Earlier, First
<1>3. QED  BY <1>1, <1>2

(* Who is named by the issues.                                             *)
LEMMA NamedByIssue ==
  ASSUME NEW files, Numbered(files, MigrationFile), NEW i \in 1 .. Len(files)
  PROVE  (\E issue \in IssuesAfter(files, Len(files)) : Names(files, i, issue))
           <=> ~Good(files, i) \/ HasTwin(files, i)
<1>1. Len(files) \in Nat /\ \A j, k \in 1 .. Len(files) : files[j].name = files[k].name => j = k
  BY DEF Numbered
<1>2. \A k : (Torn(files, k)).names = {files[k].name}
  BY DEF Torn, Issue
<1>3. \A k : (Twin(files, k)).names = {files[j].name : j \in Earlier(files, k)} \cup {files[k].name}
  BY DEF Twin, Issue
<1>4. ASSUME NEW k \in 1 .. Len(files), ~Good(files, k), Names(files, i, Torn(files, k))
      PROVE  ~Good(files, i)
  BY <1>1, <1>2, <1>4 DEF Names
<1>5. ASSUME NEW k \in 1 .. Len(files), Good(files, k), ~First(files, k), Names(files, i, Twin(files, k))
      PROVE  HasTwin(files, i)
  <2>1. CASE k = i
    BY <1>1, <1>5, <2>1, FirstAndTwins
  <2>2. CASE k # i
    <3>1. PICK j \in Earlier(files, k) : files[j].name = files[i].name
      BY <1>1, <1>3, <1>5, <2>2 DEF Names
    <3>2. j \in 1 .. Len(files) /\ KeyAt(files, j) = KeyAt(files, k)
      BY <1>1 DEF Earlier
    <3>3. j = i
      BY <1>1, <3>1, <3>2
    <3>4. QED  BY <1>5, <2>2, <3>2, <3>3 DEF HasTwin
  <2>3. QED  BY <2>1, <2>2
<1>6. ASSUME ~Good(files, i)
      PROVE  \E issue \in IssuesAfter(files, Len(files)) : Names(files, i, issue)
  <2>1. Torn(files, i) \in IssuesAfter(files, Len(files))
    BY <1>6 DEF IssuesAfter
  <2>2. Names(files, i, Torn(files, i))
    BY <1>2 DEF Names
  <2>3. QED  BY <2>1, <2>2
<1>7. ASSUME Good(files, i), HasTwin(files, i)
      PROVE  \E issue \in IssuesAfter(files, Len(files)) : Names(files, i, issue)
  <2>1. CASE ~First(files, i)
    <3>1. Twin(files, i) \in IssuesAfter(files, Len(files))
      BY <1>7, <2>1 DEF IssuesAfter
    <3>2. Names(files, i, Twin(files, i))
      BY <1>3 DEF Names
    <3>3. QED  BY <3>1, <3>2
  <2>2. CASE First(files, i)
    <3>1. PICK j \in 1 .. Len(files) : Good(files, j) /\ j # i /\ KeyAt(files, j) = KeyAt(files, i)
      BY <1>7 DEF HasTwin
    <3>2. i \in Earlier(files, j) /\ ~First(files, j)
      BY <1>1, <1>7, <2>2, <3>1, FirstAndTwins
    <3>3. Twin(files, j) \in IssuesAfter(files, Len(files))
      BY <3>1, <3>2 DEF IssuesAfter
    <3>4. Names(files, i, Twin(files, j))
      BY <1>3, <3>2 DEF Names
    <3>5. QED  BY <3>3, <3>4
  <2>3. QED  BY <2>1, <2>2
<1>8. ASSUME NEW issue \in IssuesAfter(files, Len(files)), Names(files, i, issue)
      PROVE  ~Good(files, i) \/ HasTwin(files, i)
  <2>1. CASE \E k \in 1 .. Len(files) : ~Good(files, k) /\ issue = Torn(files, k)
    BY <1>4, <1>8, <2>1
  <2>2. CASE \E k \in 1 .. Len(files) :
               Good(files, k) /\ ~First(files, k) /\ issue = Twin(files, k)
    BY <1>5, <1>8, <2>2
  <2>3. QED  BY <2>1, <2>2 DEF IssuesAfter
<1>9. QED  BY <1>6, <1>7, <1>8

(* The exit code of the issues.                                            *)
LEMMA IssuesExit ==
  ASSUME NEW files, Numbered(files, MigrationFile), AllLoad(files)
  PROVE  runMigrateList(files) =
           IF \E i \in 1 .. Len(files) : ~Good(files, i) THEN INTEGRITY_ERROR
           ELSE IF \E i \in 1 .. Len(files) : HasTwin(files, i) THEN LOGICAL_FAILURE
           ELSE SUCCESS
<1> DEFINE registry == buildMigrationRegistry(files)
           issues == IssuesAfter(files, Len(files))
<1>1. Len(files) \in Nat /\ DOMAIN files = 1 .. Len(files)
  BY DEF Numbered
<1>2. registry.issues \in Seq(issues) /\ ToSet(registry.issues) = issues
  BY <1>1, RegistryIs DEF Indexed
<1>3. registry.issues = <<>> <=> issues = {}
  <2>1. registry.issues = <<>> => ToSet(registry.issues) = {}
    BY DEF ToSet
  <2>2. registry.issues # <<>> => 1 \in DOMAIN registry.issues
    BY <1>2
  <2>3. registry.issues # <<>> => ToSet(registry.issues) # {}
    BY <2>2 DEF ToSet
  <2>4. QED  BY <1>2, <2>1, <2>3
<1>4. runMigrateList(files) = IF issues = {} THEN SUCCESS
                              ELSE IF \E issue \in issues : issue.code = "integrity_error"
                              THEN INTEGRITY_ERROR ELSE LOGICAL_FAILURE
  BY <1>2, <1>3 DEF runMigrateList, pickRegistryFailureExitCode
<1>5. \A k : (Torn(files, k)).code = "integrity_error" /\ (Twin(files, k)).code # "integrity_error"
  BY DEF Torn, Twin, Issue
<1>6. (\E issue \in issues : issue.code = "integrity_error")
        <=> \E i \in 1 .. Len(files) : ~Good(files, i)
  BY <1>5 DEF IssuesAfter
<1>7. issues = {} <=> \A i \in 1 .. Len(files) : Good(files, i) /\ ~HasTwin(files, i)
  <2>1. ASSUME NEW issue \in issues
        PROVE  \E i \in 1 .. Len(files) : ~Good(files, i) \/ HasTwin(files, i)
    <3>1. CASE \E k \in 1 .. Len(files) : ~Good(files, k)
      BY <3>1
    <3>2. CASE \A k \in 1 .. Len(files) : Good(files, k)
      <4>1. PICK k \in 1 .. Len(files) : Good(files, k) /\ ~First(files, k)
        BY <3>2 DEF IssuesAfter
      <4>2. HasTwin(files, k)
        BY <1>1, <4>1, FirstAndTwins
      <4>3. QED  BY <4>2
    <3>3. QED  BY <3>1, <3>2
  <2>2. ASSUME NEW i \in 1 .. Len(files), ~Good(files, i) \/ HasTwin(files, i)
        PROVE  issues # {}
    BY <2>2, NamedByIssue
  <2> HIDE DEF issues
  <2>3. QED  BY <2>1, <2>2
<1> HIDE DEF issues
<1>8. QED  BY <1>4, <1>6, <1>7

(* EveryMigrationAnswered: every migration file is either the one entry of *)
(* its versions or named by an issue, and `migrate list` exits by the      *)
(* gravest one, for any number of files in any order.                      *)
THEOREM MigrationsAnswered == Spec => []EveryMigrationAnswered
<1>1. ASSUME Numbered(migrationFiles, MigrationFile)  PROVE EveryMigrationAnswered
  <2> DEFINE files == migrationFiles
             registry == buildMigrationRegistry(files)
             good(file) == parseMigrationProvenance(file.header) = "ok"
             twins(file) == {f \in ToSet(files) : /\ good(f) /\ f.name # file.name
                                                  /\ KeyOf(f.header) = KeyOf(file.header)}
  <2>1. /\ Len(files) \in Nat /\ DOMAIN files = 1 .. Len(files)
        /\ ToSet(files) = {files[i] : i \in 1 .. Len(files)}
        /\ \A i, j \in 1 .. Len(files) : files[i].name = files[j].name => i = j
    BY <1>1 DEF Numbered, ToSet
  <2>2. /\ ToSet(registry.entries) = EntriesAfter(files, Len(files))
        /\ ToSet(registry.issues) = IssuesAfter(files, Len(files))
    BY <2>1, RegistryIs DEF Indexed
  <2>3. \A i : good(files[i]) <=> Good(files, i)
    BY DEF Good
  <2>4. ASSUME NEW i \in 1 .. Len(files)
        PROVE  twins(files[i]) # {} <=> HasTwin(files, i)
    <3>1. ASSUME NEW f \in twins(files[i])  PROVE HasTwin(files, i)
      <4>1. PICK j \in 1 .. Len(files) : f = files[j]
        BY <2>1, <3>1
      <4>2. QED  BY <3>1, <4>1 DEF HasTwin, Good, KeyAt
    <3>2. ASSUME HasTwin(files, i)  PROVE twins(files[i]) # {}
      <4>1. PICK j \in 1 .. Len(files) :
              Good(files, j) /\ j # i /\ KeyAt(files, j) = KeyAt(files, i)
        BY <3>2 DEF HasTwin
      <4>2. files[j] \in ToSet(files) /\ files[j].name # files[i].name
        BY <2>1, <4>1
      <4>3. files[j] \in twins(files[i])
        BY <4>1, <4>2 DEF Good, KeyAt
      <4> HIDE DEF twins
      <4>4. QED  BY <4>3
    <3> HIDE DEF twins
    <3>3. QED  BY <3>1, <3>2
  <2> HIDE DEF good, twins
  <2>5. ASSUME NEW i \in 1 .. Len(files), good(files[i]), twins(files[i]) = {}
        PROVE  [key |-> KeyOf(files[i].header), path |-> files[i].name] \in ToSet(registry.entries)
    <3>1. First(files, i)
      BY <2>1, <2>3, <2>4, <2>5, FirstAndTwins
    <3>2. EntryAt(files, i) \in EntriesAfter(files, Len(files))
      BY <3>1 DEF EntriesAfter
    <3>3. QED  BY <2>2, <3>2 DEF EntryAt, KeyAt
  <2>6. ASSUME NEW i \in 1 .. Len(files)
        PROVE  (\E issue \in ToSet(registry.issues) : files[i].name \in issue.names)
                 <=> ~good(files[i]) \/ twins(files[i]) # {}
    BY <1>1, <2>2, <2>3, <2>4, NamedByIssue DEF Names
  <2>7. AllLoad(files) =>
          runMigrateList(files) =
            IF \E file \in ToSet(files) : ~good(file) THEN INTEGRITY_ERROR
            ELSE IF \E file \in ToSet(files) : twins(file) # {} THEN LOGICAL_FAILURE
            ELSE SUCCESS
    <3>1. (\E file \in ToSet(files) : ~good(file)) <=> \E i \in 1 .. Len(files) : ~Good(files, i)
      BY <2>1, <2>3
    <3>2. (\E file \in ToSet(files) : twins(file) # {})
            <=> \E i \in 1 .. Len(files) : HasTwin(files, i)
      BY <2>1, <2>4
    <3>3. QED  BY <1>1, <3>1, <3>2, IssuesExit
  <2>8. runMigratePlan(schemaFiles, files) = SUCCESS <=>
          runList(schemaFiles) = SUCCESS /\ runMigrateList(files) = SUCCESS
    BY DEF runMigratePlan
  <2>9. \A file \in ToSet(files) :
          /\ good(file) /\ twins(file) = {} =>
               [key |-> KeyOf(file.header), path |-> file.name] \in ToSet(registry.entries)
          /\ (\E issue \in ToSet(registry.issues) : file.name \in issue.names)
               <=> ~good(file) \/ twins(file) # {}
    BY <2>1, <2>5, <2>6
  <2>10. QED  BY <2>7, <2>8, <2>9 DEF EveryMigrationAnswered, MigrationRegistry, good, twins
<1>2. QED  BY <1>1, NumberedHolds, PTL

-----------------------------------------------------------------------------
(* Loops and folds.  A loop of N steps starts at a base and stays in a set *)
(* of states; what holds of its start and is kept by its steps holds at    *)
(* its end.                                                                *)

LEMMA UptoInduction ==
  ASSUME NEW N \in Nat, NEW T, 0 \in T, \A n \in 1 .. N : n - 1 \in T => n \in T
  PROVE  \A n \in 0 .. N : n \in T
<1> DEFINE Wrong == {n \in Nat : n <= N /\ n \notin T}
<1>1. \A n \in Nat : n + 1 \in Wrong => n \in Wrong
  <2> SUFFICES ASSUME NEW n \in Nat, n + 1 \in Wrong  PROVE n \in Wrong
    OBVIOUS
  <2>1. n + 1 \in 1 .. N /\ (n + 1) - 1 = n /\ n <= N
    OBVIOUS
  <2>2. QED  BY <2>1
<1>2. 0 \notin Wrong
  OBVIOUS
<1>3. Wrong = {}
  BY <1>1, <1>2, NoCounterexample
<1>4. QED  BY <1>3

IsLoop(k, N, D, base, step) ==
  k \in [0 .. N -> D] /\ k[0] = base /\ \A n \in 1 .. N : k[n] = step[n][k[n - 1]]

LEMMA LoopExists ==
  ASSUME NEW N \in Nat, NEW D, NEW base \in D, NEW step \in [1 .. N -> [D -> D]]
  PROVE  \E k : IsLoop(k, N, D, base, step)
<1> DEFINE Is(k, m) == k[0] = base /\ \A n \in 1 .. m : k[n] = step[n][k[n - 1]]
           T == {m \in 0 .. N : \E k \in [0 .. m -> D] : Is(k, m)}
<1>1. 0 \in T
  <2> DEFINE k == [n \in 0 .. 0 |-> base]
  <2>1. k \in [0 .. 0 -> D] /\ Is(k, 0)
    OBVIOUS
  <2> HIDE DEF k, Is
  <2>2. QED  BY <2>1
<1>2. ASSUME NEW m \in 1 .. N, m - 1 \in T  PROVE m \in T
  <2>1. PICK k \in [0 .. m - 1 -> D] : Is(k, m - 1)
    BY <1>2
  <2> DEFINE h == [n \in 0 .. m |-> IF n = m THEN step[m][k[m - 1]] ELSE k[n]]
  <2>2. m - 1 \in 0 .. m - 1 /\ m \in 1 .. N /\ \A n \in 0 .. m : n # m => n \in 0 .. m - 1
    OBVIOUS
  <2>3. k[m - 1] \in D /\ step[m][k[m - 1]] \in D
    BY <2>2
  <2>4. h \in [0 .. m -> D]
    BY <2>2, <2>3
  <2>5. ASSUME NEW n \in 1 .. m  PROVE h[n] = step[n][h[n - 1]]
    <3>1. n - 1 \in 0 .. m /\ n - 1 # m
      OBVIOUS
    <3>2. CASE n = m
      BY <3>1, <3>2
    <3>3. CASE n # m
      <4>1. n \in 1 .. m - 1
        BY <3>3
      <4>2. k[n] = step[n][k[n - 1]]
        BY <2>1, <4>1
      <4>3. QED  BY <3>1, <3>3, <4>2
    <3>4. QED  BY <3>2, <3>3
  <2>6. h[0] = base
    BY <2>1
  <2> HIDE DEF h
  <2>7. Is(h, m)
    BY <2>5, <2>6
  <2> HIDE DEF Is
  <2>8. QED  BY <2>4, <2>7
<1> HIDE DEF Is
<1>3. \A m \in 1 .. N : m - 1 \in T => m \in T
  BY <1>2
<1> HIDE DEF T
<1>4. N \in T
  <2>1. \A n \in 0 .. N : n \in T
    BY <1>1, <1>3, UptoInduction
  <2>2. N \in 0 .. N
    OBVIOUS
  <2>3. QED  BY <2>1, <2>2
<1>5. PICK k \in [0 .. N -> D] : Is(k, N)
  BY <1>4 DEF T
<1>6. IsLoop(k, N, D, base, step)
  BY <1>5 DEF Is, IsLoop
<1>7. QED  BY <1>6

LEMMA IntervalFacts ==
  ASSUME NEW N \in Nat, NEW n \in 1 .. N
  PROVE  /\ 1 .. n \in SUBSET (1 .. N) /\ 1 .. n # {} /\ n \in Nat \ {0}
         /\ n \in 0 .. N /\ n - 1 \in 0 .. N
OBVIOUS

(* The same for a fold over the indices 1 .. N, which takes the greatest   *)
(* index of a set of them last.                                            *)
FoldsTo(g, N, base, step) ==
  g = [s \in SUBSET (1 .. N) |-> IF s = {} THEN base ELSE step[Max(s)][g[s \ {Max(s)}]]]

LEMMA FoldExistsFor ==
  ASSUME NEW N \in Nat, NEW D, NEW base \in D, NEW step \in [1 .. N -> [D -> D]]
  PROVE  \E g \in [SUBSET (1 .. N) -> D] : FoldsTo(g, N, base, step)
<1> DEFINE Is(g, m) == FoldsTo(g, m, base, step)
           T == {m \in 0 .. N : \E g \in [SUBSET (1 .. m) -> D] : Is(g, m)}
<1>1. 0 \in T
  <2> DEFINE none == [s \in SUBSET (1 .. 0) |-> base]
  <2>1. SUBSET (1 .. 0) = {{}} /\ 0 \in 0 .. N
    OBVIOUS
  <2>2. none \in [SUBSET (1 .. 0) -> D] /\ Is(none, 0)
    BY <2>1 DEF FoldsTo
  <2> HIDE DEF none, Is
  <2>3. QED  BY <2>1, <2>2
<1>2. ASSUME NEW m \in 1 .. N, m - 1 \in T  PROVE m \in T
  <2>1. PICK g \in [SUBSET (1 .. m - 1) -> D] : Is(g, m - 1)
    BY <1>2
  <2> DEFINE S == SUBSET (1 .. m)
             h == [s \in S |-> IF s = {} THEN base ELSE step[Max(s)][g[s \ {Max(s)}]]]
  <2>2. ASSUME NEW s \in S, s # {}
        PROVE  s \ {Max(s)} \in SUBSET (1 .. m - 1) /\ Max(s) \in 1 .. N
    <3>1. m \in Nat /\ s \in SUBSET (1 .. m)
      OBVIOUS
    <3>2. Max(s) \in s /\ \A y \in s : Max(s) >= y
      BY <2>2, <3>1, MaxFacts
    <3>3. ASSUME NEW y \in s \ {Max(s)}  PROVE y \in 1 .. m - 1
      <4>1. y \in 1 .. m /\ Max(s) \in 1 .. m /\ y <= Max(s) /\ y # Max(s)
        BY <3>1, <3>2
      <4>2. QED  BY <4>1
    <3>4. s \ {Max(s)} \in SUBSET (1 .. m - 1)
      BY <3>3
    <3>5. Max(s) \in 1 .. N
      <4>1. \A y \in 1 .. m : y \in 1 .. N
        OBVIOUS
      <4>2. QED  BY <3>1, <3>2, <4>1
    <3>6. QED  BY <3>4, <3>5
  <2>3. ASSUME NEW t \in SUBSET (1 .. m - 1)  PROVE h[t] = g[t] /\ t \in S
    <3>1. t \in S
      OBVIOUS
    <3>2. g[t] = IF t = {} THEN base ELSE step[Max(t)][g[t \ {Max(t)}]]
      BY <2>1 DEF FoldsTo
    <3>3. QED  BY <3>1, <3>2
  <2>4. \A s \in S : s # {} => h[s \ {Max(s)}] = g[s \ {Max(s)}]
    BY <2>2, <2>3
  <2>5. h \in [S -> D]
    <3>1. ASSUME NEW s \in S, s # {}  PROVE step[Max(s)][g[s \ {Max(s)}]] \in D
      <4>1. g[s \ {Max(s)}] \in D
        BY <2>2, <3>1
      <4>2. QED  BY <2>2, <3>1, <4>1
    <3>2. QED  BY <3>1
  <2>6. h = [s \in S |-> IF s = {} THEN base ELSE step[Max(s)][h[s \ {Max(s)}]]]
    BY <2>4
  <2> HIDE DEF h
  <2>7. Is(h, m)
    BY <2>6 DEF FoldsTo
  <2> HIDE DEF Is
  <2>8. QED  BY <2>5, <2>7
<1> HIDE DEF Is
<1>3. \A m \in 1 .. N : m - 1 \in T => m \in T
  BY <1>2
<1> HIDE DEF T
<1>4. N \in T
  <2>1. \A n \in 0 .. N : n \in T
    BY <1>1, <1>3, UptoInduction
  <2>2. N \in 0 .. N
    OBVIOUS
  <2>3. QED  BY <2>1, <2>2
<1>5. QED  BY <1>4 DEF T, Is

-----------------------------------------------------------------------------
(* Sequences *)

Distinct(s) == \A i, j \in 1 .. Len(s) : s[i] = s[j] => i = j

LEMMA RangeFacts ==
  ASSUME NEW S, NEW s \in Seq(S)
  PROVE  /\ Len(s) \in Nat /\ DOMAIN s = 1 .. Len(s) /\ ToSet(s) = {s[i] : i \in 1 .. Len(s)}
         /\ ToSet(s) \in SUBSET S /\ \A i \in 1 .. Len(s) : s[i] \in S /\ s[i] \in ToSet(s)
         /\ \A e \in ToSet(s) : \E i \in 1 .. Len(s) : e = s[i]
         /\ s = <<>> <=> ToSet(s) = {}
<1>1. /\ Len(s) \in Nat /\ DOMAIN s = 1 .. Len(s) /\ ToSet(s) = {s[i] : i \in 1 .. Len(s)}
      /\ \A i \in 1 .. Len(s) : s[i] \in S
  BY DEF ToSet
<1>2. s = <<>> => ToSet(s) = {}
  BY <1>1
<1>3. s # <<>> => 1 \in 1 .. Len(s)
  BY <1>1
<1>4. QED  BY <1>1, <1>2, <1>3

LEMMA AppendFacts ==
  ASSUME NEW S, NEW s \in Seq(S), NEW e \in S
  PROVE  /\ Append(s, e) \in Seq(S) /\ ToSet(Append(s, e)) = ToSet(s) \cup {e}
         /\ Len(Append(s, e)) = Len(s) + 1
         /\ Distinct(s) /\ e \notin ToSet(s) => Distinct(Append(s, e))
<1> DEFINE t == Append(s, e)
<1>1. t \in Seq(S) /\ Len(t) = Len(s) + 1 /\ Len(s) \in Nat
      /\ \A i \in 1 .. Len(s) : t[i] = s[i]
      /\ t[Len(s) + 1] = e
  OBVIOUS
<1>2. ToSet(t) = ToSet(s) \cup {e}
  <2>1. ToSet(t) = ToSet(s) \cup {e}
    BY AppendRange, Zenon
  <2>2. QED  BY <2>1
<1> HIDE DEF t
<1>3. ASSUME Distinct(s), e \notin ToSet(s)  PROVE Distinct(t)
  <2>1. \A i \in 1 .. Len(s) : s[i] # e
    BY <1>3, RangeFacts
  <2>2. \A i \in 1 .. Len(t) : i \in 1 .. Len(s) \/ i = Len(s) + 1
    BY <1>1
  <2>3. \A i, j \in 1 .. Len(s) : t[i] = t[j] => i = j
    BY <1>1, <1>3 DEF Distinct
  <2>4. \A i \in 1 .. Len(s) : t[i] # t[Len(s) + 1]
    BY <1>1, <2>1
  <2>5. QED  BY <2>2, <2>3, <2>4 DEF Distinct
<1>4. QED  BY <1>1, <1>2, <1>3 DEF t

LEMMA ConcatFacts ==
  ASSUME NEW S, NEW s \in Seq(S), NEW t \in Seq(S)
  PROVE  /\ s \o t \in Seq(S) /\ Len(s \o t) = Len(s) + Len(t)
         /\ ToSet(s \o t) = ToSet(s) \cup ToSet(t)
         /\ \A i \in 1 .. Len(s) + Len(t) :
              \/ i \in 1 .. Len(s) /\ (s \o t)[i] = s[i]
              \/ /\ i - Len(s) \in 1 .. Len(t) /\ i > Len(s)
                 /\ (s \o t)[i] = t[i - Len(s)]
<1> DEFINE u == s \o t
<1>1. /\ u \in Seq(S) /\ Len(u) = Len(s) + Len(t) /\ Len(s) \in Nat /\ Len(t) \in Nat
      /\ \A i \in 1 .. Len(s) + Len(t) : u[i] = IF i <= Len(s) THEN s[i] ELSE t[i - Len(s)]
  BY ConcatProperties
<1> HIDE DEF u
<1>2. ASSUME NEW i \in 1 .. Len(s) + Len(t)
      PROVE  \/ i \in 1 .. Len(s) /\ u[i] = s[i]
             \/ /\ i - Len(s) \in 1 .. Len(t) /\ i > Len(s)
                /\ u[i] = t[i - Len(s)]
  BY <1>1
<1>3. ASSUME NEW e \in ToSet(u)  PROVE e \in ToSet(s) \cup ToSet(t)
  <2>1. PICK i \in 1 .. Len(s) + Len(t) : e = u[i]
    BY <1>1, RangeFacts
  <2>2. CASE i \in 1 .. Len(s) /\ u[i] = s[i]
    BY <2>1, <2>2, RangeFacts
  <2>3. CASE i - Len(s) \in 1 .. Len(t) /\ u[i] = t[i - Len(s)]
    BY <2>1, <2>3, RangeFacts
  <2>4. QED  BY <1>2, <2>2, <2>3
<1>4. ASSUME NEW e \in ToSet(s)  PROVE e \in ToSet(u)
  <2>1. PICK i \in 1 .. Len(s) : e = s[i]
    BY RangeFacts
  <2>2. i \in 1 .. Len(u) /\ u[i] = s[i]
    BY <1>1
  <2>3. QED  BY <1>1, <2>1, <2>2, RangeFacts
<1>5. ASSUME NEW e \in ToSet(t)  PROVE e \in ToSet(u)
  <2>1. PICK i \in 1 .. Len(t) : e = t[i]
    BY RangeFacts
  <2>2. Len(s) + i \in 1 .. Len(u) /\ u[Len(s) + i] = t[i]
    <3>1. Len(s) + i \in 1 .. Len(s) + Len(t) /\ ~(Len(s) + i <= Len(s)) /\ (Len(s) + i) - Len(s) = i
      BY <1>1
    <3>2. QED  BY <1>1, <3>1
  <2>3. QED  BY <1>1, <2>1, <2>2, RangeFacts
<1>6. ToSet(u) = ToSet(s) \cup ToSet(t)
  BY <1>3, <1>4, <1>5
<1>7. QED  BY <1>1, <1>2, <1>6 DEF u

(* A loop that pushes what it finds at some of the places.                 *)
Finds(w, N, P, S) == \A n \in 1 .. N : n \in P => w[n] \in S
Pushed(k, N, P, w) ==
  /\ k[0] = <<>>
  /\ \A n \in 1 .. N : k[n] = IF n \in P THEN Append(k[n - 1], w[n]) ELSE k[n - 1]

\* What the loop has found: at each of the places what is there.
Found(s, N, P, w, S) ==
  /\ s \in Seq(S) /\ ToSet(s) = {w[n] : n \in P \cap (1 .. N)}
  /\ (\A i, j \in P \cap (1 .. N) : w[i] = w[j] => i = j) => Distinct(s)

LEMMA PushedFacts ==
  ASSUME NEW N \in Nat, NEW S, NEW P, NEW w, Finds(w, N, P, S), NEW k, Pushed(k, N, P, w)
  PROVE  Found(k[N], N, P, w, S)
<1> DEFINE Apart == \A i, j \in P \cap (1 .. N) : w[i] = w[j] => i = j
           At(n) == {w[i] : i \in P \cap (1 .. n)}
           T == {n \in 0 .. N : /\ k[n] \in Seq(S) /\ ToSet(k[n]) = At(n)
                                /\ Apart => Distinct(k[n])}
<1>0. k[0] = <<>> /\ \A n \in 1 .. N : k[n] = IF n \in P THEN Append(k[n - 1], w[n]) ELSE k[n - 1]
  BY DEF Pushed
<1>1. 0 \in T
  <2>1. At(0) = {} /\ 0 \in 0 .. N
    OBVIOUS
  <2>2. <<>> \in Seq(S) /\ ToSet(<<>>) = {} /\ Distinct(<<>>)
    BY DEF ToSet, Distinct
  <2>3. QED  BY <1>0, <2>1, <2>2
<1>2. ASSUME NEW n \in 1 .. N, n - 1 \in T  PROVE n \in T
  <2>1. n \in 0 .. N /\ 1 .. n = (1 .. n - 1) \cup {n} /\ n \notin 1 .. n - 1
        /\ n \in Nat
    OBVIOUS
  <2>2. CASE n \notin P
    <3>1. k[n] = k[n - 1] /\ At(n) = At(n - 1)
      BY <1>0, <2>1, <2>2
    <3> HIDE DEF At, Apart
    <3>2. QED  BY <1>2, <2>1, <3>1
  <2>3. CASE n \in P
    <3>1. At(n) = At(n - 1) \cup {w[n]} /\ k[n] = Append(k[n - 1], w[n]) /\ w[n] \in S
      <4>1. At(n) = At(n - 1) \cup {w[n]}
        BY <2>1, <2>3
      <4>2. k[n] = Append(k[n - 1], w[n])
        BY <1>0, <2>3, Zenon
      <4>3. w[n] \in S
        BY <2>3 DEF Finds
      <4>4. QED  BY <4>1, <4>2, <4>3, Zenon
    <3>2. Apart => w[n] \notin At(n - 1)
      BY <2>1, <2>3
    <3> HIDE DEF At, Apart
    <3>3. k[n - 1] \in Seq(S) /\ ToSet(k[n - 1]) = At(n - 1) /\ (Apart => Distinct(k[n - 1]))
      BY <1>2
    <3>4. ASSUME NEW s \in Seq(S), NEW e \in S, ToSet(s) = At(n - 1), Apart => Distinct(s),
                 Apart => e \notin At(n - 1)
          PROVE  /\ Append(s, e) \in Seq(S) /\ ToSet(Append(s, e)) = At(n - 1) \cup {e}
                 /\ Apart => Distinct(Append(s, e))
      BY <3>4, AppendFacts
    <3>5. /\ k[n] \in Seq(S) /\ ToSet(k[n]) = At(n - 1) \cup {w[n]}
          /\ Apart => Distinct(k[n])
      BY <3>1, <3>2, <3>3, <3>4
    <3>6. QED  BY <2>1, <3>1, <3>5
  <2>4. QED  BY <2>2, <2>3
<1> HIDE DEF Apart, At
<1>3. N \in T
  <2> HIDE DEF T
  <2>1. \A n \in 0 .. N : n \in T
    BY <1>1, <1>2, UptoInduction
  <2>2. N \in 0 .. N
    OBVIOUS
  <2>3. QED  BY <2>1, <2>2
<1>4. QED  BY <1>3 DEF Apart, At, Found

Pushes(k, N, P, w) ==
  k = [n \in 0 .. N |-> IF n = 0 THEN <<>>
                        ELSE IF n \in P THEN Append(k[n - 1], w[n]) ELSE k[n - 1]]

LEMMA PushesExists ==
  ASSUME NEW N \in Nat, NEW S, NEW P, NEW w, Finds(w, N, P, S)
  PROVE  \E k : Pushes(k, N, P, w)
<1> DEFINE D == Seq(S)
           step == [n \in 1 .. N |-> [x \in D |-> IF n \in P THEN Append(x, w[n]) ELSE x]]
           none == <<>>
<1>1. none \in D
  OBVIOUS
<1>2. step \in [1 .. N -> [D -> D]]
  <2>1. ASSUME NEW n \in 1 .. N, NEW x \in D
        PROVE  (IF n \in P THEN Append(x, w[n]) ELSE x) \in D
    <3>1. CASE n \in P
      <4>1. w[n] \in S
        BY <3>1 DEF Finds
      <4>2. QED  BY <3>1, <4>1
    <3>2. CASE n \notin P
      BY <3>2
    <3>3. QED  BY <3>1, <3>2
  <2> HIDE DEF D
  <2>2. QED  BY <2>1
<1>3. \A n \in 1 .. N : \A x \in D : step[n][x] = IF n \in P THEN Append(x, w[n]) ELSE x
  OBVIOUS
<1> HIDE DEF D, step, none
<1>0. PICK k : IsLoop(k, N, D, none, step)
  BY <1>1, <1>2, LoopExists
<1>4. k \in [0 .. N -> D] /\ k[0] = none /\ \A n \in 1 .. N : k[n] = step[n][k[n - 1]]
  BY <1>0 DEF IsLoop
<1>5. ASSUME NEW n \in 0 .. N
      PROVE  k[n] = IF n = 0 THEN <<>>
                    ELSE IF n \in P THEN Append(k[n - 1], w[n]) ELSE k[n - 1]
  <2>1. CASE n = 0
    BY <1>4, <2>1 DEF none
  <2>2. CASE n # 0
    <3>1. n \in 1 .. N /\ n - 1 \in 0 .. N
      BY <2>2
    <3>2. k[n] = step[n][k[n - 1]] /\ k[n - 1] \in D
      BY <1>4, <3>1
    <3>3. QED  BY <1>3, <2>2, <3>1, <3>2
  <2>3. QED  BY <2>1, <2>2
<1>6. Pushes(k, N, P, w)
  BY <1>4, <1>5 DEF Pushes
<1>7. QED  BY <1>6

LEMMA PushesFacts ==
  ASSUME NEW N \in Nat, NEW S, NEW P, NEW w, Finds(w, N, P, S), NEW k, Pushes(k, N, P, w)
  PROVE  Found(k[N], N, P, w, S)
<1>1. k[0] = <<>>
  <2>1. 0 \in 0 .. N
    OBVIOUS
  <2>2. QED  BY <2>1 DEF Pushes
<1>2. ASSUME NEW n \in 1 .. N
      PROVE  k[n] = IF n \in P THEN Append(k[n - 1], w[n]) ELSE k[n - 1]
  <2>1. n \in 0 .. N /\ n # 0
    OBVIOUS
  <2>2. QED  BY <2>1 DEF Pushes
<1>3. Pushed(k, N, P, w)
  BY <1>1, <1>2 DEF Pushed
<1>4. QED  BY <1>3, PushedFacts

(* What the loader keeps of an id, and the versions that an id has.        *)
LEMMA OfIdFacts ==
  ASSUME NEW S, NEW schemas \in Seq(S), NEW id
  PROVE  /\ OfId(schemas, id) \in Seq(S)
         /\ ToSet(OfId(schemas, id)) = {s \in ToSet(schemas) : s.id = id}
         /\ Distinct(schemas) => Distinct(OfId(schemas, id))
<1> DEFINE N == Len(schemas)
           P == {n \in 1 .. N : schemas[n].id = id}
           kept == CHOOSE k : k = [n \in 0 .. N |->
                     IF n = 0 THEN <<>>
                     ELSE IF schemas[n].id = id THEN Append(k[n - 1], schemas[n]) ELSE k[n - 1]]
<1>1. N \in Nat /\ Finds(schemas, N, P, S)
  BY DEF Finds
<1>2. ASSUME NEW k
      PROVE  Pushes(k, N, P, schemas) <=>
               k = [n \in 0 .. N |->
                     IF n = 0 THEN <<>>
                     ELSE IF schemas[n].id = id THEN Append(k[n - 1], schemas[n]) ELSE k[n - 1]]
  <2>1. \A n \in 0 .. N : n # 0 => (n \in P <=> schemas[n].id = id)
    BY <1>1
  <2> HIDE DEF P
  <2>2. QED  BY <2>1 DEF Pushes
<1>3. \E k : Pushes(k, N, P, schemas)
  <2> HIDE DEF N, P
  <2>1. QED  BY <1>1, PushesExists
<1>4. Pushes(kept, N, P, schemas)
  BY <1>2, <1>3
<1>5. OfId(schemas, id) = kept[N]
  BY DEF OfId
<1>6. {schemas[n] : n \in P \cap (1 .. N)} = {s \in ToSet(schemas) : s.id = id}
  BY RangeFacts
<1> HIDE DEF kept, N, P
<1>7. Found(kept[N], N, P, schemas, S)
  BY <1>1, <1>4, PushesFacts
<1>8. QED  BY <1>5, <1>6, <1>7 DEF Found, Distinct, N

\* The entries of a registry have different names.
Unlike(entries) ==
  \A i, j \in 1 .. Len(entries) :
    entries[i].id = entries[j].id /\ entries[i].version = entries[j].version => i = j

LEMMA VersionsFacts ==
  ASSUME NEW S, NEW entries \in Seq(S), NEW id
  PROVE  /\ VersionsOf(entries, id) \in Seq({e.version : e \in S})
         /\ ToSet(VersionsOf(entries, id)) =
              {e.version : e \in {x \in ToSet(entries) : x.id = id /\ x.version # Unversioned}}
         /\ Unlike(entries) => Distinct(VersionsOf(entries, id))
<1> DEFINE N == Len(entries)
           P == {n \in 1 .. N : entries[n].id = id /\ entries[n].version # Unversioned}
           w == [n \in 1 .. N |-> entries[n].version]
           V == {e.version : e \in S}
           keys == CHOOSE k : k = [n \in 0 .. N |->
                     IF n = 0 THEN <<>>
                     ELSE IF entries[n].id = id /\ entries[n].version # Unversioned
                     THEN Append(k[n - 1], entries[n].version) ELSE k[n - 1]]
<1>1. N \in Nat /\ \A n \in 1 .. N : w[n] = entries[n].version /\ entries[n] \in S
  OBVIOUS
<1>2. Finds(w, N, P, V)
  <2> HIDE DEF N, w, P
  <2>1. QED  BY <1>1 DEF Finds
<1>3. ASSUME NEW k
      PROVE  Pushes(k, N, P, w) <=>
               k = [n \in 0 .. N |->
                     IF n = 0 THEN <<>>
                     ELSE IF entries[n].id = id /\ entries[n].version # Unversioned
                     THEN Append(k[n - 1], entries[n].version) ELSE k[n - 1]]
  <2>1. \A n \in 0 .. N : n # 0 => (n \in P <=> entries[n].id = id /\ entries[n].version # Unversioned)
                                   /\ w[n] = entries[n].version
    BY <1>1
  <2> HIDE DEF P, w
  <2>2. QED  BY <2>1 DEF Pushes
<1>4. \E k : Pushes(k, N, P, w)
  <2> HIDE DEF N, P, w, V
  <2>1. QED  BY <1>1, <1>2, PushesExists
<1>5. Pushes(keys, N, P, w)
  BY <1>3, <1>4
<1>6. VersionsOf(entries, id) = keys[N]
  BY DEF VersionsOf
<1>7. {w[n] : n \in P \cap (1 .. N)} =
        {e.version : e \in {x \in ToSet(entries) : x.id = id /\ x.version # Unversioned}}
  <2> DEFINE M == {x \in ToSet(entries) : x.id = id /\ x.version # Unversioned}
  <2>1. M = {entries[n] : n \in P}
    BY RangeFacts
  <2> HIDE DEF M
  <2>2. {w[n] : n \in P \cap (1 .. N)} = {e.version : e \in M}
    BY <1>1, <2>1
  <2>3. QED  BY <2>2 DEF M
<1>8. Unlike(entries) => \A i, j \in P \cap (1 .. N) : w[i] = w[j] => i = j
  BY <1>1 DEF Unlike
<1> HIDE DEF keys, P, w
<1>9. Found(keys[N], N, P, w, V)
  <2> HIDE DEF N, V
  <2>1. QED  BY <1>1, <1>2, <1>5, PushesFacts
<1>10. QED  BY <1>6, <1>7, <1>8, <1>9 DEF Found

(* Flattening as a loop.                                                   *)
Concats(k, seqs) ==
  /\ k[0] = <<>>
  /\ \A n \in 1 .. Len(seqs) : k[n] = k[n - 1] \o seqs[n]

LEMMA EmptyConcat ==
  ASSUME NEW S, NEW s \in Seq(S)  PROVE <<>> \o s = s
<1> DEFINE none == <<>>
<1>1. none \in Seq(S) /\ Len(none) = 0
  OBVIOUS
<1> HIDE DEF none
<1>2. /\ none \o s \in Seq(S) /\ Len(none \o s) = Len(s)
      /\ \A i \in 1 .. Len(s) : (none \o s)[i] = s[i]
  <2>1. /\ none \o s \in Seq(S) /\ Len(none \o s) = Len(none) + Len(s)
        /\ \A i \in 1 .. Len(none) + Len(s) :
             (none \o s)[i] = IF i <= Len(none) THEN none[i] ELSE s[i - Len(none)]
    BY <1>1, ConcatProperties
  <2>2. QED  BY <1>1, <2>1
<1>3. none \o s = s
  <2> DEFINE t == none \o s
  <2>1. t \in Seq(S) /\ Len(t) = Len(s) /\ \A i \in 1 .. Len(s) : t[i] = s[i]
    BY <1>2
  <2> HIDE DEF t
  <2>2. t = s
    BY <2>1
  <2>3. QED  BY <2>2 DEF t
<1>4. QED  BY <1>3 DEF none

LEMMA FlattenIsLoop ==
  ASSUME NEW S, NEW seqs \in Seq(Seq(S))
  PROVE  \E k : Concats(k, seqs) /\ FlattenSeq(seqs) = k[Len(seqs)]
<1> DEFINE N == Len(seqs)
           D == Seq(S)
           none == <<>>
           step == [n \in 1 .. N |-> [x \in D |-> x \o seqs[n]]]
           flatten == CHOOSE g : g = [i \in 1 .. N |->
                        IF i = 1 THEN seqs[i] ELSE g[i - 1] \o seqs[i]]
<1>1. none \in D /\ N \in Nat /\ \A n \in 1 .. N : seqs[n] \in D
  OBVIOUS
<1>2. step \in [1 .. N -> [D -> D]] /\ \A n \in 1 .. N : \A x \in D : step[n][x] = x \o seqs[n]
  <2>1. ASSUME NEW n \in 1 .. N, NEW x \in D  PROVE x \o seqs[n] \in D
    BY <1>1
  <2> HIDE DEF D, N
  <2>2. QED  BY <2>1
<1> HIDE DEF none, step
<1>3. PICK k : IsLoop(k, N, D, none, step)
  <2> HIDE DEF N, D
  <2>1. QED  BY <1>1, <1>2, LoopExists
<1>4. k \in [0 .. N -> D] /\ k[0] = none /\ \A n \in 1 .. N : k[n] = k[n - 1] \o seqs[n]
  <2>1. k \in [0 .. N -> D] /\ k[0] = none /\ \A n \in 1 .. N : k[n] = step[n][k[n - 1]]
    BY <1>3 DEF IsLoop
  <2>2. ASSUME NEW n \in 1 .. N  PROVE k[n] = k[n - 1] \o seqs[n]
    <3>1. k[n - 1] \in D
      BY <1>1, <2>1, IntervalFacts
    <3>2. QED  BY <1>2, <2>1, <3>1
  <2>3. QED  BY <2>1, <2>2
<1> DEFINE Is(g) == g = [i \in 1 .. N |-> IF i = 1 THEN seqs[i] ELSE g[i - 1] \o seqs[i]]
<1>5. \E g : Is(g)
  <2> DEFINE g == [i \in 1 .. N |-> k[i]]
  <2>1. ASSUME NEW i \in 1 .. N
        PROVE  g[i] = IF i = 1 THEN seqs[i] ELSE g[i - 1] \o seqs[i]
    <3>1. CASE i = 1
      <4>0. k[i] = k[i - 1] \o seqs[i]
        BY <1>4
      <4>1. i - 1 = 0 /\ seqs[i] \in Seq(S)
        BY <1>1, <3>1
      <4>2. k[i] = none \o seqs[i]
        BY <1>4, <4>0, <4>1
      <4>3. none \o seqs[i] = seqs[i]
        BY <4>1, EmptyConcat DEF none
      <4>4. QED  BY <3>1, <4>2, <4>3
    <3>2. CASE i # 1
      <4>1. i - 1 \in 1 .. N
        BY <1>1, <3>2
      <4>2. QED  BY <1>4, <3>2, <4>1
    <3>3. QED  BY <3>1, <3>2
  <2>2. Is(g)
    BY <2>1
  <2> HIDE DEF g, Is
  <2>3. QED  BY <2>2
<1>6. Is(flatten)
  BY <1>5
<1>7. N # 0 => FlattenSeq(seqs) = flatten[N]
  BY DEF FlattenSeq
<1>8. N = 0 => FlattenSeq(seqs) = none
  <2>1. N = 0 => seqs = <<>>
    BY <1>1
  <2>2. QED  BY <2>1 DEF FlattenSeq, none
<1> HIDE DEF flatten
<1> DEFINE j == [n \in 0 .. N |-> IF n = 0 THEN none ELSE flatten[n]]
<1>9. ASSUME NEW n \in 1 .. N  PROVE j[n] = j[n - 1] \o seqs[n]
  <2>1. flatten[n] = IF n = 1 THEN seqs[n] ELSE flatten[n - 1] \o seqs[n]
    BY <1>6
  <2>2. CASE n = 1
    <3>1. seqs[1] \in Seq(S) /\ none \o seqs[1] = seqs[1]
      BY <1>1, <2>2, EmptyConcat DEF none
    <3>2. j[1] = flatten[1] /\ j[0] = none /\ n - 1 = 0
      BY <1>1, <2>2
    <3>3. QED  BY <2>1, <2>2, <3>1, <3>2
  <2>3. CASE n # 1
    <3>1. n - 1 \in 0 .. N /\ n \in 0 .. N /\ n # 0 /\ n - 1 # 0
      BY <1>1, <2>3
    <3>2. j[n] = flatten[n] /\ j[n - 1] = flatten[n - 1]
      BY <3>1
    <3>3. QED  BY <2>1, <2>3, <3>2
  <2>4. QED  BY <2>2, <2>3
<1>10. j[0] = none /\ FlattenSeq(seqs) = j[N]
  <2>1. 0 \in 0 .. N /\ N \in 0 .. N
    BY <1>1
  <2>2. QED  BY <1>7, <1>8, <2>1
<1> HIDE DEF j
<1>11. Concats(j, seqs)
  BY <1>9, <1>10 DEF Concats, none
<1>12. QED  BY <1>10, <1>11

(* What holds of every pair of elements, the earlier one first.            *)
InOrder(s, R) == \A i, j \in 1 .. Len(s) : i < j => <<s[i], s[j]>> \in R

Flattened(s, seqs, S) ==
  /\ s \in Seq(S)
  /\ ToSet(s) = UNION {ToSet(seqs[n]) : n \in 1 .. Len(seqs)}
  /\ \A R : /\ \A n \in 1 .. Len(seqs) : InOrder(seqs[n], R)
            /\ \A m, n \in 1 .. Len(seqs) : m < n =>
                 \A x \in ToSet(seqs[m]), y \in ToSet(seqs[n]) : <<x, y>> \in R
            => InOrder(s, R)

LEMMA ConcatInOrder ==
  ASSUME NEW S, NEW s \in Seq(S), NEW t \in Seq(S), NEW R, InOrder(s, R), InOrder(t, R),
         \A x \in ToSet(s), y \in ToSet(t) : <<x, y>> \in R
  PROVE  InOrder(s \o t, R)
<1> DEFINE u == s \o t
<1>1. /\ u \in Seq(S) /\ Len(u) = Len(s) + Len(t) /\ Len(s) \in Nat /\ Len(t) \in Nat
      /\ \A i \in 1 .. Len(s) + Len(t) :
           \/ i \in 1 .. Len(s) /\ u[i] = s[i]
           \/ i - Len(s) \in 1 .. Len(t) /\ i > Len(s) /\ u[i] = t[i - Len(s)]
  BY ConcatFacts
<1> HIDE DEF u
<1>2. ASSUME NEW i \in 1 .. Len(u), NEW j \in 1 .. Len(u), i < j  PROVE <<u[i], u[j]>> \in R
  <2>1. CASE i \in 1 .. Len(s) /\ u[i] = s[i] /\ j \in 1 .. Len(s) /\ u[j] = s[j]
    BY <1>2, <2>1 DEF InOrder
  <2>2. CASE i \in 1 .. Len(s) /\ u[i] = s[i] /\ j - Len(s) \in 1 .. Len(t) /\ u[j] = t[j - Len(s)]
    <3>1. s[i] \in ToSet(s) /\ t[j - Len(s)] \in ToSet(t)
      BY <2>2, RangeFacts
    <3>2. QED  BY <2>2, <3>1
  <2>3. CASE /\ i - Len(s) \in 1 .. Len(t) /\ u[i] = t[i - Len(s)]
             /\ j - Len(s) \in 1 .. Len(t) /\ u[j] = t[j - Len(s)]
    <3>1. i - Len(s) < j - Len(s)
      BY <1>1, <1>2
    <3>2. QED  BY <2>3, <3>1 DEF InOrder
  <2>4. CASE i > Len(s) /\ j \in 1 .. Len(s)
    BY <1>1, <1>2, <2>4
  <2>5. QED  BY <1>1, <2>1, <2>2, <2>3, <2>4
<1>3. InOrder(u, R)
  BY <1>2 DEF InOrder
<1>4. QED  BY <1>3 DEF u

LEMMA FlattenFacts ==
  ASSUME NEW S, NEW seqs \in Seq(Seq(S))
  PROVE  Flattened(FlattenSeq(seqs), seqs, S)
<1> DEFINE N == Len(seqs)
           Union(n) == UNION {ToSet(seqs[i]) : i \in 1 .. n}
           Ordered(R) == /\ \A n \in 1 .. N : InOrder(seqs[n], R)
                         /\ \A m, n \in 1 .. N : m < n =>
                              \A x \in ToSet(seqs[m]), y \in ToSet(seqs[n]) : <<x, y>> \in R
<1>1. PICK k : Concats(k, seqs) /\ FlattenSeq(seqs) = k[N]
  BY FlattenIsLoop
<1>2. k[0] = <<>> /\ \A n \in 1 .. N : k[n] = k[n - 1] \o seqs[n]
  BY <1>1 DEF Concats
<1>3. N \in Nat /\ \A n \in 1 .. N : seqs[n] \in Seq(S)
  OBVIOUS
<1> DEFINE T == {n \in 0 .. N : /\ k[n] \in Seq(S) /\ ToSet(k[n]) = Union(n)
                                /\ \A R : Ordered(R) => InOrder(k[n], R)}
<1>4. 0 \in T
  <2>1. Union(0) = {} /\ 0 \in 0 .. N
    BY <1>3
  <2>2. <<>> \in Seq(S) /\ ToSet(<<>>) = {} /\ \A R : InOrder(<<>>, R)
    BY DEF ToSet, InOrder
  <2>3. QED  BY <1>2, <2>1, <2>2
<1>5. ASSUME NEW n \in 1 .. N, n - 1 \in T  PROVE n \in T
  <2>00. n \in 0 .. N
    BY <1>3
  <2>0. k[n] = k[n - 1] \o seqs[n]
    BY <1>2, Zenon
  <2>1. k[n] = k[n - 1] \o seqs[n] /\ seqs[n] \in Seq(S) /\ k[n - 1] \in Seq(S) /\ n \in 0 .. N
    BY <1>3, <1>5, <2>0, <2>00
  <2>2. ToSet(k[n - 1]) = Union(n - 1) /\ \A R : Ordered(R) => InOrder(k[n - 1], R)
    BY <1>5
  <2>3. Union(n) = Union(n - 1) \cup ToSet(seqs[n])
    <3>1. 1 .. n = (1 .. n - 1) \cup {n}
      BY <1>3
    <3>2. QED  BY <3>1
  <2>4. /\ k[n] \in Seq(S) /\ ToSet(k[n]) = ToSet(k[n - 1]) \cup ToSet(seqs[n])
    BY <2>1, ConcatFacts
  <2>5. ASSUME NEW R, Ordered(R)  PROVE InOrder(k[n], R)
    <3>1. ASSUME NEW x \in ToSet(k[n - 1]), NEW y \in ToSet(seqs[n])  PROVE <<x, y>> \in R
      <4>1. PICK m \in 1 .. n - 1 : x \in ToSet(seqs[m])
        BY <2>2
      <4>2. m \in 1 .. N /\ m < n
        BY <1>3
      <4>3. QED  BY <2>5, <4>1, <4>2
    <3>2. InOrder(k[n - 1], R) /\ InOrder(seqs[n], R)
      BY <2>2, <2>5
    <3> HIDE DEF Ordered
    <3>3. QED  BY <2>1, <3>1, <3>2, ConcatInOrder
  <2> HIDE DEF Union, Ordered
  <2>6. QED  BY <2>1, <2>2, <2>3, <2>4, <2>5
<1> HIDE DEF Union, Ordered
<1>6. N \in T
  <2>1. N \in 0 .. N
    BY <1>3
  <2> HIDE DEF T, N
  <2>2. \A n \in 0 .. N : n \in T
    BY <1>3, <1>4, <1>5, UptoInduction
  <2>3. QED  BY <2>1, <2>2
<1>7. k[N] \in Seq(S) /\ ToSet(k[N]) = Union(N) /\ \A R : Ordered(R) => InOrder(k[N], R)
  BY <1>6
<1>8. QED  BY <1>1, <1>7 DEF Flattened, Union, Ordered

-----------------------------------------------------------------------------
(* buildRegistry as a loop over the schemas of all files.                  *)

EntrySet == [id : Ids \cup {None}, version : Versions, path : Nat]
Registers == [entries : Seq(EntrySet), issues : Seq({"duplicate_schema_id"})]

LEMMA IndexSchemaFacts ==
  ASSUME NEW done \in Registers, NEW entry \in EntrySet
  PROVE  LET twins == {e \in ToSet(done.entries) : e.id = entry.id /\ e.version = entry.version}
             next  == IndexSchema(done, entry)
         IN /\ next \in Registers
            /\ entry.id = None => next = done
            /\ entry.id # None /\ twins # {} =>
                 /\ next.entries = done.entries
                 /\ next.issues = Append(done.issues, "duplicate_schema_id")
            /\ entry.id # None /\ twins = {} =>
                 /\ next.entries = Append(done.entries, entry)
                 /\ next.issues = done.issues
<1> DEFINE es == done.entries
           is == done.issues
           twins == {e \in ToSet(es) : e.id = entry.id /\ e.version = entry.version}
           next == IndexSchema(done, entry)
<1>1. done = [entries |-> es, issues |-> is] /\ es \in Seq(EntrySet)
      /\ is \in Seq({"duplicate_schema_id"})
  BY DEF Registers
<1>2. /\ [done EXCEPT !.issues = Append(@, "duplicate_schema_id")]
           = [entries |-> es, issues |-> Append(is, "duplicate_schema_id")]
      /\ [done EXCEPT !.entries = Append(@, entry)] = [entries |-> Append(es, entry), issues |-> is]
  <2>1. ASSUME NEW v  PROVE /\ [done EXCEPT !.issues = v] = [entries |-> es, issues |-> v]
                           /\ [done EXCEPT !.entries = v] = [entries |-> v, issues |-> is]
    BY <1>1
  <2>2. QED  BY <2>1
<1>3. next = IF entry.id = None THEN done
             ELSE IF twins # {} THEN [entries |-> es, issues |-> Append(is, "duplicate_schema_id")]
             ELSE [entries |-> Append(es, entry), issues |-> is]
  <2>1. next = IF entry.id = None THEN done
               ELSE IF \E e \in ToSet(done.entries) : e.id = entry.id /\ e.version = entry.version
               THEN [done EXCEPT !.issues = Append(@, "duplicate_schema_id")]
               ELSE [done EXCEPT !.entries = Append(@, entry)]
    BY DEF IndexSchema
  <2>2. twins # {} <=> \E e \in ToSet(done.entries) : e.id = entry.id /\ e.version = entry.version
    OBVIOUS
  <2> HIDE DEF twins, next, es, is
  <2>3. QED  BY <1>2, <2>1, <2>2, Zenon
<1>4. Append(is, "duplicate_schema_id") \in Seq({"duplicate_schema_id"})
  <2> HIDE DEF is
  <2>1. QED  BY <1>1
<1>5. Append(es, entry) \in Seq(EntrySet)
  <2> HIDE DEF es
  <2>1. QED  BY <1>1
<1> HIDE DEF es, is, next, twins
<1>6. \A x \in Seq(EntrySet), y \in Seq({"duplicate_schema_id"}) :
        LET r == [entries |-> x, issues |-> y]
        IN r \in Registers /\ r.entries = x /\ r.issues = y
  BY DEF Registers
<1>7. CASE entry.id = None
  BY <1>3, <1>7 DEF next
<1>8. CASE entry.id # None /\ twins # {}
  <2>1. next = [entries |-> es, issues |-> Append(is, "duplicate_schema_id")]
    BY <1>3, <1>8
  <2>2. next \in Registers /\ next.entries = es /\ next.issues = Append(is, "duplicate_schema_id")
    BY <1>1, <1>4, <1>6, <2>1
  <2>3. QED  BY <1>8, <2>2 DEF next, es, is, twins
<1>9. CASE entry.id # None /\ twins = {}
  <2>1. next = [entries |-> Append(es, entry), issues |-> is]
    BY <1>3, <1>9
  <2>2. next \in Registers /\ next.entries = Append(es, entry) /\ next.issues = is
    BY <1>1, <1>5, <1>6, <2>1
  <2>3. QED  BY <1>9, <2>2 DEF next, es, is, twins
<1>10. QED  BY <1>7, <1>8, <1>9

IsSchemaFold(g, flat, n) ==
  g = [s \in SUBSET (1 .. n) |->
         IF s = {} THEN Start
         ELSE LET x == Max(s) IN IndexSchema(g[s \ {x}], flat[x])]

Indexes(k, flat) ==
  /\ k \in [0 .. Len(flat) -> Registers]
  /\ k[0] = Start
  /\ \A n \in 1 .. Len(flat) : k[n] = IndexSchema(k[n - 1], flat[n])

LEMMA SchemaFoldExists ==
  ASSUME NEW flat \in Seq(EntrySet)  PROVE \E g : IsSchemaFold(g, flat, Len(flat))
<1> DEFINE N == Len(flat)
           D == Registers
           step == [n \in 1 .. N |-> [x \in D |-> IndexSchema(x, flat[n])]]
<1>1. Start \in D /\ N \in Nat /\ \A n \in 1 .. N : flat[n] \in EntrySet
  BY DEF Start, Registers
<1>2. step \in [1 .. N -> [D -> D]] /\ \A n \in 1 .. N : \A x \in D : step[n][x] = IndexSchema(x, flat[n])
  <2>1. ASSUME NEW n \in 1 .. N, NEW x \in D  PROVE IndexSchema(x, flat[n]) \in D
    BY <1>1, IndexSchemaFacts
  <2> HIDE DEF D, N
  <2>2. QED  BY <2>1
<1> HIDE DEF D, step, N
<1>3. PICK g \in [SUBSET (1 .. N) -> D] : FoldsTo(g, N, Start, step)
  BY <1>1, <1>2, FoldExistsFor
<1>4. ASSUME NEW s \in SUBSET (1 .. N)
      PROVE  g[s] = IF s = {} THEN Start
                    ELSE LET x == Max(s) IN IndexSchema(g[s \ {x}], flat[x])
  <2>1. g[s] = IF s = {} THEN Start ELSE step[Max(s)][g[s \ {Max(s)}]]
    BY <1>3 DEF FoldsTo
  <2>2. CASE s = {}
    BY <2>1, <2>2
  <2>3. CASE s # {}
    <3>1. Max(s) \in 1 .. N /\ s \ {Max(s)} \in SUBSET (1 .. N)
      BY <1>1, <2>3, MaxFacts
    <3>2. g[s \ {Max(s)}] \in D
      BY <1>3, <3>1
    <3>3. QED  BY <1>2, <2>1, <2>3, <3>1, <3>2
  <2>4. QED  BY <2>2, <2>3
<1>5. g = [s \in SUBSET (1 .. N) |-> g[s]]
  BY <1>3
<1>6. IsSchemaFold(g, flat, N)
  BY <1>4, <1>5 DEF IsSchemaFold
<1>7. QED  BY <1>6 DEF N

LEMMA RegistryIsLoop ==
  ASSUME NEW flat \in Seq(EntrySet)
  PROVE  \E k : Indexes(k, flat) /\ FoldLeft(IndexSchema, Start, flat) = k[Len(flat)]
<1> DEFINE N == Len(flat)
           fold == CHOOSE g : IsSchemaFold(g, flat, N)
           k == [n \in 0 .. N |-> fold[1 .. n]]
<1>1. IsSchemaFold(fold, flat, N)
  BY SchemaFoldExists
<1>2. N \in Nat /\ DOMAIN flat = 1 .. N /\ \A n \in 1 .. N : flat[n] \in EntrySet
  OBVIOUS
<1>3. FoldLeft(IndexSchema, Start, flat) = fold[1 .. N]
  BY <1>2 DEF FoldLeft, MapThenFoldSet, IsSchemaFold
<1> HIDE DEF fold, N
<1>4. fold[1 .. 0] = Start
  <2>1. 1 .. 0 = {} /\ {} \in SUBSET (1 .. N)
    OBVIOUS
  <2>2. QED  BY <1>1, <2>1 DEF IsSchemaFold
<1>5. ASSUME NEW n \in 1 .. N  PROVE fold[1 .. n] = IndexSchema(fold[1 .. n - 1], flat[n])
  <2>1. 1 .. n \in SUBSET (1 .. N) /\ 1 .. n # {} /\ n \in Nat \ {0}
    BY <1>2, IntervalFacts
  <2>2. fold[1 .. n] = LET x == Max(1 .. n) IN IndexSchema(fold[(1 .. n) \ {x}], flat[x])
    BY <1>1, <2>1 DEF IsSchemaFold
  <2>3. QED  BY <2>1, <2>2, MaxOfInterval
<1>6. k[0] = Start /\ k[N] = fold[1 .. N]
  BY <1>2, <1>4
<1>7. ASSUME NEW n \in 1 .. N  PROVE k[n] = IndexSchema(k[n - 1], flat[n])
  <2>1. n \in 0 .. N /\ n - 1 \in 0 .. N
    BY <1>2, IntervalFacts
  <2>2. QED  BY <1>5, <2>1
<1>8. k \in [0 .. N -> Registers]
  <2> DEFINE T == {n \in 0 .. N : k[n] \in Registers}
  <2>0. Start \in Registers /\ 0 \in 0 .. N
    BY <1>2 DEF Start, Registers
  <2>1. 0 \in T
    <3> HIDE DEF k
    <3>1. QED  BY <1>6, <2>0
  <2>2. ASSUME NEW n \in 1 .. N, n - 1 \in T  PROVE n \in T
    <3>1. k[n - 1] \in Registers /\ flat[n] \in EntrySet /\ n \in 0 .. N
      BY <1>2, <2>2, IntervalFacts
    <3> HIDE DEF k
    <3>2. QED  BY <1>7, <3>1, IndexSchemaFacts
  <2>3. \A n \in 0 .. N : n \in T
    <3> HIDE DEF T
    <3>1. QED  BY <1>2, <2>1, <2>2, UptoInduction
  <2>4. QED  BY <2>3
<1> HIDE DEF k
<1>9. Indexes(k, flat)
  BY <1>6, <1>7, <1>8 DEF Indexes, N
<1>10. QED  BY <1>3, <1>6, <1>9 DEF N

NamedUpto(flat, n) == {i \in 1 .. n : flat[i].id # None}
SameName(e, f) == e.id = f.id /\ e.version = f.version

\* What the loop has made of the first n schemas.
Registered(done, flat, n) ==
  /\ done \in Registers
  /\ ToSet(done.entries) \in SUBSET {flat[i] : i \in NamedUpto(flat, n)}
  /\ Unlike(done.entries)
  /\ \A i \in NamedUpto(flat, n) : \E e \in ToSet(done.entries) : SameName(e, flat[i])
  /\ done.issues = <<>> => \A i \in NamedUpto(flat, n) : flat[i] \in ToSet(done.entries)
  /\ Len(done.entries) + Len(done.issues) = Cardinality(NamedUpto(flat, n))

LEMMA UnlikeAppend ==
  ASSUME NEW S, NEW s \in Seq(S), NEW e \in S, Unlike(s), \A x \in ToSet(s) : ~SameName(x, e)
  PROVE  Unlike(Append(s, e))
<1> DEFINE t == Append(s, e)
<1>1. t \in Seq(S) /\ Len(t) = Len(s) + 1 /\ Len(s) \in Nat
      /\ \A i \in 1 .. Len(s) : t[i] = s[i]
      /\ t[Len(s) + 1] = e
  OBVIOUS
<1> HIDE DEF t
<1>2. \A i \in 1 .. Len(s) : ~SameName(t[i], t[Len(s) + 1])
  BY <1>1, RangeFacts
<1>3. \A i \in 1 .. Len(t) : i \in 1 .. Len(s) \/ i = Len(s) + 1
  BY <1>1
<1>4. \A i, j \in 1 .. Len(s) : SameName(t[i], t[j]) => i = j
  BY <1>1 DEF Unlike, SameName
<1>5. \A i, j \in 1 .. Len(t) : SameName(t[i], t[j]) => i = j
  BY <1>2, <1>3, <1>4 DEF SameName
<1>6. Unlike(t)
  BY <1>5 DEF Unlike, SameName
<1>7. QED  BY <1>6 DEF t

LEMMA NamedStep ==
  ASSUME NEW flat, NEW n \in Nat \ {0}
  PROVE  /\ flat[n].id = None => NamedUpto(flat, n) = NamedUpto(flat, n - 1)
         /\ flat[n].id # None =>
              /\ NamedUpto(flat, n) = NamedUpto(flat, n - 1) \cup {n}
              /\ Cardinality(NamedUpto(flat, n)) = Cardinality(NamedUpto(flat, n - 1)) + 1
         /\ IsFiniteSet(NamedUpto(flat, n - 1)) /\ Cardinality(NamedUpto(flat, n - 1)) \in Nat
<1>1. 1 .. n = (1 .. n - 1) \cup {n} /\ n \notin 1 .. n - 1 /\ n - 1 \in Int /\ 1 \in Int
  OBVIOUS
<1>2. IsFiniteSet(1 .. n - 1)
  BY <1>1, FS_Interval
<1>3. NamedUpto(flat, n - 1) \in SUBSET (1 .. n - 1)
  BY DEF NamedUpto
<1>4. IsFiniteSet(NamedUpto(flat, n - 1)) /\ Cardinality(NamedUpto(flat, n - 1)) \in Nat
  BY <1>2, <1>3, FS_Subset, FS_CardinalityType
<1>5. flat[n].id = None => NamedUpto(flat, n) = NamedUpto(flat, n - 1)
  BY <1>1 DEF NamedUpto
<1>6. flat[n].id # None => NamedUpto(flat, n) = NamedUpto(flat, n - 1) \cup {n}
  BY <1>1 DEF NamedUpto
<1>7. Cardinality(NamedUpto(flat, n - 1) \cup {n}) = Cardinality(NamedUpto(flat, n - 1)) + 1
  BY <1>1, <1>3, <1>4, FS_AddElement
<1>8. QED  BY <1>4, <1>5, <1>6, <1>7

LEMMA OneMore == \A a, b \in Nat : a + (b + 1) = (a + b) + 1 /\ (a + 1) + b = (a + b) + 1
OBVIOUS

LEMMA RegisteredStep ==
  ASSUME NEW flat \in Seq(EntrySet), NEW n \in 1 .. Len(flat), NEW done,
         Registered(done, flat, n - 1)
  PROVE  Registered(IndexSchema(done, flat[n]), flat, n)
<1> DEFINE entry == flat[n]
           next == IndexSchema(done, entry)
           twins == {e \in ToSet(done.entries) : e.id = entry.id /\ e.version = entry.version}
           old == NamedUpto(flat, n - 1)
<1>1. done \in Registers /\ entry \in EntrySet /\ n \in Nat \ {0} /\ flat[n] = entry
  BY DEF Registered
<1>2. /\ next \in Registers
      /\ entry.id = None => next = done
      /\ entry.id # None /\ twins # {} =>
           /\ next.entries = done.entries
           /\ next.issues = Append(done.issues, "duplicate_schema_id")
      /\ entry.id # None /\ twins = {} =>
           /\ next.entries = Append(done.entries, entry)
           /\ next.issues = done.issues
  BY <1>1, IndexSchemaFacts
<1>3. /\ entry.id = None => NamedUpto(flat, n) = old
      /\ entry.id # None => /\ NamedUpto(flat, n) = old \cup {n}
                            /\ Cardinality(NamedUpto(flat, n)) = Cardinality(old) + 1
      /\ Cardinality(old) \in Nat
  BY <1>1, NamedStep
<1>4. /\ ToSet(done.entries) \in SUBSET {flat[i] : i \in old}
      /\ Unlike(done.entries)
      /\ \A i \in old : \E e \in ToSet(done.entries) : SameName(e, flat[i])
      /\ done.issues = <<>> => \A i \in old : flat[i] \in ToSet(done.entries)
      /\ Len(done.entries) + Len(done.issues) = Cardinality(old)
  BY DEF Registered
<1>5. /\ done.entries \in Seq(EntrySet) /\ done.issues \in Seq({"duplicate_schema_id"})
      /\ Len(done.entries) \in Nat /\ Len(done.issues) \in Nat
  BY <1>1 DEF Registers
<1> HIDE DEF next, old, entry
<1>6. CASE entry.id = None
  BY <1>1, <1>2, <1>3, <1>6 DEF Registered, next, old, entry
<1>7. CASE entry.id # None /\ twins # {}
  <2>1. PICK e \in ToSet(done.entries) : SameName(e, flat[n])
    BY <1>1, <1>7 DEF SameName
  <2>2. next.entries = done.entries /\ next.issues = Append(done.issues, "duplicate_schema_id")
    BY <1>2, <1>7
  <2>3. next.issues # <<>> /\ Len(next.issues) = Len(done.issues) + 1
    BY <1>5, <2>2
  <2>4. NamedUpto(flat, n) = old \cup {n} /\ Cardinality(NamedUpto(flat, n)) = Cardinality(old) + 1
    BY <1>3, <1>7
  <2>5. ToSet(next.entries) \in SUBSET {flat[i] : i \in NamedUpto(flat, n)}
    BY <1>4, <2>2, <2>4
  <2>6. \A i \in NamedUpto(flat, n) : \E f \in ToSet(next.entries) : SameName(f, flat[i])
    BY <1>4, <2>1, <2>2, <2>4
  <2>7. Len(next.entries) + Len(next.issues) = Cardinality(NamedUpto(flat, n))
    <3>1. Len(next.entries) = Len(done.entries)
      BY <2>2
    <3>2. Len(done.entries) + Len(done.issues) = Cardinality(old)
      BY <1>4
    <3>3. Len(done.entries) + (Len(done.issues) + 1) = (Len(done.entries) + Len(done.issues)) + 1
      BY <1>5, OneMore, Zenon
    <3>4. Len(next.entries) + Len(next.issues) = Len(done.entries) + (Len(done.issues) + 1)
      BY <2>3, <3>1, Zenon
    <3>5. QED  BY <2>4, <3>2, <3>3, <3>4, Zenon
  <2>8. QED  BY <1>2, <1>4, <2>2, <2>3, <2>5, <2>6, <2>7 DEF Registered, next, entry
<1>8. CASE entry.id # None /\ twins = {}
  <2>1. next.entries = Append(done.entries, entry) /\ next.issues = done.issues
    BY <1>2, <1>8
  <2>2. \A x \in ToSet(done.entries) : ~SameName(x, entry)
    BY <1>8 DEF SameName
  <2>3. ToSet(next.entries) = ToSet(done.entries) \cup {entry} /\ Len(next.entries) = Len(done.entries) + 1
    BY <1>1, <1>5, <2>1, AppendFacts
  <2>4. Unlike(next.entries)
    BY <1>1, <1>4, <1>5, <2>1, <2>2, UnlikeAppend
  <2>5. NamedUpto(flat, n) = old \cup {n} /\ Cardinality(NamedUpto(flat, n)) = Cardinality(old) + 1
    BY <1>3, <1>8
  <2>6. ToSet(next.entries) \in SUBSET {flat[i] : i \in NamedUpto(flat, n)}
    BY <1>1, <1>4, <2>3, <2>5
  <2>7. \A i \in NamedUpto(flat, n) : \E f \in ToSet(next.entries) : SameName(f, flat[i])
    BY <1>1, <1>4, <2>3, <2>5 DEF SameName
  <2>8. next.issues = <<>> => \A i \in NamedUpto(flat, n) : flat[i] \in ToSet(next.entries)
    BY <1>1, <1>4, <2>1, <2>3, <2>5
  <2>9. Len(next.entries) + Len(next.issues) = Cardinality(NamedUpto(flat, n))
    <3>1. Len(next.issues) = Len(done.issues)
      BY <2>1
    <3>2. Len(done.entries) + Len(done.issues) = Cardinality(old)
      BY <1>4
    <3>3. (Len(done.entries) + 1) + Len(done.issues) = (Len(done.entries) + Len(done.issues)) + 1
      BY <1>5, OneMore, Zenon
    <3>4. Len(next.entries) + Len(next.issues) = (Len(done.entries) + 1) + Len(done.issues)
      BY <2>3, <3>1, Zenon
    <3>5. QED  BY <2>5, <3>2, <3>3, <3>4, Zenon
  <2>10. QED  BY <1>2, <2>4, <2>6, <2>7, <2>8, <2>9 DEF Registered, next, entry
<1>9. QED  BY <1>6, <1>7, <1>8

LEMMA SchemasRegistered ==
  ASSUME NEW flat \in Seq(EntrySet)
  PROVE  Registered(FoldLeft(IndexSchema, Start, flat), flat, Len(flat))
<1> DEFINE N == Len(flat)
<1>1. PICK k : Indexes(k, flat) /\ FoldLeft(IndexSchema, Start, flat) = k[N]
  BY RegistryIsLoop
<1>2. k[0] = Start /\ \A n \in 1 .. N : k[n] = IndexSchema(k[n - 1], flat[n])
  BY <1>1 DEF Indexes
<1> DEFINE T == {n \in 0 .. N : Registered(k[n], flat, n)}
<1>3. N \in Nat
  OBVIOUS
<1>4. 0 \in T
  <2>1. NamedUpto(flat, 0) = {} /\ 0 \in 0 .. N
    BY DEF NamedUpto
  <2>2. /\ Start \in Registers /\ Start.entries = <<>> /\ Start.issues = <<>>
        /\ ToSet(<<>>) = {} /\ Unlike(<<>>) /\ Len(<<>>) = 0
    BY DEF Start, ToSet, Registers, Unlike
  <2>3. Cardinality({}) = 0
    BY FS_EmptySet
  <2>4. Registered(Start, flat, 0)
    <3>1. /\ ToSet(Start.entries) \in SUBSET {flat[i] : i \in NamedUpto(flat, 0)}
          /\ Unlike(Start.entries) /\ Len(Start.entries) = 0 /\ Len(Start.issues) = 0
      BY <2>2
    <3>2. Len(Start.entries) + Len(Start.issues) = Cardinality(NamedUpto(flat, 0))
      <4>1. 0 + 0 = 0
        OBVIOUS
      <4>2. Len(Start.entries) + Len(Start.issues) = 0 + 0
        BY <3>1, Zenon
      <4>3. QED  BY <2>1, <2>3, <4>1, <4>2, Zenon
    <3> HIDE DEF N, T
    <3>3. QED  BY <2>1, <2>2, <3>1, <3>2, Zenon DEF Registered
  <2>5. QED  BY <1>2, <2>1, <2>4
<1>5. \A n \in 1 .. N : n - 1 \in T => n \in T
  BY <1>2, RegisteredStep
<1>6. N \in T
  <2>1. N \in 0 .. N
    OBVIOUS
  <2> HIDE DEF T, N
  <2>2. \A n \in 0 .. N : n \in T
    BY <1>3, <1>4, <1>5, UptoInduction
  <2>3. QED  BY <2>1, <2>2
<1>7. QED  BY <1>1, <1>6

LEMMA TabulatedIsSeq ==
  ASSUME NEW X, NEW n \in Nat, NEW f \in [1 .. n -> X]
  PROVE  f \in Seq(X) /\ Len(f) = n /\ DOMAIN f = 1 .. n /\ ToSet(f) = {f[i] : i \in 1 .. n}
BY DEF ToSet

LEMMA ExportsFacts ==
  \A s \in Exports : /\ s.id \in Ids \cup {None} /\ s.version \in Versions
                     /\ s = [id |-> s.id, version |-> s.version]
<1> SUFFICES ASSUME NEW s \in Exports
             PROVE  /\ s.id \in Ids \cup {None} /\ s.version \in Versions
                    /\ s = [id |-> s.id, version |-> s.version]
  OBVIOUS
<1>1. CASE s \in [id : Ids, version : Versions]
  BY <1>1
<1>2. CASE s = [id |-> None, version |-> Unversioned]
  BY <1>2, RegistriesConstants
<1>3. QED  BY <1>1, <1>2 DEF Exports

LEMMA SortSchemasFacts ==
  ASSUME NEW schemas \in Seq(Exports)
  PROVE  /\ sortSchemas(schemas) \in Seq(Exports)
         /\ ToSet(sortSchemas(schemas)) = ToSet(schemas)
<1> DEFINE N == Len(IdOrder)
           seqs == [i \in 1 .. N |-> OfId(schemas, IdOrder[i])]
           named == FlattenSeq(seqs)
           rest == OfId(schemas, None)
<1>1. N \in Nat /\ DOMAIN IdOrder = 1 .. N /\ Ids = {IdOrder[i] : i \in 1 .. N}
  BY RegistriesConstants DEF Ids, ToSet
<1>2. \A id : /\ OfId(schemas, id) \in Seq(Exports)
              /\ ToSet(OfId(schemas, id)) = {s \in ToSet(schemas) : s.id = id}
  BY OfIdFacts
<1>3. seqs \in [1 .. N -> Seq(Exports)] /\ \A i \in 1 .. N : seqs[i] = OfId(schemas, IdOrder[i])
  BY <1>2
<1>4. sortSchemas(schemas) = named \o rest
  BY <1>1 DEF sortSchemas
<1> HIDE DEF seqs, N
<1>5. seqs \in Seq(Seq(Exports)) /\ Len(seqs) = N
  BY <1>1, <1>3, TabulatedIsSeq
<1>6. Flattened(named, seqs, Exports)
  BY <1>5, FlattenFacts
<1>7. named \in Seq(Exports) /\ ToSet(named) = UNION {ToSet(seqs[i]) : i \in 1 .. N}
  BY <1>5, <1>6 DEF Flattened
<1> HIDE DEF named, rest
<1>8. rest \in Seq(Exports) /\ ToSet(rest) = {s \in ToSet(schemas) : s.id = None}
  BY <1>2 DEF rest
<1>9. named \o rest \in Seq(Exports) /\ ToSet(named \o rest) = ToSet(named) \cup ToSet(rest)
  BY <1>7, <1>8, ConcatFacts
<1>10. ToSet(named) = {s \in ToSet(schemas) : s.id \in Ids}
  <2>1. \A i \in 1 .. N : ToSet(seqs[i]) = {s \in ToSet(schemas) : s.id = IdOrder[i]}
    BY <1>2, <1>3
  <2>2. QED  BY <1>1, <1>7, <2>1
<1>11. \A s \in ToSet(schemas) : s.id \in Ids \/ s.id = None
  BY ExportsFacts, RangeFacts
<1>12. QED  BY <1>4, <1>8, <1>9, <1>10, <1>11

EntryOf(file, s) == [id |-> s.id, version |-> s.version, path |-> file.name]
EntriesIn(file)  == {EntryOf(file, s) : s \in ToSet(file.exports)}

LEMMA EntriesOfFacts ==
  ASSUME NEW file \in SchemaFile
  PROVE  /\ EntriesOf(file) \in Seq(EntrySet)
         /\ ToSet(EntriesOf(file)) = EntriesIn(file)
<1> DEFINE schemas == sortSchemas(file.exports)
           n == Len(schemas)
           es == [i \in 1 .. n |-> EntryOf(file, schemas[i])]
<1>1. file.exports \in Seq(Exports) /\ file.name \in Nat
  BY DEF SchemaFile
<1>2. schemas \in Seq(Exports) /\ ToSet(schemas) = ToSet(file.exports)
  BY <1>1, SortSchemasFacts
<1> HIDE DEF schemas
<1>3. /\ n \in Nat /\ DOMAIN schemas = 1 .. n /\ ToSet(schemas) = {schemas[i] : i \in 1 .. n}
      /\ \A i \in 1 .. n : schemas[i] \in Exports
  BY <1>2, RangeFacts
<1>4. EntriesOf(file) = es
  BY <1>3 DEF EntriesOf, EntryOf, schemas
<1>5. \A i \in 1 .. n : EntryOf(file, schemas[i]) \in EntrySet
  BY <1>1, <1>3, ExportsFacts DEF EntryOf, EntrySet
<1>6. es \in [1 .. n -> EntrySet] /\ \A i \in 1 .. n : es[i] = EntryOf(file, schemas[i])
  BY <1>5
<1> HIDE DEF es, n
<1>7. es \in Seq(EntrySet) /\ ToSet(es) = {es[i] : i \in 1 .. n}
  BY <1>3, <1>6, TabulatedIsSeq
<1>8. ToSet(es) = {EntryOf(file, s) : s \in ToSet(schemas)}
  BY <1>3, <1>6, <1>7
<1>9. QED  BY <1>2, <1>4, <1>7, <1>8 DEF EntriesIn

ChunksOf(files) == [i \in DOMAIN files |-> EntriesOf(files[i])]

LEMMA ChunksFacts ==
  ASSUME NEW files, Numbered(files, SchemaFile)
  PROVE  /\ ChunksOf(files) \in Seq(Seq(EntrySet)) /\ Len(ChunksOf(files)) = Len(files)
         /\ \A i \in 1 .. Len(files) : ChunksOf(files)[i] = EntriesOf(files[i])
         /\ FlattenSeq(ChunksOf(files)) \in Seq(EntrySet)
         /\ ToSet(FlattenSeq(ChunksOf(files))) =
              UNION {EntriesIn(files[i]) : i \in 1 .. Len(files)}
<1> DEFINE N == Len(files)
           chunks == ChunksOf(files)
<1>1. N \in Nat /\ DOMAIN files = 1 .. N /\ \A i \in 1 .. N : files[i] \in SchemaFile
  BY DEF Numbered
<1>2. \A i \in 1 .. N : /\ EntriesOf(files[i]) \in Seq(EntrySet)
                        /\ ToSet(EntriesOf(files[i])) = EntriesIn(files[i])
  BY <1>1, EntriesOfFacts
<1>3. chunks \in [1 .. N -> Seq(EntrySet)] /\ \A i \in 1 .. N : chunks[i] = EntriesOf(files[i])
  BY <1>1, <1>2 DEF ChunksOf
<1> HIDE DEF chunks, N
<1>4. chunks \in Seq(Seq(EntrySet)) /\ Len(chunks) = N
  BY <1>1, <1>3, TabulatedIsSeq
<1>5. /\ FlattenSeq(chunks) \in Seq(EntrySet)
      /\ ToSet(FlattenSeq(chunks)) = UNION {ToSet(chunks[i]) : i \in 1 .. N}
  BY <1>4, FlattenFacts DEF Flattened
<1>6. UNION {ToSet(chunks[i]) : i \in 1 .. N}
        = UNION {EntriesIn(files[i]) : i \in 1 .. N}
  BY <1>2, <1>3
<1>7. QED  BY <1>3, <1>4, <1>5, <1>6 DEF chunks, N

\* What buildRegistry makes of the files.
IsRegistry(r, files) ==
  /\ r \in Registers /\ Unlike(r.entries)
  /\ \A e \in ToSet(r.entries) :
       e.id # None /\ \E i \in 1 .. Len(files) : \E s \in ToSet(files[i].exports) : e = EntryOf(files[i], s)
  /\ \A i \in 1 .. Len(files) : \A s \in ToSet(files[i].exports) : s.id # None =>
       /\ \E e \in ToSet(r.entries) : SameName(e, s)
       /\ r.issues = <<>> => EntryOf(files[i], s) \in ToSet(r.entries)

LEMMA RegistryFacts ==
  ASSUME NEW files, Numbered(files, SchemaFile)
  PROVE  IsRegistry(buildRegistry(files), files)
<1> DEFINE flat == FlattenSeq(ChunksOf(files))
           r == buildRegistry(files)
<1>1. r = FoldLeft(IndexSchema, Start, flat)
  BY DEF buildRegistry, Start, ChunksOf
<1>2. /\ flat \in Seq(EntrySet)
      /\ ToSet(flat) = UNION {EntriesIn(files[i]) : i \in 1 .. Len(files)}
  BY ChunksFacts
<1> HIDE DEF flat, r
<1>3. Registered(r, flat, Len(flat))
  BY <1>1, <1>2, SchemasRegistered
<1>4. /\ r \in Registers
      /\ ToSet(r.entries) \in SUBSET {flat[i] : i \in NamedUpto(flat, Len(flat))}
      /\ Unlike(r.entries)
      /\ \A i \in NamedUpto(flat, Len(flat)) : \E e \in ToSet(r.entries) : SameName(e, flat[i])
      /\ r.issues = <<>> => \A i \in NamedUpto(flat, Len(flat)) : flat[i] \in ToSet(r.entries)
  BY <1>3 DEF Registered
<1>5. ASSUME NEW e \in ToSet(r.entries)
      PROVE  e.id # None /\ \E i \in 1 .. Len(files) : \E s \in ToSet(files[i].exports) : e = EntryOf(files[i], s)
  <2>1. PICK n \in NamedUpto(flat, Len(flat)) : e = flat[n]
    BY <1>4
  <2>2. n \in 1 .. Len(flat) /\ e.id # None
    BY <2>1 DEF NamedUpto
  <2>3. e \in ToSet(flat)
    <3>1. flat[n] \in ToSet(flat)
      BY <1>2, <2>2, RangeFacts
    <3>2. QED  BY <2>1, <3>1
  <2>4. PICK i \in 1 .. Len(files) : e \in EntriesIn(files[i])
    BY <1>2, <2>3
  <2>5. \E s \in ToSet(files[i].exports) : e = EntryOf(files[i], s)
    BY <2>4 DEF EntriesIn
  <2>6. QED  BY <2>2, <2>5
<1>6. ASSUME NEW i \in 1 .. Len(files), NEW s \in ToSet(files[i].exports), s.id # None
      PROVE  /\ \E e \in ToSet(r.entries) : SameName(e, s)
             /\ r.issues = <<>> => EntryOf(files[i], s) \in ToSet(r.entries)
  <2> DEFINE f == EntryOf(files[i], s)
  <2>1. f.id = s.id /\ f.version = s.version
    BY DEF EntryOf
  <2>2. f \in ToSet(flat)
    <3>1. f \in EntriesIn(files[i])
      BY DEF EntriesIn
    <3> HIDE DEF f
    <3>2. QED  BY <1>2, <3>1
  <2> HIDE DEF f
  <2>3. PICK n \in 1 .. Len(flat) : f = flat[n]
    BY <1>2, <2>2, RangeFacts
  <2>4. n \in NamedUpto(flat, Len(flat))
    BY <1>6, <2>1, <2>3 DEF NamedUpto
  <2>5. \E e \in ToSet(r.entries) : SameName(e, f)
    BY <1>4, <2>3, <2>4
  <2>6. \E e \in ToSet(r.entries) : SameName(e, s)
    BY <2>1, <2>5 DEF SameName
  <2>7. r.issues = <<>> => f \in ToSet(r.entries)
    BY <1>4, <2>3, <2>4
  <2>8. QED  BY <2>6, <2>7 DEF f
<1>7. IsRegistry(r, files)
  BY <1>4, <1>5, <1>6 DEF IsRegistry
<1>8. QED  BY <1>7 DEF r

-----------------------------------------------------------------------------
(* Sorting by insertion.                                                   *)

LEMMA InsertAtRange ==
  ASSUME NEW S, NEW s \in Seq(S), NEW i \in 1 .. Len(s) + 1, NEW e \in S
  PROVE  /\ ToSet(InsertAt(s, i, e)) = ToSet(s) \cup {e}
         /\ Distinct(s) /\ e \notin ToSet(s) => Distinct(InsertAt(s, i, e))
<1> DEFINE t == InsertAt(s, i, e)
           from(j) == IF j < i THEN j ELSE j - 1
           to(j) == IF j < i THEN j ELSE j + 1
<1>1. /\ t \in Seq(S) /\ Len(t) = Len(s) + 1 /\ Len(s) \in Nat
      /\ \A j \in 1 .. Len(s) + 1 : t[j] = IF j < i THEN s[j] ELSE IF j = i THEN e ELSE s[j - 1]
  BY InsertAtFacts
<1> HIDE DEF t
<1>2. ASSUME NEW j \in 1 .. Len(t), j # i  PROVE from(j) \in 1 .. Len(s) /\ t[j] = s[from(j)]
  BY <1>1, <1>2
<1>3. t[i] = e /\ i \in 1 .. Len(t)
  BY <1>1
<1>4. ASSUME NEW j \in 1 .. Len(s)  PROVE to(j) \in 1 .. Len(t) /\ t[to(j)] = s[j]
  BY <1>1
<1>5. ASSUME NEW j \in 1 .. Len(t), NEW l \in 1 .. Len(t), j # i, l # i, from(j) = from(l)
      PROVE  j = l
  BY <1>1, <1>5
<1> HIDE DEF from, to
<1>6. /\ ToSet(t) = {t[j] : j \in 1 .. Len(t)} /\ ToSet(s) = {s[j] : j \in 1 .. Len(s)}
  BY <1>1, RangeFacts
<1>7. ToSet(t) = ToSet(s) \cup {e}
  BY <1>2, <1>3, <1>4, <1>6
<1>8. ASSUME Distinct(s), e \notin ToSet(s), NEW j \in 1 .. Len(t), NEW l \in 1 .. Len(t), t[j] = t[l]
      PROVE  j = l
  <2>1. CASE j = i \/ l = i
    BY <1>2, <1>3, <1>6, <1>8, <2>1
  <2>2. CASE j # i /\ l # i
    <3>1. s[from(j)] = s[from(l)] /\ from(j) \in 1 .. Len(s) /\ from(l) \in 1 .. Len(s)
      BY <1>2, <1>8, <2>2
    <3>2. from(j) = from(l)
      BY <1>8, <3>1 DEF Distinct
    <3>3. QED  BY <1>5, <2>2, <3>2
  <2>3. QED  BY <2>1, <2>2
<1>9. Distinct(s) /\ e \notin ToSet(s) => Distinct(t)
  BY <1>8 DEF Distinct
<1>10. QED  BY <1>7, <1>9 DEF t

\* An insertion behind the n-th element.
InsertedBehind(s, v, n) ==
  /\ n \in 0 .. Len(s)
  /\ Insert(s, v) = InsertAt(s, n + 1, v)
  /\ n > 0 => ~Before(v, s[n])
  /\ \A i \in 1 .. Len(s) : i > n => Before(v, s[i])

LEMMA InsertFacts ==
  ASSUME NEW S, NEW s \in Seq(S), NEW v
  PROVE  \E n : InsertedBehind(s, v, n)
<1> DEFINE after == {i \in DOMAIN s : ~Before(v, s[i])}
           n == CHOOSE m \in after \cup {0} : \A i \in after : i <= m
           behind == {Len(s) - i : i \in after \cup {0}}
<1>1. Len(s) \in Nat /\ DOMAIN s = 1 .. Len(s)
  OBVIOUS
<1>2. after \in SUBSET (1 .. Len(s))
  BY <1>1
<1>3. \A i \in 1 .. Len(s) : i \in after <=> ~Before(v, s[i])
  BY <1>1
<1> HIDE DEF after
<1>4. behind \in SUBSET Nat /\ behind # {}
  <2>1. \A i \in after \cup {0} : Len(s) - i \in Nat
    BY <1>1, <1>2
  <2>2. QED  BY <2>1
<1>5. PICK b \in behind : \A c \in behind : b <= c
  BY <1>4, LeastExists
<1>6. PICK m \in after \cup {0} : b = Len(s) - m
  BY <1>5
<1>7. ASSUME NEW i \in after  PROVE i <= m
  <2>1. Len(s) - i \in behind
    BY <1>2
  <2>2. Len(s) - m <= Len(s) - i
    BY <1>5, <1>6, <2>1
  <2>3. QED  BY <1>1, <1>2, <2>2
<1>8. n \in after \cup {0} /\ \A i \in after : i <= n
  BY <1>6, <1>7
<1>9. Insert(s, v) = InsertAt(s, 1 + n, v)
  BY DEF Insert, after
<1> HIDE DEF n
<1>10. n \in 0 .. Len(s) /\ 1 + n = n + 1
  BY <1>1, <1>2, <1>8
<1>11. n > 0 => ~Before(v, s[n])
  BY <1>1, <1>3, <1>8, <1>10
<1>12. ASSUME NEW i \in 1 .. Len(s), i > n  PROVE Before(v, s[i])
  BY <1>3, <1>8, <1>10, <1>12
<1>13. InsertedBehind(s, v, n)
  BY <1>9, <1>10, <1>11, <1>12 DEF InsertedBehind
<1>14. QED  BY <1>13

(* The order of the versions where one rule compares all of them.          *)
LEMMA NumbersFirst ==
  ASSUME NEW a \in Versions, NEW b \in Versions, Triple[a] # <<>>, Triple[b] # <<>>
  PROVE  /\ \A i \in 1 .. 3 : Triple[a][i] \in Int /\ Triple[b][i] \in Int
         /\ Collation[a] \in Int /\ Collation[b] \in Int
         /\ Before(a, b) <=>
              \/ Triple[a][1] < Triple[b][1]
              \/ /\ Triple[a][1] = Triple[b][1]
                 /\ \/ Triple[a][2] < Triple[b][2]
                    \/ /\ Triple[a][2] = Triple[b][2]
                       /\ \/ Triple[a][3] < Triple[b][3]
                          \/ /\ Triple[a][3] = Triple[b][3]
                             /\ Collation[a] < Collation[b]
<1> DEFINE t == Triple[a]
           u == Triple[b]
           differ == {i \in 1 .. 3 : t # <<>> /\ u # <<>> /\ t[i] # u[i]}
<1>1. t \in Int \X Int \X Int /\ u \in Int \X Int \X Int
  BY RegistriesConstants
<1>2. /\ t[1] \in Int /\ t[2] \in Int /\ t[3] \in Int
      /\ u[1] \in Int /\ u[2] \in Int /\ u[3] \in Int
  BY <1>1
<1>3. Collation[a] \in Int /\ Collation[b] \in Int
  BY RegistriesConstants
<1>4. Before(a, b) <=> IF differ = {} THEN Collation[a] < Collation[b]
                       ELSE \E i \in differ : (\A j \in differ : i <= j) /\ t[i] < u[i]
  BY DEF Before
<1> HIDE DEF t, u
<1>5. \A i : i \in 1 .. 3 <=> i = 1 \/ i = 2 \/ i = 3
  OBVIOUS
<1>6. \A i : i \in differ <=> (i = 1 \/ i = 2 \/ i = 3) /\ t[i] # u[i]
  BY <1>5 DEF t, u
<1> HIDE DEF differ
<1>7. CASE t[1] # u[1]
  <2>1. 1 \in differ /\ \A j \in differ : 1 <= j
    BY <1>6, <1>7
  <2>2. \A i \in differ : (\A j \in differ : i <= j) => i = 1
    BY <1>6, <2>1
  <2>3. Before(a, b) <=> t[1] < u[1]
    BY <1>4, <2>1, <2>2
  <2>4. QED  BY <1>2, <1>3, <1>5, <1>7, <2>3 DEF t, u
<1>8. CASE t[1] = u[1] /\ t[2] # u[2]
  <2>1. 2 \in differ /\ \A j \in differ : 2 <= j
    BY <1>6, <1>8
  <2>2. \A i \in differ : (\A j \in differ : i <= j) => i = 2
    BY <1>6, <2>1
  <2>3. Before(a, b) <=> t[2] < u[2]
    BY <1>4, <2>1, <2>2
  <2>4. QED  BY <1>2, <1>3, <1>5, <1>8, <2>3 DEF t, u
<1>9. CASE t[1] = u[1] /\ t[2] = u[2] /\ t[3] # u[3]
  <2>1. 3 \in differ /\ \A j \in differ : 3 <= j
    BY <1>6, <1>9
  <2>2. \A i \in differ : (\A j \in differ : i <= j) => i = 3
    BY <1>6, <2>1
  <2>3. Before(a, b) <=> t[3] < u[3]
    BY <1>4, <2>1, <2>2
  <2>4. QED  BY <1>2, <1>3, <1>5, <1>9, <2>3 DEF t, u
<1>10. CASE t[1] = u[1] /\ t[2] = u[2] /\ t[3] = u[3]
  <2>1. differ = {}
    BY <1>6, <1>10
  <2>2. Before(a, b) <=> Collation[a] < Collation[b]
    BY <1>4, <2>1
  <2>3. QED  BY <1>2, <1>3, <1>5, <1>10, <2>2 DEF t, u
<1>11. QED  BY <1>7, <1>8, <1>9, <1>10

LEMMA TextOnly ==
  ASSUME NEW a \in Versions, NEW b \in Versions, Triple[a] = <<>> \/ Triple[b] = <<>>
  PROVE  /\ Collation[a] \in Int /\ Collation[b] \in Int
         /\ Before(a, b) <=> Collation[a] < Collation[b]
BY RegistriesConstants DEF Before

\* An order in which some may be level.
Ranks(W) ==
  \A a, b \in W : /\ Before(a, b) => ~Before(b, a)
                  /\ \A c \in W : ~Before(a, b) /\ ~Before(b, c) => ~Before(a, c)

LEMMA OneRuleRanks ==
  ASSUME NEW W \in SUBSET Versions, OneRule(W)  PROVE Ranks(W)
<1> SUFFICES ASSUME NEW a \in W, NEW b \in W
             PROVE  /\ Before(a, b) => ~Before(b, a)
                    /\ \A c \in W : ~Before(a, b) /\ ~Before(b, c) => ~Before(a, c)
  BY DEF Ranks
<1>1. CASE \A v \in W : Triple[v] # <<>>
  <2>1. Before(a, b) => ~Before(b, a)
    BY <1>1, NumbersFirst
  <2>2. ASSUME NEW c \in W, ~Before(a, b), ~Before(b, c)  PROVE ~Before(a, c)
    BY <1>1, <2>2, NumbersFirst, SMTT(30)
  <2>3. QED  BY <2>1, <2>2
<1>2. CASE \A v \in W : Triple[v] = <<>>
  BY <1>2, TextOnly
<1>3. QED  BY <1>1, <1>2 DEF OneRule

\* No later element comes before an earlier one.
Ascending(s) == \A i, j \in 1 .. Len(s) : i < j => ~Before(s[j], s[i])

LEMMA InsertAscends ==
  ASSUME NEW W, Ranks(W), NEW s \in Seq(W), NEW v \in W, Ascending(s)
  PROVE  Ascending(Insert(s, v))
<1>1. PICK n : InsertedBehind(s, v, n)
  BY InsertFacts
<1> DEFINE t == Insert(s, v)
<1>2. /\ n \in 0 .. Len(s) /\ t = InsertAt(s, n + 1, v)
      /\ n > 0 => ~Before(v, s[n])
      /\ \A i \in 1 .. Len(s) : i > n => Before(v, s[i])
  BY <1>1 DEF InsertedBehind
<1>3. Len(s) \in Nat /\ n + 1 \in 1 .. Len(s) + 1 /\ \A i \in 1 .. Len(s) : s[i] \in W
  BY <1>2
<1> HIDE DEF t
<1>4. /\ t \in Seq(W) /\ Len(t) = Len(s) + 1
      /\ \A j \in 1 .. Len(s) + 1 :
           t[j] = IF j < n + 1 THEN s[j] ELSE IF j = n + 1 THEN v ELSE s[j - 1]
  BY <1>2, <1>3, InsertAtFacts
<1>5. ASSUME NEW i \in 1 .. Len(s), i <= n  PROVE ~Before(v, s[i])
  <2>1. n \in 1 .. Len(s) /\ n > 0
    BY <1>2, <1>3, <1>5
  <2>2. CASE i = n
    BY <1>2, <2>1, <2>2
  <2>3. CASE i < n
    <3>1. ~Before(s[n], s[i]) /\ ~Before(v, s[n])
      BY <1>2, <2>1, <2>3 DEF Ascending
    <3>2. s[n] \in W /\ s[i] \in W
      BY <1>3, <2>1
    <3>3. QED  BY <3>1, <3>2 DEF Ranks
  <2>4. QED  BY <1>2, <1>5, <2>2, <2>3
<1>6. ASSUME NEW i \in 1 .. Len(s), i > n  PROVE ~Before(s[i], v)
  BY <1>2, <1>3, <1>6 DEF Ranks
<1>7. ASSUME NEW i \in 1 .. Len(t), NEW j \in 1 .. Len(t), i < j  PROVE ~Before(t[j], t[i])
  <2>1. CASE j < n + 1
    <3>1. t[i] = s[i] /\ t[j] = s[j] /\ i \in 1 .. Len(s) /\ j \in 1 .. Len(s)
      BY <1>2, <1>3, <1>4, <1>7, <2>1
    <3>2. QED  BY <1>7, <3>1 DEF Ascending
  <2>2. CASE j = n + 1
    <3>1. t[i] = s[i] /\ t[j] = v /\ i \in 1 .. Len(s) /\ i <= n
      BY <1>2, <1>3, <1>4, <1>7, <2>2
    <3>2. QED  BY <1>5, <3>1
  <2>3. CASE j > n + 1 /\ i < n + 1
    <3>1. t[i] = s[i] /\ t[j] = s[j - 1] /\ i \in 1 .. Len(s) /\ j - 1 \in 1 .. Len(s) /\ i < j - 1
      BY <1>2, <1>3, <1>4, <1>7, <2>3
    <3>2. QED  BY <3>1 DEF Ascending
  <2>4. CASE j > n + 1 /\ i = n + 1
    <3>1. t[i] = v /\ t[j] = s[j - 1] /\ j - 1 \in 1 .. Len(s) /\ j - 1 > n
      BY <1>2, <1>3, <1>4, <1>7, <2>4
    <3>2. QED  BY <1>6, <3>1
  <2>5. CASE j > n + 1 /\ i > n + 1
    <3>1. /\ t[i] = s[i - 1] /\ t[j] = s[j - 1] /\ i - 1 \in 1 .. Len(s) /\ j - 1 \in 1 .. Len(s)
          /\ i - 1 < j - 1
      BY <1>2, <1>3, <1>4, <1>7, <2>5
    <3>2. QED  BY <3>1 DEF Ascending
  <2>6. QED  BY <1>2, <1>3, <1>4, <2>1, <2>2, <2>3, <2>4, <2>5
<1>8. Ascending(t)
  BY <1>7 DEF Ascending
<1>9. QED  BY <1>8 DEF t

LEMMA InsertRange ==
  ASSUME NEW S, NEW s \in Seq(S), NEW v \in S
  PROVE  /\ Insert(s, v) \in Seq(S) /\ Len(Insert(s, v)) = Len(s) + 1
         /\ ToSet(Insert(s, v)) = ToSet(s) \cup {v}
         /\ Distinct(s) /\ v \notin ToSet(s) => Distinct(Insert(s, v))
<1>1. PICK n : InsertedBehind(s, v, n)
  BY InsertFacts
<1>2. n + 1 \in 1 .. Len(s) + 1 /\ Insert(s, v) = InsertAt(s, n + 1, v)
  BY <1>1 DEF InsertedBehind
<1>3. QED  BY <1>2, InsertAtFacts, InsertAtRange

IsInsertFold(g, vs, n) ==
  g = [s \in SUBSET (1 .. n) |->
         IF s = {} THEN <<>> ELSE LET x == Max(s) IN Insert(g[s \ {x}], vs[x])]

Inserts(k, vs) ==
  /\ k[0] = <<>>
  /\ \A n \in 1 .. Len(vs) : k[n] = Insert(k[n - 1], vs[n])

LEMMA InsertFoldExists ==
  ASSUME NEW S, NEW vs \in Seq(S)  PROVE \E g : IsInsertFold(g, vs, Len(vs))
<1> DEFINE N == Len(vs)
           D == Seq(S)
           none == <<>>
           step == [n \in 1 .. N |-> [x \in D |-> Insert(x, vs[n])]]
<1>1. none \in D /\ N \in Nat /\ \A n \in 1 .. N : vs[n] \in S
  OBVIOUS
<1>2. step \in [1 .. N -> [D -> D]] /\ \A n \in 1 .. N : \A x \in D : step[n][x] = Insert(x, vs[n])
  <2>1. ASSUME NEW n \in 1 .. N, NEW x \in D  PROVE Insert(x, vs[n]) \in D
    BY <1>1, InsertRange
  <2> HIDE DEF D, N
  <2>2. QED  BY <2>1
<1> HIDE DEF D, step, N, none
<1>3. PICK g \in [SUBSET (1 .. N) -> D] : FoldsTo(g, N, none, step)
  BY <1>1, <1>2, FoldExistsFor
<1>4. ASSUME NEW s \in SUBSET (1 .. N)
      PROVE  g[s] = IF s = {} THEN none
                    ELSE LET x == Max(s) IN Insert(g[s \ {x}], vs[x])
  <2>1. g[s] = IF s = {} THEN none ELSE step[Max(s)][g[s \ {Max(s)}]]
    BY <1>3 DEF FoldsTo
  <2>2. CASE s = {}
    BY <2>1, <2>2
  <2>3. CASE s # {}
    <3>1. Max(s) \in 1 .. N /\ s \ {Max(s)} \in SUBSET (1 .. N)
      BY <1>1, <2>3, MaxFacts
    <3>2. g[s \ {Max(s)}] \in D
      BY <1>3, <3>1
    <3>3. QED  BY <1>2, <2>1, <2>3, <3>1, <3>2
  <2>4. QED  BY <2>2, <2>3
<1>5. g = [s \in SUBSET (1 .. N) |-> g[s]]
  BY <1>3
<1>6. IsInsertFold(g, vs, N)
  BY <1>4, <1>5 DEF IsInsertFold, none
<1>7. QED  BY <1>6 DEF N

LEMMA SortedIsLoop ==
  ASSUME NEW S, NEW vs \in Seq(S)
  PROVE  \E k : Inserts(k, vs) /\ Sorted(vs) = k[Len(vs)]
<1> DEFINE N == Len(vs)
           fold == CHOOSE g : IsInsertFold(g, vs, N)
           k == [n \in 0 .. N |-> fold[1 .. n]]
           none == <<>>
<1>1. IsInsertFold(fold, vs, N)
  BY InsertFoldExists
<1>2. N \in Nat /\ DOMAIN vs = 1 .. N
  OBVIOUS
<1>3. Sorted(vs) = fold[1 .. N]
  BY <1>2 DEF Sorted, FoldLeft, MapThenFoldSet, IsInsertFold
<1> HIDE DEF fold, N
<1>4. fold[1 .. 0] = none
  <2>1. 1 .. 0 = {} /\ {} \in SUBSET (1 .. N)
    OBVIOUS
  <2>2. QED  BY <1>1, <2>1 DEF IsInsertFold
<1>5. ASSUME NEW n \in 1 .. N  PROVE fold[1 .. n] = Insert(fold[1 .. n - 1], vs[n])
  <2>1. 1 .. n \in SUBSET (1 .. N) /\ 1 .. n # {} /\ n \in Nat \ {0}
    BY <1>2, IntervalFacts
  <2>2. fold[1 .. n] = LET x == Max(1 .. n) IN Insert(fold[(1 .. n) \ {x}], vs[x])
    BY <1>1, <2>1 DEF IsInsertFold
  <2>3. QED  BY <2>1, <2>2, MaxOfInterval
<1> HIDE DEF none
<1>6. k[0] = none /\ k[N] = fold[1 .. N]
  BY <1>2, <1>4
<1>7. ASSUME NEW n \in 1 .. N  PROVE k[n] = Insert(k[n - 1], vs[n])
  <2>1. n \in 0 .. N /\ n - 1 \in 0 .. N
    BY <1>2, IntervalFacts
  <2>2. QED  BY <1>5, <2>1
<1> HIDE DEF k
<1>8. Inserts(k, vs)
  BY <1>6, <1>7 DEF Inserts, N, none
<1>9. QED  BY <1>3, <1>6, <1>8 DEF N

LEMMA SortedFacts ==
  ASSUME NEW S, NEW vs \in Seq(S)
  PROVE  /\ Sorted(vs) \in Seq(S) /\ ToSet(Sorted(vs)) = ToSet(vs)
         /\ Distinct(vs) => Distinct(Sorted(vs))
         /\ Ranks(S) => Ascending(Sorted(vs))
<1> DEFINE N == Len(vs)
           Upto(n) == {vs[i] : i \in 1 .. n}
<1>1. PICK k : Inserts(k, vs) /\ Sorted(vs) = k[N]
  BY SortedIsLoop
<1>2. k[0] = <<>> /\ \A n \in 1 .. N : k[n] = Insert(k[n - 1], vs[n])
  BY <1>1 DEF Inserts
<1>3. N \in Nat /\ (\A n \in 1 .. N : vs[n] \in S) /\ ToSet(vs) = Upto(N)
  BY RangeFacts
<1> DEFINE Holds(s, n) == /\ s \in Seq(S) /\ ToSet(s) = Upto(n)
                          /\ Distinct(vs) => Distinct(s)
                          /\ Ranks(S) => Ascending(s)
           T == {n \in 0 .. N : Holds(k[n], n)}
<1>4. 0 \in T
  <2>1. Upto(0) = {} /\ 0 \in 0 .. N
    BY <1>3
  <2>2. <<>> \in Seq(S) /\ ToSet(<<>>) = {} /\ Distinct(<<>>) /\ Ascending(<<>>)
    BY DEF ToSet, Distinct, Ascending
  <2>3. QED  BY <1>2, <2>1, <2>2
<1>5. ASSUME NEW n \in 1 .. N, n - 1 \in T  PROVE n \in T
  <2>1. n \in 0 .. N /\ vs[n] \in S
    BY <1>3, IntervalFacts
  <2>2. k[n] = Insert(k[n - 1], vs[n])
    BY <1>2, Zenon
  <2>3. Upto(n) = Upto(n - 1) \cup {vs[n]}
    <3>1. 1 .. n = (1 .. n - 1) \cup {n}
      BY <1>3
    <3>2. QED  BY <3>1
  <2>4. Distinct(vs) => vs[n] \notin Upto(n - 1)
    BY <1>3 DEF Distinct
  <2>5. Holds(k[n - 1], n - 1)
    BY <1>5
  <2> HIDE DEF Upto
  <2>6. ASSUME NEW s \in Seq(S), Holds(s, n - 1), NEW v \in S,
               Distinct(vs) => v \notin Upto(n - 1), Upto(n) = Upto(n - 1) \cup {v}
        PROVE  Holds(Insert(s, v), n)
    <3>1. /\ Insert(s, v) \in Seq(S) /\ ToSet(Insert(s, v)) = ToSet(s) \cup {v}
          /\ Distinct(s) /\ v \notin ToSet(s) => Distinct(Insert(s, v))
      BY InsertRange
    <3>2. Ranks(S) => Ascending(Insert(s, v))
      BY <2>6, InsertAscends
    <3>3. QED  BY <2>6, <3>1, <3>2
  <2>7. k[n - 1] \in Seq(S)
    BY <2>5
  <2> HIDE DEF Holds
  <2>8. Holds(k[n], n)
    BY <2>1, <2>2, <2>3, <2>4, <2>5, <2>6, <2>7
  <2>9. QED  BY <2>1, <2>8
<1>6. Holds(k[N], N)
  <2>1. N \in 0 .. N
    BY <1>3
  <2> HIDE DEF T, N, Holds
  <2>2. \A n \in 0 .. N : n \in T
    BY <1>3, <1>4, <1>5, UptoInduction
  <2>3. N \in T
    BY <2>1, <2>2
  <2>4. QED  BY <2>3 DEF T
<1>7. QED  BY <1>1, <1>3, <1>6

-----------------------------------------------------------------------------
(* Looking schemas up.                                                     *)

LEMMA LastFacts ==
  ASSUME NEW S, NEW s \in Seq(S), s # <<>>
  PROVE  Len(s) \in 1 .. Len(s) /\ Last(s) = s[Len(s)] /\ Last(s) \in ToSet(s)
<1>1. Len(s) \in 1 .. Len(s)
  OBVIOUS
<1>2. QED  BY <1>1, RangeFacts DEF Last

LEMMA LookupFacts ==
  ASSUME NEW entries \in Seq(EntrySet), Unlike(entries)
  PROVE  /\ \A e \in ToSet(entries) : Exactly(entries, e.id, e.version) = {e}
         /\ \A id :
              /\ VersionsOf(entries, id) \in Seq(Versions)
              /\ VersionSet(entries, id) =
                   {e.version : e \in {x \in ToSet(entries) : x.id = id /\ x.version # Unversioned}}
              /\ Distinct(VersionsOf(entries, id))
              /\ VersionSet(entries, id) = {} =>
                   findSchema(entries, id, None) = Exactly(entries, id, Unversioned)
              /\ VersionSet(entries, id) # {} =>
                   LET last == Last(Sorted(VersionsOf(entries, id)))
                   IN /\ findSchema(entries, id, None) = Exactly(entries, id, last)
                      /\ last \in VersionSet(entries, id) /\ last # Unversioned
<1>1. ASSUME NEW e \in ToSet(entries)  PROVE Exactly(entries, e.id, e.version) = {e}
  <2>1. PICK i \in 1 .. Len(entries) : e = entries[i]
    BY RangeFacts
  <2>2. ASSUME NEW f \in ToSet(entries), f.id = e.id, f.version = e.version  PROVE f = e
    <3>1. PICK j \in 1 .. Len(entries) : f = entries[j]
      BY RangeFacts
    <3>2. QED  BY <2>1, <2>2, <3>1 DEF Unlike
  <2>3. QED  BY <2>2 DEF Exactly
<1>2. ASSUME NEW id
      PROVE  /\ VersionsOf(entries, id) \in Seq(Versions)
             /\ VersionSet(entries, id) =
                  {e.version : e \in {x \in ToSet(entries) : x.id = id /\ x.version # Unversioned}}
             /\ Distinct(VersionsOf(entries, id))
             /\ VersionSet(entries, id) = {} =>
                  findSchema(entries, id, None) = Exactly(entries, id, Unversioned)
             /\ VersionSet(entries, id) # {} =>
                  LET last == Last(Sorted(VersionsOf(entries, id)))
                  IN /\ findSchema(entries, id, None) = Exactly(entries, id, last)
                     /\ last \in VersionSet(entries, id) /\ last # Unversioned
  <2> DEFINE vs == VersionsOf(entries, id)
             VS == {e.version : e \in {x \in ToSet(entries) : x.id = id /\ x.version # Unversioned}}
  <2>1. /\ vs \in Seq({e.version : e \in EntrySet}) /\ ToSet(vs) = VS /\ Distinct(vs)
    BY VersionsFacts
  <2>2. vs \in Seq(Versions)
    <3>1. \A e \in EntrySet : e.version \in Versions
      BY DEF EntrySet
    <3> DEFINE W == {e.version : e \in EntrySet}
    <3>2. \A v \in W : v \in Versions
      BY <3>1
    <3> HIDE DEF W, VS, vs
    <3>3. vs \in Seq(W)
      BY <2>1 DEF W
    <3>4. QED  BY <3>2, <3>3
  <2>3. VersionSet(entries, id) = VS
    BY <2>1 DEF VersionSet
  <2>4. findSchema(entries, id, None) =
          IF vs # <<>> THEN Exactly(entries, id, Last(Sorted(vs))) ELSE Exactly(entries, id, Unversioned)
    BY DEF findSchema
  <2>5. \A v \in VS : v # Unversioned
    OBVIOUS
  <2> HIDE DEF vs, VS
  <2>6. vs = <<>> <=> VS = {}
    BY <2>1, <2>2, RangeFacts
  <2>7. ASSUME VS # {}  PROVE Last(Sorted(vs)) \in VS
    <3>1. Sorted(vs) \in Seq(Versions) /\ ToSet(Sorted(vs)) = VS
      BY <2>1, <2>2, SortedFacts
    <3>2. Sorted(vs) # <<>>
      BY <2>7, <3>1, RangeFacts
    <3>3. QED  BY <3>1, <3>2, LastFacts
  <2>8. QED  BY <2>1, <2>2, <2>3, <2>4, <2>5, <2>6, <2>7 DEF vs, VS
<1>3. QED  BY <1>1, <1>2

(* EverySchemaAddressable: the operands of `diff` mean the schemas that    *)
(* they name, and no others, for any files, ids and versions.              *)
THEOREM SchemasAddressable == Spec => []EverySchemaAddressable
<1>1. ASSUME Numbered(schemaFiles, SchemaFile)  PROVE EverySchemaAddressable
  <2> DEFINE files == schemaFiles
             registry == buildRegistry(files)
             entries == registry.entries
             operand(e) == [id |-> e.id, version |-> IF e.version = Unversioned THEN None ELSE e.version]
             meant(e) == [id |-> e.id, version |-> e.version]
             direct(e) == /\ ~LooksLikePath(operand(e))
                          /\ e.version # Unversioned \/ VersionSet(entries, e.id) = {}
             alone(e) == \A f \in findEntryByFile(files, e.path) : Len(f.exports) = 1
             operands(e) == {o \in {operand(e), [path |-> e.path]} :
                               IF "path" \in DOMAIN o THEN alone(e) ELSE direct(e)}
             resolved(o) == resolveOperand(files, entries, o)
  <2> SUFFICES ASSUME runList(files) = SUCCESS
               PROVE  /\ \A e, f \in ToSet(entries) : \A a \in operands(e), b \in operands(f) :
                           LET pair == <<meant(e), meant(f)>> IN
                           /\ runDiff(files, a, b, {pair}) = LOGICAL_FAILURE
                           /\ runDiff(files, a, b, (Exports \X Exports) \ {pair}) = SUCCESS
                      /\ \A e \in ToSet(entries) : ~direct(e) => meant(e) \notin resolved(operand(e))
    BY DEF EverySchemaAddressable, Registry
  <2>1. AllLoad(files) /\ registry.issues = <<>>
    BY DEF runList, SUCCESS, IO_ERROR, LOGICAL_FAILURE
  <2>2. IsRegistry(registry, files)
    BY <1>1, RegistryFacts
  <2>3. /\ Len(files) \in Nat /\ DOMAIN files = 1 .. Len(files)
        /\ ToSet(files) = {files[i] : i \in 1 .. Len(files)}
        /\ \A i \in 1 .. Len(files) : files[i] \in SchemaFile
        /\ \A i, j \in 1 .. Len(files) : files[i].name = files[j].name => i = j
    BY <1>1 DEF Numbered, ToSet
  <2> HIDE DEF registry, files
  <2>4. entries \in Seq(EntrySet) /\ Unlike(entries)
    BY <2>2 DEF IsRegistry, Registers
  <2>5. \A e \in ToSet(entries) :
          e.id # None /\ \E i \in 1 .. Len(files) : \E s \in ToSet(files[i].exports) : e = EntryOf(files[i], s)
    BY <2>2 DEF IsRegistry
  <2>6. /\ None \notin Versions /\ Unversioned # None
        /\ \A e \in ToSet(entries) : e.version \in Versions
    <3>1. \A e \in ToSet(entries) : e \in EntrySet
      BY <2>4, RangeFacts
    <3>2. QED  BY <3>1, RegistriesConstants DEF EntrySet
  <2> HIDE DEF entries
  <2>7. \A e : /\ "path" \notin DOMAIN operand(e) /\ "path" \in DOMAIN [path |-> e.path]
               /\ (operand(e)).id = e.id
               /\ (operand(e)).version = IF e.version = Unversioned THEN None ELSE e.version
    OBVIOUS
  <2>8. \A e : resolved(operand(e)) =
                 {[id |-> x.id, version |-> x.version] : x \in ResolveId(entries, operand(e))}
    BY <2>7 DEF resolveOperand
  <2>9. \A e : resolved([path |-> e.path]) = ResolveFile(files, e.path)
    BY DEF resolveOperand
  <2>10. \A e : ResolveId(entries, operand(e)) =
                 IF LooksLikePath(operand(e)) \/ (operand(e)).version = Unversioned THEN {}
                 ELSE findSchema(entries, (operand(e)).id, (operand(e)).version)
    BY DEF ResolveId
  <2> HIDE DEF operand
  <2>11. ASSUME NEW e \in ToSet(entries), direct(e)  PROVE resolved(operand(e)) = {meant(e)}
    <3>1. ResolveId(entries, operand(e)) = {e}
      <4>1. CASE e.version = Unversioned
        <5>1. ResolveId(entries, operand(e)) = findSchema(entries, e.id, None)
          BY <2>6, <2>7, <2>10, <2>11, <4>1
        <5>2. findSchema(entries, e.id, None) = Exactly(entries, e.id, e.version)
          BY <2>4, <2>11, <4>1, LookupFacts
        <5>3. QED  BY <2>4, <5>1, <5>2, LookupFacts
      <4>2. CASE e.version # Unversioned
        <5>1. ResolveId(entries, operand(e)) = findSchema(entries, e.id, e.version)
          BY <2>7, <2>10, <2>11, <4>2
        <5>2. findSchema(entries, e.id, e.version) = Exactly(entries, e.id, e.version)
          BY <2>6 DEF findSchema
        <5>3. QED  BY <2>4, <5>1, <5>2, LookupFacts
      <4>3. QED  BY <4>1, <4>2
    <3> HIDE DEF resolved
    <3>2. QED  BY <2>8, <3>1
  <2>12. ASSUME NEW e \in ToSet(entries), alone(e)  PROVE resolved([path |-> e.path]) = {meant(e)}
    <3>0. PICK i \in 1 .. Len(files) : \E s \in ToSet(files[i].exports) : e = EntryOf(files[i], s)
      BY <2>5
    <3>1. PICK s \in ToSet(files[i].exports) : e = EntryOf(files[i], s)
      BY <3>0
    <3>2. e.path = files[i].name /\ e.id = s.id /\ e.version = s.version
      BY <3>1 DEF EntryOf
    <3>3. findEntryByFile(files, e.path) = {files[i]}
      BY <2>3, <3>2 DEF findEntryByFile
    <3>4. Len(files[i].exports) = 1
      BY <2>12, <3>3
    <3>5. ResolveFile(files, e.path) = {files[i].exports[1]}
      BY <3>3, <3>4 DEF ResolveFile
    <3>6. files[i].exports \in Seq(Exports)
      BY <2>3 DEF SchemaFile
    <3>7. PICK n \in 1 .. Len(files[i].exports) : s = files[i].exports[n]
      BY <3>1, <3>6, RangeFacts
    <3>8. s = files[i].exports[1] /\ s \in Exports
      BY <3>4, <3>6, <3>7
    <3>9. s = meant(e)
      BY <3>2, <3>8, ExportsFacts
    <3>10. QED  BY <2>9, <3>5, <3>8, <3>9
  <2>13. ASSUME NEW e \in ToSet(entries), NEW o \in operands(e)  PROVE resolved(o) = {meant(e)}
    <3>1. CASE o = operand(e)
      BY <2>7, <2>11, <2>13, <3>1
    <3>2. CASE o = [path |-> e.path]
      BY <2>7, <2>12, <2>13, <3>2
    <3>3. QED  BY <2>13, <3>1, <3>2
  <2>14. ASSUME NEW a, NEW b, NEW breaking
         PROVE  runDiff(files, a, b, breaking) =
                  IF \E s \in resolved(a), t \in resolved(b) : <<s, t>> \notin breaking
                  THEN SUCCESS ELSE LOGICAL_FAILURE
    BY <2>1 DEF runDiff, registry, entries
  <2>15. ASSUME NEW e \in ToSet(entries), NEW f \in ToSet(entries),
                NEW a \in operands(e), NEW b \in operands(f)
         PROVE  LET pair == <<meant(e), meant(f)>> IN
                /\ runDiff(files, a, b, {pair}) = LOGICAL_FAILURE
                /\ runDiff(files, a, b, (Exports \X Exports) \ {pair}) = SUCCESS
    <3> DEFINE pair == <<meant(e), meant(f)>>
    <3>1. resolved(a) = {meant(e)} /\ resolved(b) = {meant(f)}
      BY <2>13
    <3> HIDE DEF resolved, meant
    <3>2. \A breaking : (\E s \in resolved(a), t \in resolved(b) : <<s, t>> \notin breaking)
                          <=> pair \notin breaking
      BY <3>1
    <3> HIDE DEF pair
    <3>3. \A breaking : runDiff(files, a, b, breaking) =
                         IF pair \notin breaking THEN SUCCESS ELSE LOGICAL_FAILURE
      BY <2>14, <3>2, Zenon
    <3>4. pair \in {pair} /\ pair \notin (Exports \X Exports) \ {pair}
      OBVIOUS
    <3>5. QED  BY <3>3, <3>4 DEF pair
  <2>16. ASSUME NEW e \in ToSet(entries), ~direct(e)  PROVE meant(e) \notin resolved(operand(e))
    <3>1. CASE LooksLikePath(operand(e))
      BY <2>8, <2>10, <3>1
    <3>2. CASE ~LooksLikePath(operand(e))
      <4>1. e.version = Unversioned /\ VersionSet(entries, e.id) # {}
        BY <2>16, <3>2
      <4> DEFINE last == Last(Sorted(VersionsOf(entries, e.id)))
      <4>2. findSchema(entries, e.id, None) = Exactly(entries, e.id, last) /\ last # Unversioned
        BY <2>4, <4>1, LookupFacts
      <4> HIDE DEF last
      <4>3. ResolveId(entries, operand(e)) = Exactly(entries, e.id, last)
        BY <2>6, <2>7, <2>10, <3>2, <4>1, <4>2
      <4>4. \A x \in ResolveId(entries, operand(e)) : x.version # e.version
        BY <4>1, <4>2, <4>3 DEF Exactly
      <4>5. \A x : [id |-> x.id, version |-> x.version] = meant(e) => x.version = e.version
        OBVIOUS
      <4> HIDE DEF resolved, meant
      <4>6. QED  BY <2>8, <4>4, <4>5
    <3>3. QED  BY <3>1, <3>2
  <2> HIDE DEF operands, direct, resolved, meant
  <2>17. \A e, f \in ToSet(entries) : \A a \in operands(e), b \in operands(f) :
           LET pair == <<meant(e), meant(f)>> IN
           /\ runDiff(files, a, b, {pair}) = LOGICAL_FAILURE
           /\ runDiff(files, a, b, (Exports \X Exports) \ {pair}) = SUCCESS
    BY <2>15, Zenon
  <2>18. QED  BY <2>16, <2>17, Zenon
<1>2. QED  BY <1>1, NumberedHolds, PTL

-----------------------------------------------------------------------------
(* The list.                                                               *)

LEMMA OneToSeq ==
  ASSUME NEW E, NEW S \in SUBSET E, \A x, y \in S : x = y
  PROVE  /\ SetToSeq(S) \in Seq(E) /\ ToSet(SetToSeq(S)) = S
         /\ Len(SetToSeq(S)) \in Nat /\ \A i, j \in 1 .. Len(SetToSeq(S)) : i = j
<1> DEFINE n == Cardinality(S)
           f == SetToSeq(S)
<1>1. n \in Nat /\ ((n = 0 /\ S = {}) \/ (n = 1 /\ S # {}))
  <2>1. CASE S = {}
    BY <2>1, FS_EmptySet
  <2>2. CASE S # {}
    <3>1. PICK x : S = {x}
      BY <2>2
    <3>2. QED  BY <3>1, FS_Singleton
  <2>3. QED  BY <2>1, <2>2
<1>2. \E g \in [1 .. n -> S] : IsInjective(g)
  <2>1. CASE n = 0
    <3> DEFINE g == [i \in 1 .. 0 |-> {}]
    <3>1. 1 .. 0 = {}
      OBVIOUS
    <3>2. g \in [1 .. 0 -> S] /\ IsInjective(g)
      BY <3>1 DEF IsInjective
    <3> HIDE DEF g, n
    <3>3. QED  BY <2>1, <3>2
  <2>2. CASE n = 1
    <3>1. PICK x : x \in S
      BY <1>1, <2>2
    <3> DEFINE g == [i \in 1 .. 1 |-> x]
    <3>2. \A i \in 1 .. 1 : i = 1
      OBVIOUS
    <3>3. g \in [1 .. 1 -> S] /\ IsInjective(g)
      BY <3>1, <3>2 DEF IsInjective
    <3> HIDE DEF g, n
    <3>4. QED  BY <2>2, <3>3
  <2> HIDE DEF n
  <2>3. QED  BY <1>1, <2>1, <2>2
<1>3. f \in [1 .. n -> S]
  BY <1>2 DEF SetToSeq
<1> HIDE DEF f, n
<1>4. f \in Seq(S) /\ Len(f) = n /\ ToSet(f) = {f[i] : i \in 1 .. n}
  <2>1. \A m \in Nat : \A g \in [1 .. m -> S] :
          g \in Seq(S) /\ Len(g) = m /\ ToSet(g) = {g[i] : i \in 1 .. m}
    BY TabulatedIsSeq
  <2>2. n \in Nat
    BY <1>1
  <2>3. QED  BY <1>3, <2>1, <2>2, Zenon
<1>5. \A i, j \in 1 .. n : i = j
  BY <1>1
<1>6. f \in Seq(E)
  BY <1>4
<1>7. ToSet(f) = S
  <2>1. CASE n = 0
    <3>1. 1 .. n = {} /\ S = {}
      BY <1>1, <2>1
    <3>2. QED  BY <1>4, <3>1
  <2>2. CASE n = 1
    <3>1. 1 \in 1 .. n /\ f[1] \in S
      BY <1>3, <2>2
    <3>2. \A i \in 1 .. n : i = 1
      BY <2>2
    <3>3. QED  BY <1>4, <3>1, <3>2
  <2>3. QED  BY <1>1, <2>1, <2>2
<1>8. QED  BY <1>1, <1>4, <1>5, <1>6, <1>7 DEF f

\* How any two elements of the list stand to each other.
Listed(entries) ==
  {p \in EntrySet \X EntrySet :
     /\ p[1] # p[2]
     /\ p[1].id = p[2].id =>
          /\ p[1].version # Unversioned
          /\ p[2].version # Unversioned =>
               p[1].version # Last(Sorted(VersionsOf(entries, p[1].id)))}

LEMMA ListOfFacts ==
  ASSUME NEW entries \in Seq(EntrySet), Unlike(entries), NEW id
  PROVE  /\ ListOf(entries, id) \in Seq(EntrySet)
         /\ ToSet(ListOf(entries, id)) = {e \in ToSet(entries) : e.id = id}
         /\ InOrder(ListOf(entries, id), Listed(entries))
<1> DEFINE vs == Sorted(VersionsOf(entries, id))
           n == Len(vs)
           V == VersionSet(entries, id)
           found(i) == CHOOSE e \in Exactly(entries, id, vs[i]) : TRUE
           named == [i \in 1 .. n |-> found(i)]
           rest == SetToSeq(Exactly(entries, id, Unversioned))
           R == Listed(entries)
<1>1. /\ \A e \in ToSet(entries) : Exactly(entries, e.id, e.version) = {e}
      /\ VersionsOf(entries, id) \in Seq(Versions)
      /\ V = {e.version : e \in {x \in ToSet(entries) : x.id = id /\ x.version # Unversioned}}
      /\ Distinct(VersionsOf(entries, id))
  BY LookupFacts
<1>2. vs \in Seq(Versions) /\ ToSet(vs) = V /\ Distinct(vs)
  BY <1>1, SortedFacts DEF VersionSet
<1>3. ListOf(entries, id) = named \o rest
  <2>1. DOMAIN vs = 1 .. n
    BY <1>2
  <2>2. QED  BY <2>1 DEF ListOf
<1> HIDE DEF vs, V
<1>4. n \in Nat /\ ToSet(vs) = {vs[i] : i \in 1 .. n}
  BY <1>2, RangeFacts
<1> HIDE DEF n
<1>5. ASSUME NEW i \in 1 .. n
      PROVE  /\ found(i) \in ToSet(entries) /\ (found(i)).id = id /\ (found(i)).version = vs[i]
             /\ vs[i] # Unversioned
  <2>1. vs[i] \in V
    BY <1>2, <1>4
  <2>2. PICK e \in ToSet(entries) : e.id = id /\ e.version # Unversioned /\ e.version = vs[i]
    BY <1>1, <2>1
  <2>3. Exactly(entries, id, vs[i]) = {e}
    BY <1>1, <2>2
  <2>4. found(i) = e
    BY <2>3
  <2> HIDE DEF found
  <2>5. QED  BY <2>2, <2>4
<1>6. \A e \in ToSet(entries) : e \in EntrySet
  BY RangeFacts
<1> HIDE DEF found
<1>7. named \in [1 .. n -> EntrySet] /\ \A i \in 1 .. n : named[i] = found(i)
  BY <1>5, <1>6
<1> HIDE DEF named
<1>8. named \in Seq(EntrySet) /\ Len(named) = n /\ ToSet(named) = {named[i] : i \in 1 .. n}
  BY <1>4, <1>7, TabulatedIsSeq
<1>9. ToSet(named) = {e \in ToSet(entries) : e.id = id /\ e.version # Unversioned}
  <2>1. ASSUME NEW e \in ToSet(entries), e.id = id, e.version # Unversioned  PROVE e \in ToSet(named)
    <3>1. e.version \in V
      BY <1>1, <2>1
    <3>2. PICK i \in 1 .. n : e.version = vs[i]
      BY <1>2, <1>4, <3>1
    <3>3. found(i) \in Exactly(entries, e.id, e.version)
      BY <1>5, <2>1, <3>2 DEF Exactly
    <3>4. found(i) = e
      BY <1>1, <3>3
    <3>5. QED  BY <1>7, <1>8, <3>4
  <2>2. QED  BY <1>5, <1>7, <1>8, <2>1
<1>10. \A x, y \in Exactly(entries, id, Unversioned) : x = y
  <2>1. ASSUME NEW x \in Exactly(entries, id, Unversioned), NEW y \in Exactly(entries, id, Unversioned)
        PROVE  x = y
    <3>1. x \in ToSet(entries) /\ y \in Exactly(entries, x.id, x.version)
      BY DEF Exactly
    <3>2. QED  BY <1>1, <3>1
  <2>2. QED  BY <2>1
<1>11. Exactly(entries, id, Unversioned) \in SUBSET EntrySet
  BY <1>6 DEF Exactly
<1>12. /\ rest \in Seq(EntrySet) /\ ToSet(rest) = Exactly(entries, id, Unversioned)
       /\ Len(rest) \in Nat /\ \A i, j \in 1 .. Len(rest) : i = j
  BY <1>10, <1>11, OneToSeq
<1> HIDE DEF rest
<1>13. named \o rest \in Seq(EntrySet) /\ ToSet(named \o rest) = ToSet(named) \cup ToSet(rest)
  BY <1>8, <1>12, ConcatFacts
<1>14. ToSet(named) \cup ToSet(rest) = {e \in ToSet(entries) : e.id = id}
  BY <1>9, <1>12 DEF Exactly
<1>15. InOrder(named, R)
  <2>1. ASSUME NEW i \in 1 .. n, NEW j \in 1 .. n, i < j  PROVE <<named[i], named[j]>> \in R
    <3>1. /\ named[i].id = id /\ named[j].id = id /\ named[i].version = vs[i] /\ named[j].version = vs[j]
          /\ vs[i] # Unversioned /\ named[i] \in EntrySet /\ named[j] \in EntrySet
      BY <1>5, <1>7
    <3>2. vs[i] # vs[j]
      BY <1>2, <2>1 DEF Distinct, n
    <3>3. vs[i] # Last(vs)
      <4>1. n \in 1 .. n /\ i # n
        BY <1>4, <2>1
      <4>2. vs[i] # vs[n]
        BY <1>2, <4>1 DEF Distinct, n
      <4>3. QED  BY <4>2 DEF Last, n
    <3>4. QED  BY <3>1, <3>2, <3>3 DEF Listed, vs
  <2>2. QED  BY <1>8, <2>1 DEF InOrder
<1>16. InOrder(rest, R)
  <2>1. \A i, j \in 1 .. Len(rest) : ~(i < j)
    BY <1>12
  <2>2. QED  BY <2>1 DEF InOrder
<1>17. \A x \in ToSet(named), y \in ToSet(rest) : <<x, y>> \in R
  BY <1>6, <1>9, <1>12 DEF Listed, Exactly
<1>18. InOrder(named \o rest, R)
  <2> HIDE DEF R
  <2>1. QED  BY <1>8, <1>12, <1>15, <1>16, <1>17, ConcatInOrder
<1>19. QED  BY <1>3, <1>13, <1>14, <1>18

LEMMA ListFacts ==
  ASSUME NEW entries \in Seq(EntrySet), Unlike(entries), \A e \in ToSet(entries) : e.id \in Ids
  PROVE  /\ listHandler(entries) \in Seq(EntrySet)
         /\ ToSet(listHandler(entries)) = ToSet(entries)
         /\ InOrder(listHandler(entries), Listed(entries))
<1> DEFINE N == Len(IdOrder)
           seqs == [i \in 1 .. N |-> ListOf(entries, IdOrder[i])]
           list == listHandler(entries)
           R == Listed(entries)
<1>1. /\ N \in Nat /\ DOMAIN IdOrder = 1 .. N /\ Ids = {IdOrder[i] : i \in 1 .. N}
      /\ \A i, j \in 1 .. N : IdOrder[i] = IdOrder[j] => i = j
  BY RegistriesConstants DEF Ids, ToSet
<1>2. \A id : /\ ListOf(entries, id) \in Seq(EntrySet)
              /\ ToSet(ListOf(entries, id)) = {e \in ToSet(entries) : e.id = id}
              /\ InOrder(ListOf(entries, id), R)
  BY ListOfFacts
<1>3. seqs \in [1 .. N -> Seq(EntrySet)] /\ \A i \in 1 .. N : seqs[i] = ListOf(entries, IdOrder[i])
  BY <1>2
<1>4. list = FlattenSeq(seqs)
  BY <1>1 DEF listHandler
<1> HIDE DEF seqs, N, list, R
<1>5. seqs \in Seq(Seq(EntrySet)) /\ Len(seqs) = N
  BY <1>1, <1>3, TabulatedIsSeq
<1>6. Flattened(list, seqs, EntrySet)
  BY <1>4, <1>5, FlattenFacts
<1>7. ToSet(list) = UNION {ToSet(seqs[i]) : i \in 1 .. N} /\ list \in Seq(EntrySet)
  BY <1>5, <1>6 DEF Flattened
<1>8. \A i \in 1 .. N : ToSet(seqs[i]) = {e \in ToSet(entries) : e.id = IdOrder[i]}
  BY <1>2, <1>3
<1>9. ToSet(list) = ToSet(entries)
  BY <1>1, <1>7, <1>8
<1>10. \A i \in 1 .. N : InOrder(seqs[i], R)
  BY <1>2, <1>3
<1>11. ASSUME NEW m \in 1 .. N, NEW l \in 1 .. N, m < l,
              NEW x \in ToSet(seqs[m]), NEW y \in ToSet(seqs[l])
       PROVE  <<x, y>> \in R
  <2>1. x.id = IdOrder[m] /\ y.id = IdOrder[l] /\ x \in EntrySet /\ y \in EntrySet
    BY <1>8, RangeFacts
  <2>2. x.id # y.id
    BY <1>1, <1>11, <2>1
  <2>3. QED  BY <2>1, <2>2 DEF R, Listed
<1>12. InOrder(list, R)
  BY <1>5, <1>6, <1>10, <1>11 DEF Flattened
<1>13. QED  BY <1>7, <1>9, <1>12 DEF list, R

LEMMA FilesFacts ==
  ASSUME NEW files, Numbered(files, SchemaFile)
  PROVE  /\ Len(files) \in Nat /\ DOMAIN files = 1 .. Len(files)
         /\ \A i \in 1 .. Len(files) : files[i].exports \in Seq(Exports)
<1>1. /\ Len(files) \in Nat /\ DOMAIN files = 1 .. Len(files)
      /\ \A i \in 1 .. Len(files) : files[i] \in SchemaFile
  BY DEF Numbered
<1>2. \A f \in SchemaFile : f.exports \in Seq(Exports)
  BY DEF SchemaFile
<1>3. QED  BY <1>1, <1>2

LEMMA NamedFacts ==
  ASSUME NEW files, Numbered(files, SchemaFile)
  PROVE  Named(files) =
           {s \in UNION {ToSet(files[i].exports) : i \in 1 .. Len(files)} : s.id # None}
<1> DEFINE N == Len(files)
           seqs == [i \in 1 .. N |-> files[i].exports]
<1>1. N \in Nat /\ DOMAIN files = 1 .. N /\ \A i \in 1 .. N : files[i].exports \in Seq(Exports)
  BY FilesFacts
<1>2. seqs \in [1 .. N -> Seq(Exports)] /\ \A i \in 1 .. N : seqs[i] = files[i].exports
  BY <1>1
<1>3. Named(files) = {e \in ToSet(FlattenSeq(seqs)) : e.id # None}
  BY <1>1 DEF Named
<1> HIDE DEF seqs, N
<1>4. seqs \in Seq(Seq(Exports)) /\ Len(seqs) = N
  BY <1>1, <1>2, TabulatedIsSeq
<1>5. ToSet(FlattenSeq(seqs)) = UNION {ToSet(seqs[i]) : i \in 1 .. N}
  BY <1>4, FlattenFacts DEF Flattened
<1>6. UNION {ToSet(seqs[i]) : i \in 1 .. N} = UNION {ToSet(files[i].exports) : i \in 1 .. N}
  BY <1>2
<1>7. QED  BY <1>3, <1>5, <1>6 DEF N

(* No version of an id has higher numbers than the last in order.          *)
LEMMA LastIsHighest ==
  ASSUME NEW vs \in Seq(Versions), NEW v \in ToSet(vs), \A w \in ToSet(vs) : Triple[w] # <<>>
  PROVE  LET last == Last(Sorted(vs))
         IN ~ \E i \in 1..3 : /\ Triple[v][i] > Triple[last][i]
                              /\ \A j \in 1..(i-1) : Triple[v][j] = Triple[last][j]
<1> DEFINE V == ToSet(vs)
           s == Sorted(vs)
           last == Last(s)
<1>1. vs \in Seq(V) /\ V \in SUBSET Versions
  BY DEF ToSet
<1>2. Ranks(V)
  BY <1>1, OneRuleRanks DEF OneRule
<1> HIDE DEF V
<1>3. s \in Seq(V) /\ ToSet(s) = V /\ Ascending(s)
  BY <1>1, <1>2, SortedFacts DEF V
<1> HIDE DEF s
<1>4. v \in V /\ s # <<>>
  BY <1>3, RangeFacts DEF V
<1>5. Len(s) \in 1 .. Len(s) /\ last = s[Len(s)] /\ last \in V
  BY <1>3, <1>4, LastFacts
<1> HIDE DEF last
<1>6. PICK i \in 1 .. Len(s) : v = s[i]
  BY <1>3, <1>4, RangeFacts
<1>7. ~Before(last, v)
  <2>1. CASE i = Len(s)
    BY <1>2, <1>4, <1>5, <1>6, <2>1 DEF Ranks
  <2>2. CASE i < Len(s)
    BY <1>3, <1>5, <1>6, <2>2 DEF Ascending
  <2>3. QED  BY <1>3, <2>1, <2>2
<1>8. /\ v \in Versions /\ last \in Versions /\ Triple[v] # <<>> /\ Triple[last] # <<>>
  BY <1>1, <1>4, <1>5 DEF V
<1>9. ASSUME NEW k \in 1 .. 3, Triple[v][k] > Triple[last][k],
             \A j \in 1..(k-1) : Triple[v][j] = Triple[last][j]
      PROVE  FALSE
  <2>1. \A j \in 1 .. 3 : Triple[v][j] \in Int /\ Triple[last][j] \in Int
    BY <1>8, NumbersFirst
  <2>2. CASE k = 1
    <3>1. Triple[last][1] < Triple[v][1]
      BY <1>9, <2>1, <2>2
    <3>2. QED  BY <1>7, <1>8, <3>1, NumbersFirst
  <2>3. CASE k = 2
    <3>1. 1 \in 1..(k-1)
      BY <2>3
    <3>2. Triple[last][1] = Triple[v][1] /\ Triple[last][2] < Triple[v][2]
      BY <1>9, <2>1, <2>3, <3>1
    <3>3. QED  BY <1>7, <1>8, <3>2, NumbersFirst
  <2>4. CASE k = 3
    <3>1. 1 \in 1..(k-1) /\ 2 \in 1..(k-1)
      BY <2>4
    <3>2. /\ Triple[last][1] = Triple[v][1] /\ Triple[last][2] = Triple[v][2]
          /\ Triple[last][3] < Triple[v][3]
      BY <1>9, <2>1, <2>4, <3>1
    <3>3. QED  BY <1>7, <1>8, <3>2, NumbersFirst
  <2>5. QED  BY <2>2, <2>3, <2>4
<1>10. ~ \E k \in 1..3 : /\ Triple[v][k] > Triple[last][k]
                         /\ \A j \in 1..(k-1) : Triple[v][j] = Triple[last][j]
  BY <1>9
<1>11. QED  BY <1>10 DEF last, s

LEMMA IntervalCount ==
  ASSUME NEW n \in Nat  PROVE IsFiniteSet(1 .. n) /\ Cardinality(1 .. n) = n
<1>1. 1 \in Int /\ n \in Int
  OBVIOUS
<1>2. IsFiniteSet(1 .. n) /\ Cardinality(1 .. n) = IF 1 > n THEN 0 ELSE n - 1 + 1
  BY <1>1, FS_Interval
<1>3. QED  BY <1>1, <1>2

\* An entry for every named schema.
LEMMA OneEach ==
  ASSUME NEW files, NEW s \in Seq(EntrySet), Unlike(s),
         \A n \in Named(files) : n = [id |-> n.id, version |-> n.version],
         \A e \in ToSet(s) : [id |-> e.id, version |-> e.version] \in Named(files),
         \A n \in Named(files) : \E e \in ToSet(s) : SameName(e, n)
  PROVE  Len(s) = Cardinality(Named(files))
<1> DEFINE f == [i \in 1 .. Len(s) |-> [id |-> s[i].id, version |-> s[i].version]]
           B == Named(files)
<1>1. Len(s) \in Nat /\ ToSet(s) = {s[i] : i \in 1 .. Len(s)}
  BY RangeFacts
<1>2. f \in [1 .. Len(s) -> B]
  BY <1>1
<1>3. \A i, j \in 1 .. Len(s) : f[i] = f[j] => i = j
  <2>1. \A i, j \in 1 .. Len(s) : f[i] = f[j] => s[i].id = s[j].id /\ s[i].version = s[j].version
    OBVIOUS
  <2> HIDE DEF f
  <2>2. QED  BY <2>1 DEF Unlike
<1>4. ASSUME NEW n \in B  PROVE \E i \in 1 .. Len(s) : f[i] = n
  <2>1. PICK e \in ToSet(s) : SameName(e, n)
    OBVIOUS
  <2>2. PICK i \in 1 .. Len(s) : e = s[i]
    BY <1>1, <2>1
  <2>3. n = [id |-> n.id, version |-> n.version]
    OBVIOUS
  <2>4. f[i] = n
    BY <2>1, <2>2, <2>3 DEF SameName
  <2>5. QED  BY <2>4
<1> HIDE DEF f, B
<1>5. f \in Bijection(1 .. Len(s), B)
  BY <1>2, <1>3, <1>4 DEF Bijection, Injection, Surjection, IsInjective
<1>6. ExistsBijection(1 .. Len(s), B)
  BY <1>5 DEF ExistsBijection
<1>7. IsFiniteSet(1 .. Len(s)) /\ Cardinality(1 .. Len(s)) = Len(s)
  BY <1>1, IntervalCount
<1>8. QED  BY <1>6, <1>7, FS_Bijection DEF B

(* LatestIsLastListed: the list has every named schema once, and an id     *)
(* alone means the last of its versions there, for any files and versions. *)
THEOREM LatestListedLast == Spec => []LatestIsLastListed
<1>1. ASSUME Numbered(schemaFiles, SchemaFile)  PROVE LatestIsLastListed
  <2> DEFINE files == schemaFiles
             registry == buildRegistry(files)
             entries == registry.entries
             list == listHandler(entries)
             R == Listed(entries)
  <2>1. IsRegistry(registry, files)
    BY <1>1, RegistryFacts
  <2>2. Numbered(files, SchemaFile) /\ \A i \in 1 .. Len(files) : files[i].exports \in Seq(Exports)
    BY <1>1, FilesFacts
  <2>3. Named(files) = {s \in UNION {ToSet(files[i].exports) : i \in 1 .. Len(files)} : s.id # None}
    BY <2>2, NamedFacts
  <2> SUFFICES
        /\ Len(list) = Cardinality(Named(files))
        /\ {NameOf(e) : e \in ToSet(list)} = {NameOf(e) : e \in Named(files)}
        /\ \A i, j \in DOMAIN list :
             i < j /\ list[i].id = list[j].id => list[i].version # Unversioned
        /\ \A id \in Ids : \A e \in findSchema(entries, id, None) :
             LET versions == VersionSet(entries, id)
             IN IF versions = {} THEN e.version = Unversioned
                ELSE /\ e.version \in versions
                     /\ \A i, j \in DOMAIN list :
                          list[i] = e /\ list[j].id = id /\ j > i => list[j].version = Unversioned
                     /\ (\A v \in versions : Triple[v] # <<>>) =>
                          \A v \in versions : ~ \E i \in 1..3 :
                            /\ Triple[v][i] > Triple[e.version][i]
                            /\ \A j \in 1..(i-1) : Triple[v][j] = Triple[e.version][j]
    BY DEF LatestIsLastListed, Registry
  <2> HIDE DEF registry, files
  <2>4. entries \in Seq(EntrySet) /\ Unlike(entries)
    BY <2>1 DEF IsRegistry, Registers
  <2>5. \A e \in ToSet(entries) :
          e.id # None /\ \E i \in 1 .. Len(files) : \E s \in ToSet(files[i].exports) : e = EntryOf(files[i], s)
    BY <2>1 DEF IsRegistry
  <2>6. \A s \in Named(files) : \E e \in ToSet(entries) : SameName(e, s)
    BY <2>1, <2>3 DEF IsRegistry
  <2>7. \A s \in Named(files) : s = [id |-> s.id, version |-> s.version]
    BY <2>2, <2>3, ExportsFacts, RangeFacts
  <2>8. \A e \in ToSet(entries) : [id |-> e.id, version |-> e.version] \in Named(files)
    <3>1. ASSUME NEW e \in ToSet(entries)  PROVE [id |-> e.id, version |-> e.version] \in Named(files)
      <4>1. PICK i \in 1 .. Len(files) : \E s \in ToSet(files[i].exports) : e = EntryOf(files[i], s)
        BY <2>5
      <4>2. PICK s \in ToSet(files[i].exports) : e = EntryOf(files[i], s)
        BY <4>1
      <4>3. e.id = s.id /\ e.version = s.version /\ e.id # None
        BY <2>5, <4>2 DEF EntryOf
      <4>4. s \in Named(files)
        BY <2>3, <4>3
      <4>5. s = [id |-> e.id, version |-> e.version]
        BY <2>7, <4>3, <4>4
      <4>6. QED  BY <4>4, <4>5
    <3>2. QED  BY <3>1
  <2> HIDE DEF entries
  <2>9. \A e \in ToSet(entries) : e.id \in Ids
    <3>1. \A e \in ToSet(entries) : e \in EntrySet /\ e.id # None
      BY <2>4, <2>5, RangeFacts
    <3>2. \A e \in EntrySet : e.id \in Ids \cup {None}
      BY DEF EntrySet
    <3>3. QED  BY <3>1, <3>2
  <2>10. list \in Seq(EntrySet) /\ ToSet(list) = ToSet(entries) /\ InOrder(list, R)
    BY <2>4, <2>9, ListFacts
  <2> HIDE DEF list
  <2>11. /\ Len(list) \in Nat /\ DOMAIN list = 1 .. Len(list)
         /\ ToSet(list) = {list[i] : i \in 1 .. Len(list)}
    BY <2>10, RangeFacts
  <2>12. ASSUME NEW i \in 1 .. Len(list), NEW j \in 1 .. Len(list), i < j
         PROVE  /\ list[i] # list[j]
                /\ list[i].id = list[j].id =>
                     /\ list[i].version # Unversioned
                     /\ list[j].version # Unversioned =>
                          list[i].version # Last(Sorted(VersionsOf(entries, list[i].id)))
    BY <2>10, <2>12 DEF InOrder, Listed
  <2>13. ASSUME NEW i \in 1 .. Len(list), NEW j \in 1 .. Len(list), SameName(list[i], list[j])
         PROVE  i = j
    <3>1. list[i] \in ToSet(entries) /\ list[j] \in ToSet(entries)
      BY <2>10, <2>11
    <3>2. list[i] = list[j]
      <4>1. PICK k \in 1 .. Len(entries) : list[i] = entries[k]
        BY <2>4, <3>1, RangeFacts
      <4>2. PICK l \in 1 .. Len(entries) : list[j] = entries[l]
        BY <2>4, <3>1, RangeFacts
      <4>3. QED  BY <2>4, <2>13, <4>1, <4>2 DEF Unlike, SameName
    <3>3. ~(i < j) /\ ~(j < i)
      BY <2>12, <3>2
    <3>4. QED  BY <2>11, <3>3
  <2>14. Len(list) = Cardinality(Named(files))
    <3>1. Unlike(list)
      BY <2>13 DEF Unlike, SameName
    <3>2. QED  BY <2>6, <2>7, <2>8, <2>10, <3>1, OneEach
  <2>15. {NameOf(e) : e \in ToSet(list)} = {NameOf(e) : e \in Named(files)}
    <3>1. ASSUME NEW e \in ToSet(entries)  PROVE \E s \in Named(files) : NameOf(e) = NameOf(s)
      BY <2>8 DEF NameOf
    <3>2. ASSUME NEW s \in Named(files)  PROVE \E e \in ToSet(entries) : NameOf(e) = NameOf(s)
      BY <2>6 DEF NameOf, SameName
    <3>3. QED  BY <2>10, <3>1, <3>2
  <2>16. ASSUME NEW id \in Ids, NEW e \in findSchema(entries, id, None)
         PROVE  LET versions == VersionSet(entries, id)
                IN IF versions = {} THEN e.version = Unversioned
                   ELSE /\ e.version \in versions
                        /\ \A i, j \in DOMAIN list :
                             list[i] = e /\ list[j].id = id /\ j > i => list[j].version = Unversioned
                        /\ (\A v \in versions : Triple[v] # <<>>) =>
                             \A v \in versions : ~ \E i \in 1..3 :
                               /\ Triple[v][i] > Triple[e.version][i]
                               /\ \A j \in 1..(i-1) : Triple[v][j] = Triple[e.version][j]
    <3> DEFINE versions == VersionSet(entries, id)
               vs == VersionsOf(entries, id)
               last == Last(Sorted(vs))
    <3>1. CASE versions = {}
      <4>1. findSchema(entries, id, None) = Exactly(entries, id, Unversioned)
        BY <2>4, <3>1, LookupFacts
      <4>2. e.version = Unversioned
        BY <4>1 DEF Exactly
      <4>3. QED  BY <3>1, <4>2
    <3>2. CASE versions # {}
      <4>1. /\ findSchema(entries, id, None) = Exactly(entries, id, last)
            /\ last \in versions /\ last # Unversioned /\ vs \in Seq(Versions)
        BY <2>4, <3>2, LookupFacts
      <4>2. versions = ToSet(vs)
        BY DEF VersionSet
      <4> HIDE DEF versions
      <4>3. e.id = id /\ e.version = last
        BY <4>1 DEF Exactly
      <4>4. ASSUME NEW i \in 1 .. Len(list), NEW j \in 1 .. Len(list),
                   list[i] = e, list[j].id = id, j > i
            PROVE  list[j].version = Unversioned
        <5>1. i < j /\ list[i].id = list[j].id
          BY <4>3, <4>4
        <5>2. list[j].version # Unversioned =>
                list[i].version # Last(Sorted(VersionsOf(entries, list[i].id)))
          BY <2>12, <5>1
        <5>3. QED  BY <4>3, <4>4, <5>2
      <4>5. ASSUME \A v \in versions : Triple[v] # <<>>, NEW v \in versions
            PROVE  ~ \E i \in 1..3 : /\ Triple[v][i] > Triple[e.version][i]
                                     /\ \A j \in 1..(i-1) : Triple[v][j] = Triple[e.version][j]
        <5>1. ~ \E i \in 1..3 : /\ Triple[v][i] > Triple[last][i]
                                /\ \A j \in 1..(i-1) : Triple[v][j] = Triple[last][j]
          <6> HIDE DEF vs
          <6>1. QED  BY <4>1, <4>2, <4>5, LastIsHighest
        <5>2. QED  BY <4>3, <5>1, Zenon
      <4> HIDE DEF last, vs
      <4>6. e.version \in versions
        BY <4>1, <4>3
      <4>7. \A i, j \in DOMAIN list :
              list[i] = e /\ list[j].id = id /\ j > i => list[j].version = Unversioned
        BY <2>11, <4>4
      <4>8. QED  BY <3>2, <4>5, <4>6, <4>7, Zenon DEF versions
    <3>3. QED  BY <3>1, <3>2
  <2>17. \A i, j \in DOMAIN list : i < j /\ list[i].id = list[j].id => list[i].version # Unversioned
    BY <2>11, <2>12
  <2>18. QED  BY <2>14, <2>15, <2>16, <2>17, Zenon
<1>2. QED  BY <1>1, NumberedHolds, PTL

-----------------------------------------------------------------------------
(* Files in another order.                                                 *)

LEMMA OrderOnto ==
  ASSUME NEW n \in Nat, NEW p \in Orders(n), NEW j \in 1 .. n
  PROVE  \E i \in 1 .. n : p[i] = j
<1>1. p \in [1 .. n -> 1 .. n] /\ \A i, k \in 1 .. n : p[i] = p[k] => i = k
  BY DEF Orders
<1>2. p \in Injection(1 .. n, 1 .. n)
  BY <1>1 DEF Injection, IsInjective
<1>3. IsFiniteSet(1 .. n)
  BY IntervalCount
<1>4. p \in Surjection(1 .. n, 1 .. n)
  BY <1>2, <1>3, FS_Injection
<1>5. QED  BY <1>4 DEF Surjection

\* other is files in the order p.
Permuted(other, files, p) ==
  /\ Len(other) = Len(files) /\ DOMAIN other = 1 .. Len(files)
  /\ p \in [1 .. Len(files) -> 1 .. Len(files)]
  /\ \A i, k \in 1 .. Len(files) : p[i] = p[k] => i = k
  /\ \A j \in 1 .. Len(files) : \E i \in 1 .. Len(files) : p[i] = j
  /\ \A i \in 1 .. Len(files) : other[i] = files[p[i]]

LEMMA ReorderedFacts ==
  ASSUME NEW F, NEW files, Numbered(files, F), NEW other \in Reordered(files)
  PROVE  Numbered(other, F) /\ \E p : Permuted(other, files, p)
<1> DEFINE N == Len(files)
<1>1. /\ files \in Seq(F) /\ N \in Nat /\ DOMAIN files = 1 .. N /\ \A i \in 1 .. N : files[i] \in F
      /\ \A i \in 1 .. N : files[i].name \in Nat /\ files[i].name < N
      /\ \A i, j \in 1 .. N : files[i].name = files[j].name => i = j
  BY DEF Numbered
<1> HIDE DEF N
<1>2. PICK p \in Orders(N) : other = [i \in 1 .. N |-> files[p[i]]]
  BY <1>1 DEF Reordered, N
<1>3. p \in [1 .. N -> 1 .. N] /\ \A i, k \in 1 .. N : p[i] = p[k] => i = k
  BY <1>2 DEF Orders
<1>4. \A j \in 1 .. N : \E i \in 1 .. N : p[i] = j
  BY <1>1, OrderOnto
<1>5. other \in [1 .. N -> F] /\ \A i \in 1 .. N : other[i] = files[p[i]]
  BY <1>1, <1>2, <1>3
<1>6. other \in Seq(F) /\ Len(other) = N /\ DOMAIN other = 1 .. N
  BY <1>1, <1>5, TabulatedIsSeq
<1>7. Permuted(other, files, p)
  BY <1>3, <1>4, <1>5, <1>6 DEF Permuted, N
<1>8. Numbered(other, F)
  <2>1. ASSUME NEW i \in 1 .. N  PROVE other[i].name \in Nat /\ other[i].name < N
    BY <1>1, <1>3, <1>5
  <2>2. ASSUME NEW i \in 1 .. N, NEW j \in 1 .. N, other[i].name = other[j].name  PROVE i = j
    <3>1. p[i] \in 1 .. N /\ p[j] \in 1 .. N
      BY <1>3
    <3>2. files[p[i]].name = files[p[j]].name
      BY <1>5, <2>2
    <3>3. p[i] = p[j]
      BY <1>1, <3>1, <3>2
    <3>4. QED  BY <1>3, <3>3
  <2>3. QED  BY <1>6, <2>1, <2>2 DEF Numbered
<1>9. QED  BY <1>7, <1>8

-----------------------------------------------------------------------------
(* Migrations: what is not the first good file of its key is an issue.     *)
GoodKeys(files, n) == {KeyAt(files, i) : i \in {j \in 1 .. n : Good(files, j)}}

GoodEntries(files, n) == {EntryAt(files, i) : i \in {j \in 1 .. n : Good(files, j)}}

\* After the first n files.
Counted(files, n, done) ==
  /\ Indexed(files, n, done)
  /\ IsFiniteSet(GoodKeys(files, n))
  /\ Len(done.issues) \in Nat /\ Cardinality(GoodKeys(files, n)) \in Nat
  /\ Len(done.issues) + Cardinality(GoodKeys(files, n)) = n

LEMMA KeysStep ==
  ASSUME NEW files, NEW n \in Nat \ {0}, IsFiniteSet(GoodKeys(files, n - 1))
  PROVE  /\ IsFiniteSet(GoodKeys(files, n))
         /\ First(files, n) => Cardinality(GoodKeys(files, n)) = Cardinality(GoodKeys(files, n - 1)) + 1
         /\ ~First(files, n) => GoodKeys(files, n) = GoodKeys(files, n - 1)
<1>1. 1 .. n = (1 .. n - 1) \cup {n}
  OBVIOUS
<1>2. Good(files, n) => GoodKeys(files, n) = GoodKeys(files, n - 1) \cup {KeyAt(files, n)}
  BY <1>1 DEF GoodKeys
<1>3. ~Good(files, n) => GoodKeys(files, n) = GoodKeys(files, n - 1)
  BY <1>1 DEF GoodKeys
<1>4. First(files, n) <=> Good(files, n) /\ KeyAt(files, n) \notin GoodKeys(files, n - 1)
  BY DEF First, GoodKeys
<1> DEFINE K == GoodKeys(files, n - 1)
<1>5. \A x : /\ IsFiniteSet(K \cup {x})
             /\ Cardinality(K \cup {x}) = IF x \in K THEN Cardinality(K) ELSE Cardinality(K) + 1
  BY FS_AddElement
<1>6. Good(files, n) /\ KeyAt(files, n) \in K => GoodKeys(files, n) = K
  BY <1>2
<1> HIDE DEF K
<1>7. QED  BY <1>2, <1>3, <1>4, <1>5, <1>6 DEF K

LEMMA CountedStep ==
  ASSUME NEW files, NEW n \in Nat \ {0}, NEW done, Counted(files, n - 1, done)
  PROVE  Counted(files, n, IndexMigration(done, files[n]))
<1> DEFINE next == IndexMigration(done, files[n])
           before == Cardinality(GoodKeys(files, n - 1))
           is == done.issues
<1>1. /\ Indexed(files, n - 1, done) /\ IsFiniteSet(GoodKeys(files, n - 1))
      /\ Len(is) \in Nat /\ before \in Nat /\ Len(is) + before = n - 1
  BY DEF Counted
<1>2. Indexed(files, n, next)
  BY <1>1, IndexStep
<1>3. /\ IsFiniteSet(GoodKeys(files, n))
      /\ First(files, n) => Cardinality(GoodKeys(files, n)) = before + 1
      /\ ~First(files, n) => GoodKeys(files, n) = GoodKeys(files, n - 1)
  BY <1>1, KeysStep
<1>4. is \in Seq(IssuesAfter(files, n - 1))
  BY <1>1 DEF Indexed
<1>5. /\ First(files, n) => next.issues = is
      /\ ~First(files, n) => \E issue : next.issues = Append(is, issue)
  <2>1. /\ ~Good(files, n) => next = Said(done, Torn(files, n))
        /\ Good(files, n) /\ ~First(files, n) => next = Said(done, Twin(files, n))
        /\ First(files, n) => next = Put(done, EntryAt(files, n))
    BY <1>1, IndexCases
  <2>2. /\ \A issue : Said(done, issue).issues = Append(is, issue)
        /\ \A entry : Put(done, entry).issues = is
    BY DEF Said, Put
  <2> HIDE DEF next, is
  <2>3. QED  BY <2>1, <2>2
<1>6. \A issue : Len(Append(is, issue)) = Len(is) + 1
  BY <1>4
<1> HIDE DEF next, is, before
<1>7. CASE First(files, n)
  <2>1. Len(next.issues) = Len(is) /\ Cardinality(GoodKeys(files, n)) = before + 1
    BY <1>3, <1>5, <1>7
  <2>2. Len(is) + (before + 1) = n
    BY <1>1
  <2>3. before + 1 \in Nat
    BY <1>1
  <2>4. QED  BY <1>1, <1>2, <1>3, <2>1, <2>2, <2>3, Zenon DEF Counted, next
<1>8. CASE ~First(files, n)
  <2>1. Len(next.issues) = Len(is) + 1 /\ GoodKeys(files, n) = GoodKeys(files, n - 1)
    BY <1>3, <1>5, <1>6, <1>8
  <2>2. (Len(is) + 1) + before = n /\ Len(is) + 1 \in Nat
    BY <1>1
  <2>3. Cardinality(GoodKeys(files, n)) = before
    BY <2>1 DEF before
  <2>4. QED  BY <1>1, <1>2, <1>3, <2>1, <2>2, <2>3, Zenon DEF Counted, next
<1>9. QED  BY <1>7, <1>8

LEMMA MigrationsCounted ==
  ASSUME NEW files, Len(files) \in Nat, DOMAIN files = 1 .. Len(files)
  PROVE  Counted(files, Len(files), buildMigrationRegistry(files))
<1> DEFINE N == Len(files)
           T == {n \in 0 .. N : Counted(files, n, Done(files, n))}
<1>1. /\ buildMigrationRegistry(files) = Done(files, N) /\ Done(files, 0) = Start
      /\ \A n \in 1 .. N : Done(files, n) = IndexMigration(Done(files, n - 1), files[n])
  BY DoneFacts
<1>2. 0 \in T
  <2>1. EntriesAfter(files, 0) = {} /\ IssuesAfter(files, 0) = {} /\ GoodKeys(files, 0) = {}
    BY DEF EntriesAfter, IssuesAfter, GoodKeys
  <2>2. Start.entries = <<>> /\ Start.issues = <<>> /\ ToSet(<<>>) = {} /\ <<>> \in Seq({})
    BY DEF Start, ToSet
  <2>3. Indexed(files, 0, Start)
    BY <2>1, <2>2 DEF Indexed, Start
  <2>4. Len(Start.issues) = 0 /\ 0 + 0 = 0 /\ 0 \in Nat
    BY <2>2
  <2>5. IsFiniteSet({}) /\ Cardinality({}) = 0
    BY FS_EmptySet
  <2>6. Counted(files, 0, Start)
    BY <2>1, <2>3, <2>4, <2>5, Zenon DEF Counted
  <2>7. 0 \in 0 .. N
    OBVIOUS
  <2>8. QED  BY <1>1, <2>6, <2>7
<1>3. \A n \in 1 .. N : n - 1 \in T => n \in T
  <2>1. ASSUME NEW n \in 1 .. N, n - 1 \in T  PROVE n \in T
    <3>1. n \in Nat \ {0} /\ n \in 0 .. N
      OBVIOUS
    <3>2. Counted(files, n - 1, Done(files, n - 1))
      BY <2>1
    <3>3. Counted(files, n, IndexMigration(Done(files, n - 1), files[n]))
      BY <3>1, <3>2, CountedStep
    <3>4. QED  BY <1>1, <3>1, <3>3
  <2>2. QED  BY <2>1
<1>4. N \in T
  <2>1. N \in 0 .. N /\ N \in Nat
    OBVIOUS
  <2> HIDE DEF T, N
  <2>2. \A n \in 0 .. N : n \in T
    BY <1>2, <1>3, <2>1, UptoInduction
  <2>3. QED  BY <2>1, <2>2
<1>5. QED  BY <1>1, <1>4

\* The keys, and the entries of the good files, whatever their order.
LEMMA MigrationsReordered ==
  ASSUME NEW files, NEW other, NEW p, Permuted(other, files, p), Len(files) \in Nat
  PROVE  /\ GoodKeys(other, Len(files)) = GoodKeys(files, Len(files))
         /\ GoodEntries(other, Len(files)) = GoodEntries(files, Len(files))
<1> DEFINE N == Len(files)
<1>1. /\ \A i \in 1 .. N : p[i] \in 1 .. N /\ other[i] = files[p[i]]
      /\ \A j \in 1 .. N : \E i \in 1 .. N : p[i] = j
  BY DEF Permuted
<1> HIDE DEF N
<1>2. \A i \in 1 .. N : /\ Good(other, i) <=> Good(files, p[i])
                        /\ KeyAt(other, i) = KeyAt(files, p[i])
                        /\ EntryAt(other, i) = EntryAt(files, p[i])
  BY <1>1 DEF Good, KeyAt, EntryAt
<1>3. GoodKeys(other, N) = GoodKeys(files, N)
  <2>1. \A i \in 1 .. N : Good(other, i) => KeyAt(other, i) \in GoodKeys(files, N)
    BY <1>1, <1>2 DEF GoodKeys
  <2>2. ASSUME NEW j \in 1 .. N, Good(files, j)  PROVE KeyAt(files, j) \in GoodKeys(other, N)
    <3>1. PICK i \in 1 .. N : p[i] = j
      BY <1>1
    <3>2. QED  BY <1>2, <2>2, <3>1 DEF GoodKeys
  <2>3. GoodKeys(other, N) \subseteq GoodKeys(files, N)
    BY <2>1 DEF GoodKeys
  <2>4. GoodKeys(files, N) \subseteq GoodKeys(other, N)
    BY <2>2 DEF GoodKeys
  <2>5. QED  BY <2>3, <2>4
<1>4. GoodEntries(other, N) = GoodEntries(files, N)
  <2> DEFINE A == GoodEntries(other, N)
             B == GoodEntries(files, N)
  <2>1. \A i \in 1 .. N : Good(other, i) => EntryAt(other, i) \in B
    BY <1>1, <1>2 DEF GoodEntries
  <2>2. ASSUME NEW j \in 1 .. N, Good(files, j)  PROVE EntryAt(files, j) \in A
    <3>1. PICK i \in 1 .. N : p[i] = j
      BY <1>1
    <3>2. QED  BY <1>2, <2>2, <3>1 DEF GoodEntries
  <2>3. A \subseteq B /\ B \subseteq A
    BY <2>1, <2>2 DEF GoodEntries
  <2>4. QED  BY <2>3
<1>5. QED  BY <1>3, <1>4 DEF N

\* The first half of RenamingIsImmaterial.
SameMigrations(other, migrations) ==
  /\ Len(other.issues) = Len(migrations.issues)
  /\ migrations.issues = <<>> =>
       listMigrationsHandler(other.entries) = listMigrationsHandler(migrations.entries)

LEMMA MigrationsRenamed ==
  ASSUME NEW files, Numbered(files, MigrationFile), NEW other \in Reordered(files)
  PROVE  SameMigrations(buildMigrationRegistry(other), buildMigrationRegistry(files))
<1> DEFINE N == Len(files)
           r == buildMigrationRegistry(files)
           o == buildMigrationRegistry(other)
<1>1. Numbered(other, MigrationFile) /\ \E p : Permuted(other, files, p)
  BY ReorderedFacts
<1>2. PICK p : Permuted(other, files, p)
  BY <1>1
<1>3. N \in Nat /\ DOMAIN files = 1 .. N
  BY DEF Numbered
<1>4. Len(other) = N /\ DOMAIN other = 1 .. N
  BY <1>2 DEF Permuted
<1>5. Counted(files, N, r)
  BY <1>3, MigrationsCounted
<1>6. Counted(other, N, o)
  <2>1. Counted(other, Len(other), o)
    BY <1>3, <1>4, MigrationsCounted
  <2>2. QED  BY <1>4, <2>1
<1>7. /\ GoodKeys(other, N) = GoodKeys(files, N)
      /\ GoodEntries(other, N) = GoodEntries(files, N)
  BY <1>2, <1>3, MigrationsReordered
<1> HIDE DEF N, r, o
<1>8. Len(o.issues) = Len(r.issues)
  BY <1>3, <1>5, <1>6, <1>7 DEF Counted
<1>9. ASSUME NEW fs, NEW d, Counted(fs, N, d), Len(d.issues) = 0
      PROVE  ToSet(d.entries) = GoodEntries(fs, N)
  <2>1. /\ ToSet(d.entries) = EntriesAfter(fs, N) /\ ToSet(d.issues) = IssuesAfter(fs, N)
        /\ d.issues \in Seq(IssuesAfter(fs, N))
    BY <1>9 DEF Counted, Indexed
  <2>2. IssuesAfter(fs, N) = {}
    BY <1>9, <2>1 DEF ToSet
  <2>3. \A i \in 1 .. N : Good(fs, i) => First(fs, i)
    BY <2>2 DEF IssuesAfter
  <2>4. {j \in 1 .. N : First(fs, j)} = {j \in 1 .. N : Good(fs, j)}
    BY <2>3 DEF First
  <2>5. QED  BY <2>1, <2>4 DEF EntriesAfter, GoodEntries
<1>10. ASSUME r.issues = <<>>
       PROVE  listMigrationsHandler(o.entries) = listMigrationsHandler(r.entries)
  <2>1. Len(r.issues) = 0 /\ Len(o.issues) = 0
    BY <1>8, <1>10
  <2>2. ToSet(o.entries) = ToSet(r.entries)
    BY <1>5, <1>6, <1>7, <1>9, <2>1
  <2>3. QED  BY <2>2 DEF listMigrationsHandler
<1>11. QED  BY <1>8, <1>10 DEF SameMigrations, r, o

-----------------------------------------------------------------------------
(* Where the elements of sequences of sequences come to be when they are   *)
(* flattened: at one place each.                                           *)
Spots(seqs, n) == {x \in (1 .. n) \X Nat : x[2] \in 1 .. Len(seqs[x[1]])}

Placed(b, s, seqs, n) ==
  /\ b \in [Spots(seqs, n) -> 1 .. Len(s)]
  /\ \A x, y \in Spots(seqs, n) : b[x] = b[y] => x = y
  /\ \A i \in 1 .. Len(s) : \E x \in Spots(seqs, n) : b[x] = i
  /\ \A x \in Spots(seqs, n) : s[b[x]] = seqs[x[1]][x[2]]

LEMMA PlacedMore ==
  ASSUME NEW S, NEW seqs, NEW n \in Nat \ {0}, NEW s \in Seq(S), seqs[n] \in Seq(S), NEW b,
         Placed(b, s, seqs, n - 1)
  PROVE  \E c : Placed(c, s \o seqs[n], seqs, n)
<1> DEFINE t == seqs[n]
           u == s \o t
           Old == Spots(seqs, n - 1)
           All == Spots(seqs, n)
           c == [x \in All |-> IF x \in Old THEN b[x] ELSE Len(s) + x[2]]
<1>1. /\ u \in Seq(S) /\ Len(u) = Len(s) + Len(t) /\ Len(s) \in Nat /\ Len(t) \in Nat
      /\ \A i \in 1 .. Len(s) + Len(t) :
           \/ i \in 1 .. Len(s) /\ u[i] = s[i]
           \/ i - Len(s) \in 1 .. Len(t) /\ i > Len(s) /\ u[i] = t[i - Len(s)]
  BY ConcatFacts
<1>2. /\ b \in [Old -> 1 .. Len(s)]
      /\ \A x, y \in Old : b[x] = b[y] => x = y
      /\ \A i \in 1 .. Len(s) : \E x \in Old : b[x] = i
      /\ \A x \in Old : s[b[x]] = seqs[x[1]][x[2]]
  BY DEF Placed
<1>3. \A x : x \in All <=> x \in Old \/ (\E a \in 1 .. Len(t) : x = <<n, a>>)
  <2>1. 1 .. n = (1 .. n - 1) \cup {n}
    OBVIOUS
  <2>2. ASSUME NEW x \in All  PROVE x \in Old \/ (\E a \in 1 .. Len(t) : x = <<n, a>>)
    <3>1. /\ x \in (1 .. n) \X Nat /\ x[2] \in 1 .. Len(seqs[x[1]])
          /\ x = <<x[1], x[2]>> /\ x[1] \in 1 .. n /\ x[2] \in Nat
      BY DEF Spots
    <3>2. CASE x[1] = n
      BY <3>1, <3>2
    <3>3. CASE x[1] \in 1 .. n - 1
      <4>1. x \in (1 .. n - 1) \X Nat
        BY <3>1, <3>3
      <4>2. QED  BY <3>1, <4>1 DEF Spots
    <3>4. QED  BY <2>1, <3>1, <3>2, <3>3
  <2>3. ASSUME NEW x \in Old  PROVE x \in All
    <3>1. x \in (1 .. n - 1) \X Nat /\ x[2] \in 1 .. Len(seqs[x[1]])
      BY DEF Spots
    <3>2. x \in (1 .. n) \X Nat
      BY <3>1, <2>1
    <3>3. QED  BY <3>1, <3>2 DEF Spots
  <2>4. ASSUME NEW a \in 1 .. Len(t)  PROVE <<n, a>> \in All
    BY DEF Spots
  <2> HIDE DEF All, Old
  <2>5. QED  BY <2>2, <2>3, <2>4
<1>4. \A a \in 1 .. Len(t) : <<n, a>> \notin Old
  BY DEF Spots
<1> HIDE DEF u, Old, All
<1>5. \A x \in Old : c[x] = b[x] /\ c[x] \in 1 .. Len(s) /\ c[x] \in 1 .. Len(u)
  <2>1. \A x \in Old : c[x] = b[x] /\ b[x] \in 1 .. Len(s)
    BY <1>2, <1>3
  <2> HIDE DEF c
  <2>2. QED  BY <1>1, <2>1
<1>6. \A a \in 1 .. Len(t) : c[<<n, a>>] = Len(s) + a /\ c[<<n, a>>] \in 1 .. Len(u)
  <2>1. \A a \in 1 .. Len(t) : c[<<n, a>>] = Len(s) + a
    BY <1>3, <1>4
  <2> HIDE DEF c
  <2>2. QED  BY <1>1, <2>1
<1>7. c \in [All -> 1 .. Len(u)]
  <2>1. \A x \in All : c[x] \in 1 .. Len(u)
    <3> HIDE DEF c
    <3>1. QED  BY <1>3, <1>5, <1>6
  <2>2. QED  BY <2>1
<1> HIDE DEF c
<1>8. ASSUME NEW x \in All, NEW y \in All, c[x] = c[y]  PROVE x = y
  <2>1. CASE x \in Old /\ y \in Old
    BY <1>2, <1>5, <1>8, <2>1
  <2>2. CASE x \in Old /\ ~(y \in Old)
    <3>1. PICK a \in 1 .. Len(t) : y = <<n, a>>
      BY <1>3, <2>2
    <3>2. c[x] \in 1 .. Len(s) /\ c[y] = Len(s) + a
      BY <1>5, <1>6, <2>2, <3>1
    <3>3. QED  BY <1>1, <1>8, <3>2
  <2>3. CASE ~(x \in Old) /\ y \in Old
    <3>1. PICK a \in 1 .. Len(t) : x = <<n, a>>
      BY <1>3, <2>3
    <3>2. c[y] \in 1 .. Len(s) /\ c[x] = Len(s) + a
      BY <1>5, <1>6, <2>3, <3>1
    <3>3. QED  BY <1>1, <1>8, <3>2
  <2>4. CASE ~(x \in Old) /\ ~(y \in Old)
    <3>1. PICK a \in 1 .. Len(t) : x = <<n, a>>
      BY <1>3, <2>4
    <3>2. PICK d \in 1 .. Len(t) : y = <<n, d>>
      BY <1>3, <2>4
    <3>3. Len(s) + a = Len(s) + d
      BY <1>6, <1>8, <3>1, <3>2
    <3>4. QED  BY <1>1, <3>1, <3>2, <3>3
  <2>5. QED  BY <2>1, <2>2, <2>3, <2>4
<1>9. ASSUME NEW i \in 1 .. Len(u)  PROVE \E x \in All : c[x] = i
  <2>1. CASE i \in 1 .. Len(s)
    BY <1>2, <1>3, <1>5, <2>1
  <2>2. CASE i - Len(s) \in 1 .. Len(t)
    <3>1. c[<<n, i - Len(s)>>] = Len(s) + (i - Len(s)) /\ <<n, i - Len(s)>> \in All
      BY <1>3, <1>6, <2>2
    <3>2. Len(s) + (i - Len(s)) = i
      BY <1>1
    <3>3. QED  BY <3>1, <3>2
  <2>3. QED  BY <1>1, <2>1, <2>2
<1>10. ASSUME NEW x \in All  PROVE u[c[x]] = seqs[x[1]][x[2]]
  <2>1. CASE x \in Old
    <3>1. u[c[x]] = s[c[x]]
      BY <1>1, <1>5, <2>1
    <3>2. QED  BY <1>2, <1>5, <2>1, <3>1
  <2>2. CASE ~(x \in Old)
    <3>1. PICK a \in 1 .. Len(t) : x = <<n, a>>
      BY <1>3, <2>2
    <3>2. c[x] = Len(s) + a
      BY <1>6, <3>1
    <3>3. Len(s) + a \in 1 .. Len(s) + Len(t) /\ ~(Len(s) + a \in 1 .. Len(s)) /\ (Len(s) + a) - Len(s) = a
      BY <1>1
    <3>4. u[Len(s) + a] = t[a]
      BY <1>1, <3>3
    <3>5. QED  BY <3>1, <3>2, <3>4
  <2>3. QED  BY <2>1, <2>2
<1>11. Placed(c, u, seqs, n)
  BY <1>7, <1>8, <1>9, <1>10 DEF Placed, All
<1>12. QED  BY <1>11 DEF u

LEMMA PlacesExist ==
  ASSUME NEW S, NEW seqs \in Seq(Seq(S))
  PROVE  \E b : Placed(b, FlattenSeq(seqs), seqs, Len(seqs))
<1> DEFINE N == Len(seqs)
           flat == FlattenSeq(seqs)
<1>1. PICK k : Concats(k, seqs) /\ flat = k[N]
  BY FlattenIsLoop
<1>2. k[0] = <<>> /\ \A n \in 1 .. N : k[n] = k[n - 1] \o seqs[n]
  BY <1>1 DEF Concats
<1>3. N \in Nat /\ \A n \in 1 .. N : seqs[n] \in Seq(S)
  OBVIOUS
<1> DEFINE T == {n \in 0 .. N : k[n] \in Seq(S) /\ \E b : Placed(b, k[n], seqs, n)}
<1>4. 0 \in T
  <2> DEFINE b == [x \in {} |-> 0]
  <2>1. Spots(seqs, 0) = {} /\ 0 \in 0 .. N /\ <<>> \in Seq(S) /\ 1 .. Len(<<>>) = {}
    BY <1>3 DEF Spots
  <2>2. b \in [{} -> {}]
    OBVIOUS
  <2> HIDE DEF b
  <2>3. Placed(b, <<>>, seqs, 0)
    BY <2>1, <2>2 DEF Placed
  <2>4. QED  BY <1>2, <2>1, <2>3
<1>5. \A n \in 1 .. N : n - 1 \in T => n \in T
  <2>1. ASSUME NEW n \in 1 .. N, n - 1 \in T  PROVE n \in T
    <3>1. n \in Nat \ {0} /\ n \in 0 .. N
      BY <1>3
    <3>2. k[n - 1] \in Seq(S) /\ seqs[n] \in Seq(S)
      BY <1>3, <2>1
    <3>3. PICK b : Placed(b, k[n - 1], seqs, n - 1)
      BY <2>1
    <3>4. \E c : Placed(c, k[n - 1] \o seqs[n], seqs, n)
      BY <3>1, <3>2, <3>3, PlacedMore
    <3>5. k[n] = k[n - 1] \o seqs[n]
      BY <1>2, Zenon
    <3>6. k[n - 1] \o seqs[n] \in Seq(S)
      BY <3>2, ConcatFacts
    <3>7. QED  BY <3>1, <3>4, <3>5, <3>6
  <2>2. QED  BY <2>1
<1>6. N \in T
  <2>1. N \in 0 .. N
    BY <1>3
  <2> HIDE DEF T, N
  <2>2. \A n \in 0 .. N : n \in T
    BY <1>3, <1>4, <1>5, UptoInduction
  <2>3. QED  BY <2>1, <2>2
<1>7. PICK b : Placed(b, k[N], seqs, N)
  BY <1>6
<1>8. QED  BY <1>1, <1>7

\* The elements with an id.
NamedSpots(seqs) == {x \in Spots(seqs, Len(seqs)) : seqs[x[1]][x[2]].id # None}

LEMMA NamedSpotsCount ==
  ASSUME NEW S, NEW seqs \in Seq(Seq(S))
  PROVE  LET flat == FlattenSeq(seqs)
         IN /\ IsFiniteSet(NamedSpots(seqs))
            /\ Cardinality(NamedSpots(seqs)) = Cardinality(NamedUpto(flat, Len(flat)))
<1> DEFINE flat == FlattenSeq(seqs)
           All == Spots(seqs, Len(seqs))
           A == NamedSpots(seqs)
           B == NamedUpto(flat, Len(flat))
<1>1. PICK b : Placed(b, flat, seqs, Len(seqs))
  BY PlacesExist
<1>2. flat \in Seq(S)
  BY FlattenFacts DEF Flattened
<1> HIDE DEF flat
<1>3. /\ b \in [All -> 1 .. Len(flat)]
      /\ \A x, y \in All : b[x] = b[y] => x = y
      /\ \A i \in 1 .. Len(flat) : \E x \in All : b[x] = i
      /\ \A x \in All : flat[b[x]] = seqs[x[1]][x[2]]
  BY <1>1 DEF Placed
<1>4. A = {x \in All : seqs[x[1]][x[2]].id # None} /\ B = {i \in 1 .. Len(flat) : flat[i].id # None}
  BY DEF NamedSpots, NamedUpto
<1> DEFINE c == [x \in A |-> b[x]]
<1> HIDE DEF All, A, B
<1>5. c \in [A -> B] /\ \A x \in A : c[x] = b[x]
  BY <1>3, <1>4
<1> HIDE DEF c
<1>6. \A x, y \in A : c[x] = c[y] => x = y
  BY <1>3, <1>4, <1>5
<1>7. ASSUME NEW i \in B  PROVE \E x \in A : c[x] = i
  <2>1. i \in 1 .. Len(flat) /\ flat[i].id # None
    BY <1>4
  <2>2. PICK x \in All : b[x] = i
    BY <1>3, <2>1
  <2>3. x \in A
    BY <1>3, <1>4, <2>1, <2>2
  <2>4. QED  BY <1>5, <2>2, <2>3
<1>8. c \in Bijection(A, B)
  BY <1>5, <1>6, <1>7 DEF Bijection, Injection, Surjection, IsInjective
<1>9. ExistsBijection(A, B)
  BY <1>8 DEF ExistsBijection
<1>10. ExistsBijection(B, A)
  BY <1>9, Fun_ExistsBijSymmetric
<1>11. IsFiniteSet(B)
  <2>1. Len(flat) \in Nat /\ B \in SUBSET (1 .. Len(flat))
    BY <1>2, <1>4
  <2>2. IsFiniteSet(1 .. Len(flat))
    BY <2>1, IntervalCount
  <2>3. QED  BY <2>1, <2>2, FS_Subset
<1>12. IsFiniteSet(A) /\ Cardinality(A) = Cardinality(B)
  BY <1>10, <1>11, FS_Bijection
<1>13. QED  BY <1>12 DEF A, B, flat

LEMMA NamedSpotsReordered ==
  ASSUME NEW seqs, NEW other, NEW p, Permuted(other, seqs, p), IsFiniteSet(NamedSpots(other))
  PROVE  Cardinality(NamedSpots(other)) = Cardinality(NamedSpots(seqs))
<1> DEFINE N == Len(seqs)
           A == NamedSpots(other)
           B == NamedSpots(seqs)
           c == [x \in A |-> <<p[x[1]], x[2]>>]
<1>1. /\ Len(other) = N /\ p \in [1 .. N -> 1 .. N]
      /\ \A i, k \in 1 .. N : p[i] = p[k] => i = k
      /\ \A j \in 1 .. N : \E i \in 1 .. N : p[i] = j
      /\ \A i \in 1 .. N : other[i] = seqs[p[i]]
  BY DEF Permuted
<1>2. \A fs : Len(fs) = N =>
        \A x : x \in NamedSpots(fs) <=>
          /\ x \in (1 .. N) \X Nat /\ x[2] \in 1 .. Len(fs[x[1]]) /\ fs[x[1]][x[2]].id # None
  BY DEF NamedSpots, Spots
<1> HIDE DEF N, A, B
<1>3. \A x \in A : /\ x[1] \in 1 .. N /\ x[2] \in Nat /\ x = <<x[1], x[2]>>
                   /\ x[2] \in 1 .. Len(other[x[1]]) /\ other[x[1]][x[2]].id # None
  BY <1>1, <1>2 DEF A
<1>4. \A i \in 1 .. N, a \in Nat : a \in 1 .. Len(seqs[i]) /\ seqs[i][a].id # None => <<i, a>> \in B
  BY <1>2 DEF B, N
<1>5. \A i \in 1 .. N, a \in Nat : a \in 1 .. Len(other[i]) /\ other[i][a].id # None => <<i, a>> \in A
  BY <1>1, <1>2 DEF A
<1>6. \A x \in B : /\ x[1] \in 1 .. N /\ x[2] \in Nat /\ x = <<x[1], x[2]>>
                   /\ x[2] \in 1 .. Len(seqs[x[1]]) /\ seqs[x[1]][x[2]].id # None
  BY <1>2 DEF B, N
<1>7. c \in [A -> B] /\ \A x \in A : c[x] = <<p[x[1]], x[2]>>
  <2>1. ASSUME NEW x \in A  PROVE <<p[x[1]], x[2]>> \in B
    <3>1. x[1] \in 1 .. N /\ x[2] \in Nat /\ x[2] \in 1 .. Len(other[x[1]]) /\ other[x[1]][x[2]].id # None
      BY <1>3
    <3>2. p[x[1]] \in 1 .. N /\ other[x[1]] = seqs[p[x[1]]]
      BY <1>1, <3>1
    <3>3. x[2] \in 1 .. Len(seqs[p[x[1]]]) /\ seqs[p[x[1]]][x[2]].id # None
      BY <3>1, <3>2
    <3>4. QED  BY <1>4, <3>1, <3>2, <3>3
  <2>2. QED  BY <2>1
<1> HIDE DEF c
<1>8. ASSUME NEW x \in A, NEW y \in A, c[x] = c[y]  PROVE x = y
  <2>1. p[x[1]] = p[y[1]] /\ x[2] = y[2]
    BY <1>7, <1>8
  <2>2. x[1] = y[1]
    BY <1>1, <1>3, <2>1
  <2>3. QED  BY <1>3, <2>1, <2>2
<1>9. ASSUME NEW y \in B  PROVE \E x \in A : c[x] = y
  <2>1. PICK i \in 1 .. N : p[i] = y[1]
    BY <1>1, <1>6
  <2>2. <<i, y[2]>> \in A
    <3>1. y[2] \in Nat /\ y[2] \in 1 .. Len(seqs[y[1]]) /\ seqs[y[1]][y[2]].id # None
      BY <1>6
    <3>2. other[i] = seqs[y[1]]
      BY <1>1, <2>1
    <3>3. y[2] \in 1 .. Len(other[i]) /\ other[i][y[2]].id # None
      BY <3>1, <3>2
    <3>4. QED  BY <1>5, <3>1, <3>3
  <2>3. c[<<i, y[2]>>] = <<p[i], y[2]>>
    BY <1>7, <2>2
  <2>4. QED  BY <1>6, <2>1, <2>2, <2>3
<1>10. c \in Bijection(A, B)
  BY <1>7, <1>8, <1>9 DEF Bijection, Injection, Surjection, IsInjective
<1>11. ExistsBijection(A, B)
  BY <1>10 DEF ExistsBijection
<1>12. QED  BY <1>11, FS_Bijection DEF A, B

-----------------------------------------------------------------------------
(* Schemas in another order: the same names, the same elements, and where  *)
(* nothing is a duplicate the same entries.                                *)

LEMMA SchemasCounted ==
  ASSUME NEW files, Numbered(files, SchemaFile)
  PROVE  LET r == buildRegistry(files)
         IN /\ Len(r.entries) \in Nat /\ Len(r.issues) \in Nat
            /\ IsFiniteSet(NamedSpots(ChunksOf(files)))
            /\ Len(r.entries) + Len(r.issues) = Cardinality(NamedSpots(ChunksOf(files)))
<1> DEFINE chunks == ChunksOf(files)
           flat == FlattenSeq(chunks)
           r == buildRegistry(files)
<1>1. chunks \in Seq(Seq(EntrySet)) /\ flat \in Seq(EntrySet)
  BY ChunksFacts
<1>2. r = FoldLeft(IndexSchema, Start, flat)
  BY DEF buildRegistry, Start, ChunksOf
<1>3. /\ IsFiniteSet(NamedSpots(chunks))
      /\ Cardinality(NamedSpots(chunks)) = Cardinality(NamedUpto(flat, Len(flat)))
  BY <1>1, NamedSpotsCount
<1> HIDE DEF chunks, flat, r
<1>4. Registered(r, flat, Len(flat))
  BY <1>1, <1>2, SchemasRegistered
<1>5. /\ r \in Registers
      /\ Len(r.entries) + Len(r.issues) = Cardinality(NamedUpto(flat, Len(flat)))
  BY <1>4 DEF Registered
<1>6. Len(r.entries) \in Nat /\ Len(r.issues) \in Nat
  BY <1>5 DEF Registers
<1>7. QED  BY <1>3, <1>5, <1>6, Zenon DEF chunks, r

LEMMA EntriesCounted ==
  ASSUME NEW files, Numbered(files, SchemaFile)
  PROVE  Len(buildRegistry(files).entries) = Cardinality(Named(files))
<1> DEFINE es == buildRegistry(files).entries
<1>1. IsRegistry(buildRegistry(files), files)
  BY RegistryFacts
<1>2. Named(files) = {s \in UNION {ToSet(files[i].exports) : i \in 1 .. Len(files)} : s.id # None}
  BY NamedFacts
<1>3. \A i \in 1 .. Len(files) : files[i].exports \in Seq(Exports)
  BY FilesFacts
<1>4. /\ es \in Seq(EntrySet) /\ Unlike(es)
      /\ \A e \in ToSet(es) :
           e.id # None /\ \E i \in 1 .. Len(files) : \E s \in ToSet(files[i].exports) : e = EntryOf(files[i], s)
      /\ \A s \in Named(files) : \E e \in ToSet(es) : SameName(e, s)
  BY <1>1, <1>2 DEF IsRegistry, Registers
<1>5. \A s \in Named(files) : s = [id |-> s.id, version |-> s.version]
  BY <1>2, <1>3, ExportsFacts, RangeFacts
<1> HIDE DEF es
<1>6. ASSUME NEW e \in ToSet(es)  PROVE [id |-> e.id, version |-> e.version] \in Named(files)
  <2>1. PICK i \in 1 .. Len(files) : \E s \in ToSet(files[i].exports) : e = EntryOf(files[i], s)
    BY <1>4
  <2>2. PICK s \in ToSet(files[i].exports) : e = EntryOf(files[i], s)
    BY <2>1
  <2>3. e.id = s.id /\ e.version = s.version /\ e.id # None
    BY <1>4, <2>2 DEF EntryOf
  <2>4. s \in Named(files)
    BY <1>2, <2>3
  <2>5. s = [id |-> e.id, version |-> e.version]
    BY <1>5, <2>3, <2>4
  <2>6. QED  BY <2>4, <2>5
<1>7. Len(es) = Cardinality(Named(files))
  BY <1>4, <1>5, <1>6, OneEach
<1>8. QED  BY <1>7 DEF es

LEMMA SchemasReordered ==
  ASSUME NEW files, Numbered(files, SchemaFile), NEW other, Numbered(other, SchemaFile),
         NEW p, Permuted(other, files, p)
  PROVE  LET r == buildRegistry(files)
             o == buildRegistry(other)
         IN /\ Len(o.issues) = Len(r.issues)
            /\ r.issues = <<>> => ToSet(o.entries) = ToSet(r.entries)
<1> DEFINE N == Len(files)
           r == buildRegistry(files)
           o == buildRegistry(other)
<1>1. /\ Len(other) = N /\ \A i \in 1 .. N : p[i] \in 1 .. N /\ other[i] = files[p[i]]
      /\ \A j \in 1 .. N : \E i \in 1 .. N : p[i] = j
  BY DEF Permuted
<1>2. Named(other) = Named(files)
  <2>1. /\ Named(files) = {s \in UNION {ToSet(files[i].exports) : i \in 1 .. N} : s.id # None}
        /\ Named(other) = {s \in UNION {ToSet(other[i].exports) : i \in 1 .. N} : s.id # None}
    BY <1>1, NamedFacts
  <2> HIDE DEF N
  <2>2. UNION {ToSet(other[i].exports) : i \in 1 .. N} = UNION {ToSet(files[i].exports) : i \in 1 .. N}
    <3> DEFINE A == UNION {ToSet(other[i].exports) : i \in 1 .. N}
               B == UNION {ToSet(files[i].exports) : i \in 1 .. N}
    <3>1. ASSUME NEW s \in A  PROVE s \in B
      <4>1. PICK i \in 1 .. N : s \in ToSet(other[i].exports)
        OBVIOUS
      <4>2. other[i] = files[p[i]] /\ p[i] \in 1 .. N
        BY <1>1
      <4>3. s \in ToSet(files[p[i]].exports)
        BY <4>1, <4>2
      <4>4. QED  BY <4>2, <4>3
    <3>2. ASSUME NEW s \in B  PROVE s \in A
      <4>1. PICK j \in 1 .. N : s \in ToSet(files[j].exports)
        OBVIOUS
      <4>2. PICK i \in 1 .. N : p[i] = j
        BY <1>1
      <4>3. other[i] = files[j]
        BY <1>1, <4>2
      <4>4. s \in ToSet(other[i].exports)
        BY <4>1, <4>3
      <4>5. QED  BY <4>4
    <3>3. QED  BY <3>1, <3>2
  <2>3. QED  BY <2>1, <2>2
<1>3. Permuted(ChunksOf(other), ChunksOf(files), p)
  <2>1. /\ Len(ChunksOf(files)) = N /\ Len(ChunksOf(other)) = N
        /\ ChunksOf(other) \in Seq(Seq(EntrySet))
        /\ \A i \in 1 .. N : ChunksOf(files)[i] = EntriesOf(files[i])
        /\ \A i \in 1 .. N : ChunksOf(other)[i] = EntriesOf(other[i])
    BY <1>1, ChunksFacts
  <2>2. DOMAIN ChunksOf(other) = 1 .. N
    BY <2>1
  <2>3. \A i \in 1 .. N : ChunksOf(other)[i] = ChunksOf(files)[p[i]]
    BY <1>1, <2>1
  <2>4. QED  BY <2>1, <2>2, <2>3 DEF Permuted
<1>4. Cardinality(NamedSpots(ChunksOf(other))) = Cardinality(NamedSpots(ChunksOf(files)))
  <2>1. IsFiniteSet(NamedSpots(ChunksOf(other)))
    BY SchemasCounted
  <2>2. QED  BY <1>3, <2>1, NamedSpotsReordered
<1>5. /\ Len(r.entries) \in Nat /\ Len(r.issues) \in Nat
      /\ Len(r.entries) + Len(r.issues) = Cardinality(NamedSpots(ChunksOf(files)))
      /\ Len(o.entries) \in Nat /\ Len(o.issues) \in Nat
      /\ Len(o.entries) + Len(o.issues) = Cardinality(NamedSpots(ChunksOf(other)))
  BY SchemasCounted
<1>6. Len(r.entries) = Cardinality(Named(files)) /\ Len(o.entries) = Cardinality(Named(other))
  BY EntriesCounted
<1>7. IsRegistry(r, files) /\ IsRegistry(o, other)
  BY RegistryFacts
<1> HIDE DEF N, r, o
<1>8. Len(o.issues) = Len(r.issues)
  <2>1. Len(o.entries) = Len(r.entries) /\ Len(o.entries) + Len(o.issues) = Len(r.entries) + Len(r.issues)
    BY <1>2, <1>4, <1>5, <1>6
  <2>2. \A a, b, c \in Nat : a + b = a + c => b = c
    OBVIOUS
  <2>3. QED  BY <1>5, <2>1, <2>2, Zenon
<1>9. ASSUME NEW fs, NEW q, IsRegistry(q, fs), Len(q.issues) = 0
      PROVE  ToSet(q.entries) =
               {e \in UNION {EntriesIn(fs[i]) : i \in 1 .. Len(fs)} : e.id # None}
  <2>1. q.issues = <<>>
    BY <1>9 DEF IsRegistry, Registers
  <2>2. \A e \in ToSet(q.entries) :
          e.id # None /\ \E i \in 1 .. Len(fs) : \E s \in ToSet(fs[i].exports) : e = EntryOf(fs[i], s)
    BY <1>9 DEF IsRegistry
  <2>3. \A i \in 1 .. Len(fs) : \A s \in ToSet(fs[i].exports) :
          s.id # None => EntryOf(fs[i], s) \in ToSet(q.entries)
    BY <1>9, <2>1 DEF IsRegistry
  <2>4. \A f, s : EntryOf(f, s).id = s.id
    BY DEF EntryOf
  <2>5. \A i \in 1 .. Len(fs) : \A e \in EntriesIn(fs[i]) : e.id # None => e \in ToSet(q.entries)
    BY <2>3, <2>4 DEF EntriesIn
  <2>6. \A e \in ToSet(q.entries) : \E i \in 1 .. Len(fs) : e \in EntriesIn(fs[i])
    BY <2>2 DEF EntriesIn
  <2>7. QED  BY <2>2, <2>5, <2>6
<1>10. ASSUME r.issues = <<>>  PROVE ToSet(o.entries) = ToSet(r.entries)
  <2> DEFINE A == UNION {EntriesIn(other[i]) : i \in 1 .. N}
             B == UNION {EntriesIn(files[i]) : i \in 1 .. N}
  <2>1. Len(r.issues) = 0 /\ Len(o.issues) = 0
    BY <1>8, <1>10
  <2>2. /\ ToSet(r.entries) = {e \in B : e.id # None}
        /\ ToSet(o.entries) = {e \in A : e.id # None}
    <3>1. ToSet(r.entries) = {e \in UNION {EntriesIn(files[i]) : i \in 1 .. Len(files)} : e.id # None}
      BY <1>7, <1>9, <2>1
    <3>2. ToSet(o.entries) = {e \in UNION {EntriesIn(other[i]) : i \in 1 .. Len(other)} : e.id # None}
      BY <1>7, <1>9, <2>1
    <3>3. QED  BY <1>1, <3>1, <3>2 DEF N
  <2>3. ASSUME NEW e \in A  PROVE e \in B
    <3>1. PICK i \in 1 .. N : e \in EntriesIn(other[i])
      OBVIOUS
    <3>2. other[i] = files[p[i]] /\ p[i] \in 1 .. N
      BY <1>1
    <3>3. e \in EntriesIn(files[p[i]])
      BY <3>1, <3>2
    <3>4. QED  BY <3>2, <3>3
  <2>4. ASSUME NEW e \in B  PROVE e \in A
    <3>1. PICK j \in 1 .. N : e \in EntriesIn(files[j])
      OBVIOUS
    <3>2. PICK i \in 1 .. N : p[i] = j
      BY <1>1
    <3>3. other[i] = files[j]
      BY <1>1, <3>2
    <3>4. e \in EntriesIn(other[i])
      BY <3>1, <3>3
    <3>5. QED  BY <3>4
  <2>5. QED  BY <2>2, <2>3, <2>4
<1>11. QED  BY <1>8, <1>10 DEF r, o

-----------------------------------------------------------------------------
(* Elements that an order keeps apart are sorted in one way.               *)

LEMMA DistinctCount ==
  ASSUME NEW S, NEW s \in Seq(S), Distinct(s)
  PROVE  Len(s) = Cardinality(ToSet(s))
<1>1. /\ Len(s) \in Nat /\ ToSet(s) = {s[i] : i \in 1 .. Len(s)}
      /\ s \in [1 .. Len(s) -> ToSet(s)]
  <2>1. Len(s) \in Nat /\ ToSet(s) = {s[i] : i \in 1 .. Len(s)}
    BY RangeFacts
  <2>2. s \in [1 .. Len(s) -> S]
    OBVIOUS
  <2>3. QED  BY <2>1, <2>2
<1>2. \A i, j \in 1 .. Len(s) : s[i] = s[j] => i = j
  BY DEF Distinct
<1>3. s \in Bijection(1 .. Len(s), ToSet(s))
  BY <1>1, <1>2 DEF Bijection, Injection, Surjection, IsInjective
<1>4. ExistsBijection(1 .. Len(s), ToSet(s))
  BY <1>3 DEF ExistsBijection
<1>5. IsFiniteSet(1 .. Len(s)) /\ Cardinality(1 .. Len(s)) = Len(s)
  BY <1>1, IntervalCount
<1>6. QED  BY <1>4, <1>5, FS_Bijection

Apart(W) == \A a, b \in W : Before(a, b) \/ Before(b, a) \/ a = b

LEMMA SortedOneWay ==
  ASSUME NEW W, Ranks(W), Apart(W), NEW s \in Seq(W), NEW t \in Seq(W),
         Distinct(s), Distinct(t), Ascending(s), Ascending(t), ToSet(s) = ToSet(t)
  PROVE  s = t
<1>1. Len(s) = Len(t)
  BY DistinctCount
<1> DEFINE N == Len(s)
           Differ == {i \in 1 .. N : s[i] # t[i]}
<1>2. /\ N \in Nat /\ ToSet(s) = {s[i] : i \in 1 .. N} /\ ToSet(s) = {t[i] : i \in 1 .. N}
      /\ \A i \in 1 .. N : s[i] \in W /\ t[i] \in W
  BY <1>1, RangeFacts
<1>3. ASSUME Differ # {}  PROVE FALSE
  <2>1. PICK i \in Differ : \A j \in Differ : i <= j
    <3>1. Differ \in SUBSET Nat
      OBVIOUS
    <3> HIDE DEF Differ
    <3>2. QED  BY <1>3, <3>1, LeastExists
  <2>2. i \in 1 .. N /\ s[i] # t[i] /\ \A j \in 1 .. N : j < i => s[j] = t[j]
    BY <2>1
  <2> HIDE DEF Differ, N
  <2>3. PICK k \in 1 .. N : s[i] = t[k]
    BY <1>2, <2>2
  <2>4. PICK l \in 1 .. N : t[i] = s[l]
    BY <1>2, <2>2
  <2>5. \A a, b \in 1 .. N : /\ s[a] = s[b] => a = b
                             /\ t[a] = t[b] => a = b
                             /\ a < b => ~Before(s[b], s[a]) /\ ~Before(t[b], t[a])
    BY <1>1 DEF Distinct, Ascending, N
  <2>6. i < k
    <3>1. k # i
      BY <2>2, <2>3
    <3>2. ASSUME k < i  PROVE FALSE
      <4>1. s[k] = s[i]
        BY <2>2, <2>3, <3>2
      <4>2. QED  BY <2>2, <2>5, <3>2, <4>1
    <3>3. QED  BY <1>2, <2>2, <3>1, <3>2
  <2>7. i < l
    <3>1. l # i
      BY <2>2, <2>4
    <3>2. ASSUME l < i  PROVE FALSE
      <4>1. t[l] = t[i]
        BY <2>2, <2>4, <3>2
      <4>2. QED  BY <2>2, <2>5, <3>2, <4>1
    <3>3. QED  BY <1>2, <2>2, <3>1, <3>2
  <2>8. ~Before(t[i], s[i]) /\ ~Before(s[i], t[i])
    <3>1. ~Before(t[k], t[i]) /\ ~Before(s[l], s[i])
      BY <2>2, <2>5, <2>6, <2>7
    <3>2. QED  BY <2>3, <2>4, <3>1
  <2>9. QED  BY <1>2, <2>2, <2>8 DEF Apart
<1>4. \A i \in 1 .. N : s[i] = t[i]
  BY <1>3
<1>5. QED  BY <1>1, <1>4

LEMMA ComparableApart ==
  ASSUME NEW W \in SUBSET Versions, Comparable(W)  PROVE Ranks(W) /\ Apart(W)
<1>0. OneRule(W) /\ \A v, w \in W : Collation[v] = Collation[w] => v = w
  BY DEF Comparable
<1> SUFFICES ASSUME NEW a \in W, NEW b \in W  PROVE Before(a, b) \/ Before(b, a) \/ a = b
  BY <1>0, OneRuleRanks DEF Apart
<1>1. CASE \A v \in W : Triple[v] # <<>>
  BY <1>0, <1>1, NumbersFirst
<1>2. CASE \A v \in W : Triple[v] = <<>>
  BY <1>0, <1>2, TextOnly
<1>3. QED  BY <1>0, <1>1, <1>2 DEF OneRule

\* The second half of RenamingIsImmaterial.
SameSchemas(other, registry) ==
  /\ Len(other.issues) = Len(registry.issues)
  /\ registry.issues = <<>> =>
       /\ ToSet(other.entries) = ToSet(registry.entries)
       /\ \A id \in Ids : Comparable(VersionSet(registry.entries, id)) =>
            /\ ListOf(other.entries, id) = ListOf(registry.entries, id)
            /\ findSchema(other.entries, id, None) = findSchema(registry.entries, id, None)

LEMMA SameLookup ==
  ASSUME NEW es \in Seq(EntrySet), Unlike(es), NEW os \in Seq(EntrySet), Unlike(os),
         ToSet(os) = ToSet(es), NEW id, Comparable(VersionSet(es, id))
  PROVE  /\ ListOf(os, id) = ListOf(es, id)
         /\ findSchema(os, id, None) = findSchema(es, id, None)
<1> DEFINE W == VersionSet(es, id)
           vs == VersionsOf(es, id)
           ws == VersionsOf(os, id)
<1>1. /\ vs \in Seq(Versions) /\ Distinct(vs) /\ ToSet(vs) = W
      /\ ws \in Seq(Versions) /\ Distinct(ws) /\ ToSet(ws) = W
  <2>1. /\ vs \in Seq(Versions) /\ Distinct(vs) /\ ws \in Seq(Versions) /\ Distinct(ws)
        /\ W = {e.version : e \in {x \in ToSet(es) : x.id = id /\ x.version # Unversioned}}
        /\ VersionSet(os, id) =
             {e.version : e \in {x \in ToSet(os) : x.id = id /\ x.version # Unversioned}}
    BY LookupFacts
  <2>2. ToSet(vs) = W /\ ToSet(ws) = VersionSet(os, id)
    BY DEF VersionSet
  <2> HIDE DEF vs, ws, W
  <2>3. QED  BY <2>1, <2>2
<1> HIDE DEF W
<1>2. W \in SUBSET Versions /\ Comparable(W)
  BY <1>1, RangeFacts DEF W
<1>3. Ranks(W) /\ Apart(W)
  BY <1>2, ComparableApart
<1>4. vs \in Seq(W) /\ ws \in Seq(W)
  <2> HIDE DEF vs, ws
  <2>1. ASSUME NEW s \in Seq(Versions), ToSet(s) = W  PROVE s \in Seq(W)
    <3>1. \A i \in 1 .. Len(s) : s[i] \in W
      BY <2>1, RangeFacts
    <3>2. QED  BY <3>1
  <2>2. QED  BY <1>1, <2>1
<1>5. Sorted(ws) = Sorted(vs)
  <2> DEFINE a == Sorted(vs)
             b == Sorted(ws)
  <2> HIDE DEF vs, ws
  <2>1. /\ a \in Seq(W) /\ Distinct(a) /\ Ascending(a) /\ ToSet(a) = W
        /\ b \in Seq(W) /\ Distinct(b) /\ Ascending(b) /\ ToSet(b) = W
    BY <1>1, <1>3, <1>4, SortedFacts
  <2> HIDE DEF a, b
  <2>2. b = a
    BY <1>3, <2>1, SortedOneWay
  <2>3. QED  BY <2>2 DEF a, b
<1>6. \A v : Exactly(os, id, v) = Exactly(es, id, v)
  BY DEF Exactly
<1>7. vs = <<>> <=> ws = <<>>
  <2> HIDE DEF vs, ws
  <2>1. \A s \in Seq(Versions) : s = <<>> <=> ToSet(s) = {}
    BY RangeFacts
  <2>2. QED  BY <1>1, <2>1
<1>8. ListOf(os, id) = ListOf(es, id)
  <2> DEFINE a == Sorted(vs)
             b == Sorted(ws)
             TheOne(S) == CHOOSE e \in S : TRUE
             In(entries, v) == Exactly(entries, id, v)
  <2>1. ListOf(es, id) = [i \in DOMAIN a |-> TheOne(In(es, a[i]))] \o SetToSeq(In(es, Unversioned))
    BY DEF ListOf
  <2>2. ListOf(os, id) = [i \in DOMAIN b |-> TheOne(In(os, b[i]))] \o SetToSeq(In(os, Unversioned))
    BY DEF ListOf
  <2>3. a = b /\ \A v : In(os, v) = In(es, v)
    BY <1>5, <1>6
  <2> HIDE DEF a, b, TheOne, In
  <2>4. [i \in DOMAIN a |-> TheOne(In(es, a[i]))] = [i \in DOMAIN b |-> TheOne(In(os, b[i]))]
    BY <2>3
  <2>5. QED  BY <2>1, <2>2, <2>3, <2>4
<1>9. findSchema(os, id, None) = findSchema(es, id, None)
  BY <1>5, <1>6, <1>7 DEF findSchema
<1>10. QED  BY <1>8, <1>9

LEMMA SchemasRenamed ==
  ASSUME NEW files, Numbered(files, SchemaFile), NEW other \in Reordered(files)
  PROVE  SameSchemas(buildRegistry(other), buildRegistry(files))
<1> DEFINE r == buildRegistry(files)
           o == buildRegistry(other)
<1>1. Numbered(other, SchemaFile) /\ \E p : Permuted(other, files, p)
  BY ReorderedFacts
<1>2. PICK p : Permuted(other, files, p)
  BY <1>1
<1>3. Len(o.issues) = Len(r.issues) /\ (r.issues = <<>> => ToSet(o.entries) = ToSet(r.entries))
  BY <1>1, <1>2, SchemasReordered
<1>4. IsRegistry(r, files) /\ IsRegistry(o, other)
  BY <1>1, RegistryFacts
<1> HIDE DEF r, o
<1>5. /\ r.entries \in Seq(EntrySet) /\ Unlike(r.entries)
      /\ o.entries \in Seq(EntrySet) /\ Unlike(o.entries)
  BY <1>4 DEF IsRegistry, Registers
<1>6. ASSUME r.issues = <<>>, NEW id \in Ids, Comparable(VersionSet(r.entries, id))
      PROVE  /\ ListOf(o.entries, id) = ListOf(r.entries, id)
             /\ findSchema(o.entries, id, None) = findSchema(r.entries, id, None)
  BY <1>3, <1>5, <1>6, SameLookup
<1>7. QED  BY <1>3, <1>6 DEF SameSchemas, r, o

(* RenamingIsImmaterial: whatever order the names of the files put them    *)
(* in, there are as many issues, and without issues the same migrations,   *)
(* entries, lists and latest versions.                                     *)
THEOREM RenamingMeansNothing == Spec => []RenamingIsImmaterial
<1>1. ASSUME Numbered(migrationFiles, MigrationFile), Numbered(schemaFiles, SchemaFile)
      PROVE  RenamingIsImmaterial
  <2>1. \A files \in Reordered(migrationFiles) :
          SameMigrations(buildMigrationRegistry(files), MigrationRegistry)
    BY <1>1, MigrationsRenamed DEF MigrationRegistry
  <2>2. \A files \in Reordered(schemaFiles) : SameSchemas(buildRegistry(files), Registry)
    BY <1>1, SchemasRenamed DEF Registry
  <2>3. QED  BY <2>1, <2>2 DEF RenamingIsImmaterial, SameMigrations, SameSchemas
<1>2. QED  BY <1>1, NumberedHolds, PTL

-----------------------------------------------------------------------------
(* Sequences put in a row, and taken apart again.                          *)

\* A sequence, of whatever it has.
IsSequence(s) == s \in Seq(ToSet(s))

LEMMA SequenceOf ==
  ASSUME NEW S, NEW s \in Seq(S)  PROVE IsSequence(s)
<1>1. Len(s) \in Nat /\ s = [i \in 1 .. Len(s) |-> s[i]] /\ \A i \in 1 .. Len(s) : s[i] \in ToSet(s)
  BY RangeFacts
<1>2. s \in [1 .. Len(s) -> ToSet(s)]
  BY <1>1
<1>3. QED  BY <1>1, <1>2, TabulatedIsSeq DEF IsSequence

LEMMA SequenceIn ==
  ASSUME NEW s, IsSequence(s), NEW X, ToSet(s) \subseteq X  PROVE s \in Seq(X)
BY DEF IsSequence

LEMMA RowFacts ==
  ASSUME NEW X, NEW s \in Seq(X), NEW t \in Seq(X)
  PROVE  /\ s \o t \in Seq(X) /\ Len(s \o t) = Len(s) + Len(t)
         /\ Len(s) \in Nat /\ Len(t) \in Nat /\ DOMAIN s = 1 .. Len(s) /\ DOMAIN t = 1 .. Len(t)
         /\ \A i \in 1 .. Len(s) : (s \o t)[i] = s[i]
         /\ \A i \in 1 .. Len(t) : (s \o t)[Len(s) + i] = t[i]
<1>1. s \o t \in Seq(X) /\ Len(s \o t) = Len(s) + Len(t) /\ Len(s) \in Nat /\ Len(t) \in Nat
      /\ DOMAIN s = 1 .. Len(s) /\ DOMAIN t = 1 .. Len(t)
  OBVIOUS
<1>2. \A i \in 1 .. Len(s) : (s \o t)[i] = s[i]
  OBVIOUS
<1>3. \A i \in 1 .. Len(t) : (s \o t)[Len(s) + i] = t[i]
  OBVIOUS
<1>4. QED  BY <1>1, <1>2, <1>3

LEMMA SameSequence ==
  ASSUME NEW X, NEW s \in Seq(X), NEW t \in Seq(X), Len(s) = Len(t),
         \A i \in 1 .. Len(s) : s[i] = t[i]
  PROVE  s = t
<1>1. s = [i \in 1 .. Len(s) |-> s[i]] /\ t = [i \in 1 .. Len(t) |-> t[i]]
  OBVIOUS
<1>2. QED  BY <1>1

\* Of two beginnings of one sequence the shorter one begins the longer one.
LEMMA BeginsAlike ==
  ASSUME NEW X, NEW a \in Seq(X), NEW b \in Seq(X), NEW x \in Seq(X), NEW y \in Seq(X),
         a \o x = b \o y, Len(a) <= Len(b)
  PROVE  IsPrefix(a, b)
<1> DEFINE n == Len(a)
           p == SubSeq(a, 1, n)
           q == SubSeq(b, 1, n)
<1>1. n \in Nat /\ Len(b) \in Nat /\ n <= Len(b) /\ \A i \in 1 .. n : i \in 1 .. Len(b)
  OBVIOUS
<1>2. \A i \in 1 .. n : (a \o x)[i] = a[i]
  BY RowFacts
<1>3. \A i \in 1 .. Len(b) : (b \o y)[i] = b[i]
  BY RowFacts
<1>4. \A i \in 1 .. n : a[i] = b[i]
  BY <1>1, <1>2, <1>3
<1>5. p \in Seq(X) /\ Len(p) = n /\ \A i \in 1 .. n : p[i] = a[i]
  BY <1>1
<1>6. q \in Seq(X) /\ Len(q) = n /\ \A i \in 1 .. n : q[i] = b[i]
  BY <1>1
<1> HIDE DEF p, q
<1>7. p = q
  BY <1>4, <1>5, <1>6, SameSequence
<1>8. QED  BY <1>1, <1>7 DEF IsPrefix, p, q

LEMMA RestAlike ==
  ASSUME NEW X, NEW a \in Seq(X), NEW x \in Seq(X), NEW y \in Seq(X), a \o x = a \o y
  PROVE  x = y
<1>1. /\ Len(a \o x) = Len(a) + Len(x) /\ Len(a) \in Nat /\ Len(x) \in Nat
      /\ \A i \in 1 .. Len(x) : (a \o x)[Len(a) + i] = x[i]
  BY RowFacts
<1>2. /\ Len(a \o y) = Len(a) + Len(y) /\ Len(y) \in Nat
      /\ \A i \in 1 .. Len(y) : (a \o y)[Len(a) + i] = y[i]
  BY RowFacts
<1>3. Len(x) = Len(y)
  BY <1>1, <1>2
<1>4. \A i \in 1 .. Len(x) : x[i] = y[i]
  BY <1>1, <1>2, <1>3
<1>5. QED  BY <1>3, <1>4, SameSequence

\* Where a separator stands that the first part does not have, only one cut
\* is possible.
LEMMA FirstSeparator ==
  ASSUME NEW X, NEW a \in Seq(X), NEW b \in Seq(X), NEW x \in Seq(X), NEW y \in Seq(X), NEW t \in X,
         t \notin ToSet(b), (a \o <<t>>) \o x = (b \o <<t>>) \o y
  PROVE  ~(Len(a) < Len(b))
<1> DEFINE u == a \o <<t>>
           v == b \o <<t>>
           n == Len(a)
<1>1. <<t>> \in Seq(X) /\ Len(<<t>>) = 1 /\ <<t>>[1] = t /\ 1 \in 1 .. 1
  OBVIOUS
<1>2. u \in Seq(X) /\ Len(u) = n + 1 /\ u[n + 1] = t /\ n \in Nat
  BY <1>1, RowFacts
<1>3. v \in Seq(X) /\ Len(v) = Len(b) + 1 /\ Len(b) \in Nat /\ \A i \in 1 .. Len(b) : v[i] = b[i]
  BY <1>1, RowFacts
<1> HIDE DEF u, v
<1>4. (u \o x)[n + 1] = t
  <2>1. \A i \in 1 .. Len(u) : (u \o x)[i] = u[i]
    BY <1>2, RowFacts
  <2>2. n + 1 \in 1 .. Len(u)
    BY <1>2
  <2>3. QED  BY <1>2, <2>1, <2>2
<1>5. SUFFICES ASSUME Len(a) < Len(b)  PROVE FALSE
  OBVIOUS
<1>6. (v \o y)[n + 1] = b[n + 1] /\ n + 1 \in 1 .. Len(b)
  <2>1. \A i \in 1 .. Len(v) : (v \o y)[i] = v[i]
    BY <1>3, RowFacts
  <2>2. n + 1 \in 1 .. Len(b) /\ n + 1 \in 1 .. Len(v)
    BY <1>2, <1>3, <1>5
  <2>3. QED  BY <1>3, <2>1, <2>2
<1>7. b[n + 1] = t
  BY <1>4, <1>6 DEF u, v
<1>8. b[n + 1] \in ToSet(b)
  BY <1>6, RangeFacts
<1>9. QED  BY <1>7, <1>8

\* Two parts with a separator between them.
Parted(a, t, x) == (a \o <<t>>) \o x

LEMMA OneCut ==
  ASSUME NEW a, NEW b, NEW x, NEW y, NEW t,
         IsSequence(a), IsSequence(b), IsSequence(x), IsSequence(y),
         t \notin ToSet(a), t \notin ToSet(b), Parted(a, t, x) = Parted(b, t, y)
  PROVE  a = b /\ x = y
<1>0. (a \o <<t>>) \o x = (b \o <<t>>) \o y
  BY DEF Parted
<1> DEFINE X == ToSet(a) \cup ToSet(b) \cup ToSet(x) \cup ToSet(y) \cup {t}
<1>1. a \in Seq(X) /\ b \in Seq(X) /\ x \in Seq(X) /\ y \in Seq(X) /\ t \in X
  BY SequenceIn
<1> HIDE DEF X
<1>2. ~(Len(a) < Len(b)) /\ ~(Len(b) < Len(a))
  BY <1>0, <1>1, FirstSeparator
<1>3. Len(a) = Len(b)
  BY <1>1, <1>2
<1>4. <<t>> \in Seq(X)
  BY <1>1
<1>5. a \o <<t>> \in Seq(X) /\ b \o <<t>> \in Seq(X)
  BY <1>1, <1>4
<1>6. a = b
  <2> DEFINE u == a \o <<t>>
             v == b \o <<t>>
  <2>1. \A i \in 1 .. Len(a) : u[i] = a[i] /\ v[i] = b[i]
    BY <1>1, <1>3, <1>4, RowFacts
  <2>2. Len(u) = Len(a) + 1 /\ Len(v) = Len(a) + 1 /\ Len(a) \in Nat
    BY <1>1, <1>3, <1>4, RowFacts
  <2> HIDE DEF u, v
  <2>3. \A i \in 1 .. Len(u) : (u \o x)[i] = u[i]
    BY <1>1, <1>5, RowFacts DEF u
  <2>4. \A i \in 1 .. Len(v) : (v \o y)[i] = v[i]
    BY <1>1, <1>5, RowFacts DEF v
  <2>5. \A i \in 1 .. Len(a) : i \in 1 .. Len(a) + 1
    BY <1>1
  <2>6. \A i \in 1 .. Len(a) : a[i] = b[i]
    BY <1>0, <2>1, <2>2, <2>3, <2>4, <2>5 DEF u, v
  <2>7. QED  BY <1>1, <1>3, <2>6, SameSequence
<1>7. x = y
  BY <1>0, <1>1, <1>5, <1>6, RestAlike
<1>8. QED  BY <1>6, <1>7

(* The schemas of a file that have a name.                                 *)
LEMMA NamedOfFacts ==
  ASSUME NEW S, NEW schemas \in Seq(S)
  PROVE  /\ NamedOf(schemas) \in Seq(S)
         /\ ToSet(NamedOf(schemas)) = {s \in ToSet(schemas) : s.id # None}
<1> DEFINE N == Len(schemas)
           P == {n \in 1 .. N : schemas[n].id # None}
           named == CHOOSE k : k = [n \in 0 .. N |->
                      IF n = 0 THEN <<>>
                      ELSE IF schemas[n].id # None THEN Append(k[n - 1], schemas[n]) ELSE k[n - 1]]
<1>1. N \in Nat /\ Finds(schemas, N, P, S)
  BY DEF Finds
<1>2. ASSUME NEW k
      PROVE  Pushes(k, N, P, schemas) <=>
               k = [n \in 0 .. N |->
                     IF n = 0 THEN <<>>
                     ELSE IF schemas[n].id # None THEN Append(k[n - 1], schemas[n]) ELSE k[n - 1]]
  <2>1. \A n \in 0 .. N : n # 0 => (n \in P <=> schemas[n].id # None)
    BY <1>1
  <2> HIDE DEF P
  <2>2. QED  BY <2>1 DEF Pushes
<1>3. \E k : Pushes(k, N, P, schemas)
  <2> HIDE DEF N, P
  <2>1. QED  BY <1>1, PushesExists
<1>4. Pushes(named, N, P, schemas)
  BY <1>2, <1>3
<1>5. NamedOf(schemas) = named[N]
  BY DEF NamedOf
<1>6. {schemas[n] : n \in P \cap (1 .. N)} = {s \in ToSet(schemas) : s.id # None}
  BY RangeFacts
<1> HIDE DEF named, N, P
<1>7. Found(named[N], N, P, schemas, S)
  BY <1>1, <1>4, PushesFacts
<1>8. QED  BY <1>5, <1>6, <1>7 DEF Found

LEMMA MoreThanOne ==
  ASSUME NEW S, NEW s \in Seq(S), NEW x \in ToSet(s), NEW y \in ToSet(s), x # y
  PROVE  ~(Len(s) <= 1)
<1>1. PICK i \in 1 .. Len(s) : x = s[i]
  BY RangeFacts
<1>2. PICK j \in 1 .. Len(s) : y = s[j]
  BY RangeFacts
<1>3. Len(s) \in Nat /\ i # j
  BY <1>1, <1>2
<1>4. QED  BY <1>3

-----------------------------------------------------------------------------
(* A schema is told from the others of its file by what is put into its    *)
(* path.                                                                   *)
NamedIn(schemas) == {s \in ToSet(schemas) : s.id # None}

LEMMA WordsFacts ==
  \A x \in Ids \cup Versions : IsSequence(Words[x]) /\ Words[x] # <<>>
BY ArtifactPathsConstants DEF IsSequence

LEMMA LongerWithMore ==
  ASSUME NEW a, NEW b, IsSequence(a), IsSequence(b), b # <<>>  PROVE a \o b # a
<1> DEFINE X == ToSet(a) \cup ToSet(b)
<1>1. a \in Seq(X) /\ b \in Seq(X)
  BY SequenceIn
<1>2. Len(a \o b) = Len(a) + Len(b) /\ Len(a) \in Nat /\ Len(b) \in Nat
  BY <1>1, RowFacts
<1>3. Len(b) # 0
  BY <1>1
<1>4. QED  BY <1>2, <1>3

LEMMA CutOff ==
  ASSUME NEW a, NEW b, NEW c, IsSequence(a), IsSequence(b), IsSequence(c), a \o b = a \o c
  PROVE  b = c
<1> DEFINE X == ToSet(a) \cup ToSet(b) \cup ToSet(c)
<1>1. a \in Seq(X) /\ b \in Seq(X) /\ c \in Seq(X)
  BY SequenceIn
<1>2. QED  BY <1>1, RestAlike

LEMMA DiscriminatorFacts ==
  ASSUME NEW schemas \in Seq(Exports), ReadApart(schemas),
         NEW s \in NamedIn(schemas), NEW t \in NamedIn(schemas),
         Discriminator(schemas, s) = Discriminator(schemas, t)
  PROVE  s = t
<1> SUFFICES ASSUME s # t  PROVE FALSE
  OBVIOUS
<1>1. /\ s \in Exports /\ t \in Exports /\ s.id # None /\ t.id # None
      /\ s \in ToSet(schemas) /\ t \in ToSet(schemas)
  BY RangeFacts DEF NamedIn
<1>2. /\ s.id \in Ids /\ t.id \in Ids /\ s.version \in Versions /\ t.version \in Versions
      /\ s = [id |-> s.id, version |-> s.version] /\ t = [id |-> t.id, version |-> t.version]
  BY <1>1, ExportsFacts
<1>3. ~(Len(NamedOf(schemas)) <= 1)
  <2>1. /\ NamedOf(schemas) \in Seq(Exports)
        /\ s \in ToSet(NamedOf(schemas)) /\ t \in ToSet(NamedOf(schemas))
    BY <1>1, NamedOfFacts
  <2>2. QED  BY <2>1, MoreThanOne
<1> DEFINE slug(x) == IF Len(OfId(schemas, x.id)) > 1 /\ x.version # Unversioned
                      THEN Words[x.id] \o Words[x.version] ELSE Words[x.id]
<1>4. \A x : Discriminator(schemas, x) = <<slug(x)>>
  BY <1>3 DEF Discriminator
<1>5. slug(s) = slug(t)
  <2> HIDE DEF slug
  <2>1. <<slug(s)>> = <<slug(t)>>
    BY <1>4
  <2>2. QED  BY <2>1
<1>6. CASE s.id # t.id
  <2>1. {Words[s.id], Words[s.id] \o Words[s.version]}
          \cap {Words[t.id], Words[t.id] \o Words[t.version]} = {}
    BY <1>1, <1>6 DEF ReadApart
  <2>2. /\ slug(s) \in {Words[s.id], Words[s.id] \o Words[s.version]}
        /\ slug(t) \in {Words[t.id], Words[t.id] \o Words[t.version]}
    OBVIOUS
  <2> HIDE DEF slug
  <2>3. QED  BY <1>5, <2>1, <2>2
<1>7. CASE s.id = t.id
  <2>1. Words[s.version] # Words[t.version]
    BY <1>1, <1>7 DEF ReadApart
  <2>2. Len(OfId(schemas, s.id)) > 1
    <3> DEFINE kept == OfId(schemas, s.id)
    <3>1. kept \in Seq(Exports) /\ s \in ToSet(kept) /\ t \in ToSet(kept)
      BY <1>1, <1>7, OfIdFacts
    <3> HIDE DEF kept
    <3>2. ~(Len(kept) <= 1) /\ Len(kept) \in Nat
      BY <3>1, MoreThanOne
    <3>3. QED  BY <3>2 DEF kept
  <2>3. /\ slug(s) = IF s.version # Unversioned THEN Words[s.id] \o Words[s.version] ELSE Words[s.id]
        /\ slug(t) = IF t.version # Unversioned THEN Words[s.id] \o Words[t.version] ELSE Words[s.id]
    BY <1>7, <2>2
  <2>4. /\ IsSequence(Words[s.id]) /\ IsSequence(Words[s.version]) /\ IsSequence(Words[t.version])
        /\ Words[s.version] # <<>> /\ Words[t.version] # <<>>
    BY <1>2, WordsFacts
  <2> HIDE DEF slug
  <2>5. CASE s.version # Unversioned /\ t.version # Unversioned
    BY <1>5, <2>1, <2>3, <2>4, <2>5, CutOff
  <2>6. CASE s.version = Unversioned /\ t.version # Unversioned
    BY <1>5, <2>3, <2>4, <2>6, LongerWithMore
  <2>7. CASE s.version # Unversioned /\ t.version = Unversioned
    BY <1>5, <2>3, <2>4, <2>7, LongerWithMore
  <2>8. CASE s.version = Unversioned /\ t.version = Unversioned
    BY <1>2, <1>7, <2>8
  <2>9. QED  BY <2>5, <2>6, <2>7, <2>8
<1>8. QED  BY <1>6, <1>7

(* Names of files, none of which begins like another.                      *)
LEMMA BasenameIsSequence ==
  ASSUME NEW name, IsSequence(name)  PROVE IsSequence(basenameOf(name))
<1> DEFINE X == ToSet(name)
<1>1. name \in Seq(X) /\ Len(name) \in Nat
  BY DEF IsSequence
<1> HIDE DEF X
<1>2. Len(name) > 2 => SubSeq(name, 1, Len(name) - 2) \in Seq(X)
  BY <1>1
<1>3. Len(name) > 1 => SubSeq(name, 1, Len(name) - 1) \in Seq(X)
  BY <1>1
<1>4. basenameOf(name) \in Seq(X)
  BY <1>1, <1>2, <1>3 DEF basenameOf, Front
<1>5. QED  BY <1>4, SequenceOf

LEMMA OneBegins ==
  ASSUME NEW a, NEW b, NEW x, NEW y,
         IsSequence(a), IsSequence(b), IsSequence(x), IsSequence(y), a \o x = b \o y
  PROVE  IsPrefix(a, b) \/ IsPrefix(b, a)
<1> DEFINE X == ToSet(a) \cup ToSet(b) \cup ToSet(x) \cup ToSet(y)
<1>1. a \in Seq(X) /\ b \in Seq(X) /\ x \in Seq(X) /\ y \in Seq(X)
  BY SequenceIn
<1> HIDE DEF X
<1>2. Len(a) <= Len(b) \/ Len(b) <= Len(a)
  BY <1>1
<1>3. QED  BY <1>1, <1>2, BeginsAlike

LEMMA SingletonIsSequence == \A x : IsSequence(<<x>>) /\ IsSequence(<<>>)
<1> SUFFICES ASSUME NEW x  PROVE IsSequence(<<x>>) /\ IsSequence(<<>>)
  OBVIOUS
<1>1. <<x>> \in Seq({x}) /\ <<>> \in Seq({x})
  OBVIOUS
<1>2. QED  BY <1>1, SequenceOf

\* Where files are named apart, what is put behind their names says which
\* file it was.
LEMMA SameStem ==
  ASSUME NEW n \in Nat, NEW sources, DOMAIN sources = 1 .. n, NamedApart(sources),
         \A i \in 1 .. n : IsSequence(sources[i].name)
  PROVE  \A i, j \in 1 .. n : \A x, y :
           /\ IsSequence(x) /\ IsSequence(y) /\ sources[i].dir = sources[j].dir
           /\ basenameOf(sources[i].name) \o x = basenameOf(sources[j].name) \o y
           => i = j /\ x = y
<1> SUFFICES ASSUME NEW i \in 1 .. n, NEW j \in 1 .. n, NEW x, NEW y,
                    IsSequence(x), IsSequence(y), sources[i].dir = sources[j].dir,
                    basenameOf(sources[i].name) \o x = basenameOf(sources[j].name) \o y
             PROVE  i = j /\ x = y
  OBVIOUS
<1> DEFINE a == basenameOf(sources[i].name)
           b == basenameOf(sources[j].name)
<1>1. IsSequence(a) /\ IsSequence(b)
  BY BasenameIsSequence
<1>2. IsPrefix(a, b) \/ IsPrefix(b, a)
  <2> HIDE DEF a, b
  <2>1. a \o x = b \o y
    BY DEF a, b
  <2>2. QED  BY <1>1, <2>1, OneBegins
<1>3. i = j
  BY <1>2 DEF NamedApart
<1>4. x = y
  <2>1. a \o x = a \o y
    BY <1>3
  <2> HIDE DEF a
  <2>2. QED  BY <1>1, <2>1, CutOff
<1>5. QED  BY <1>3, <1>4

-----------------------------------------------------------------------------
(* What `generate` makes, and what is left of it.                          *)
ArtifactsIn(file, source) == {ArtifactOf(file, source, s) : s \in NamedIn(file.exports)}
AllArtifacts(files, sources) == UNION {ArtifactsIn(files[i], sources[i]) : i \in 1 .. Len(files)}

LEMMA ArtifactsOfFacts ==
  ASSUME NEW file \in SchemaFile, NEW source, NEW S, ArtifactsIn(file, source) \subseteq S
  PROVE  /\ ArtifactsOf(file, source) \in Seq(S)
         /\ ToSet(ArtifactsOf(file, source)) = ArtifactsIn(file, source)
<1> DEFINE named == NamedOf(sortSchemas(file.exports))
           n == Len(named)
           as == [i \in 1 .. n |-> ArtifactOf(file, source, named[i])]
<1>1. file.exports \in Seq(Exports)
  BY DEF SchemaFile
<1>2. named \in Seq(Exports) /\ ToSet(named) = NamedIn(file.exports)
  <2>1. /\ sortSchemas(file.exports) \in Seq(Exports)
        /\ ToSet(sortSchemas(file.exports)) = ToSet(file.exports)
    BY <1>1, SortSchemasFacts
  <2>2. QED  BY <2>1, NamedOfFacts DEF NamedIn
<1>3. ArtifactsOf(file, source) = [i \in DOMAIN named |-> ArtifactOf(file, source, named[i])]
  BY DEF ArtifactsOf
<1> HIDE DEF named
<1>4. /\ n \in Nat /\ DOMAIN named = 1 .. n /\ ToSet(named) = {named[i] : i \in 1 .. n}
  BY <1>2, RangeFacts
<1>5. ArtifactsOf(file, source) = as
  BY <1>3, <1>4
<1>6. \A i \in 1 .. n : ArtifactOf(file, source, named[i]) \in S
  BY <1>2, <1>4 DEF ArtifactsIn
<1>7. as \in [1 .. n -> S] /\ \A i \in 1 .. n : as[i] = ArtifactOf(file, source, named[i])
  BY <1>6
<1> HIDE DEF as, n
<1>8. as \in Seq(S) /\ ToSet(as) = {as[i] : i \in 1 .. n}
  <2>1. n \in Nat
    BY <1>4
  <2>2. as \in [1 .. n -> S]
    BY <1>7
  <2>3. QED  BY ONLY <2>1, <2>2, TabulatedIsSeq
<1>9. ToSet(as) = {ArtifactOf(file, source, s) : s \in ToSet(named)}
  <2>1. \A i \in 1 .. n : as[i] \in {ArtifactOf(file, source, s) : s \in ToSet(named)}
    BY <1>4, <1>7
  <2>2. \A s \in ToSet(named) : \E i \in 1 .. n : ArtifactOf(file, source, s) = as[i]
    BY <1>4, <1>7
  <2>3. QED  BY <1>8, <2>1, <2>2
<1>10. QED  BY <1>2, <1>5, <1>8, <1>9 DEF ArtifactsIn

LEMMA GenerateFacts ==
  ASSUME NEW files, Numbered(files, SchemaFile), NEW sources
  PROVE  LET S == AllArtifacts(files, sources)
         IN /\ generateHandler(files, sources) \in Seq(S)
            /\ ToSet(generateHandler(files, sources)) = S
<1> DEFINE S == AllArtifacts(files, sources)
           N == Len(files)
           seqs == [i \in 1 .. N |-> ArtifactsOf(files[i], sources[i])]
<1>1. N \in Nat /\ DOMAIN files = 1 .. N /\ \A i \in 1 .. N : files[i] \in SchemaFile
  BY DEF Numbered
<1>2. S = UNION {ArtifactsIn(files[i], sources[i]) : i \in 1 .. N}
  BY DEF AllArtifacts
<1>3. generateHandler(files, sources) = FlattenSeq(seqs)
  BY <1>1 DEF generateHandler
<1> HIDE DEF S, N
<1>4. \A i \in 1 .. N : ArtifactsIn(files[i], sources[i]) \subseteq S
  BY <1>2
<1>5. \A i \in 1 .. N : /\ ArtifactsOf(files[i], sources[i]) \in Seq(S)
                        /\ ToSet(ArtifactsOf(files[i], sources[i])) = ArtifactsIn(files[i], sources[i])
  BY <1>1, <1>4, ArtifactsOfFacts
<1>6. /\ seqs \in [1 .. N -> Seq(S)]
      /\ \A i \in 1 .. N : ToSet(seqs[i]) = ArtifactsIn(files[i], sources[i])
  BY <1>5
<1> HIDE DEF seqs
<1>7. seqs \in Seq(Seq(S)) /\ Len(seqs) = N
  BY <1>1, <1>6, TabulatedIsSeq
<1>8. FlattenSeq(seqs) \in Seq(S) /\ ToSet(FlattenSeq(seqs)) = UNION {ToSet(seqs[i]) : i \in 1 .. N}
  BY <1>7, FlattenFacts DEF Flattened
<1>9. ToSet(FlattenSeq(seqs)) = S
  BY <1>2, <1>6, <1>8
<1>10. QED  BY <1>3, <1>8, <1>9 DEF S

\* At the path of every artifact there is one, though maybe another.
LEMMA DiskFacts ==
  ASSUME NEW files, Numbered(files, SchemaFile), NEW sources, runList(files) = SUCCESS
  PROVE  /\ runGenerate(files, sources) \subseteq AllArtifacts(files, sources)
         /\ \A a \in AllArtifacts(files, sources) :
              \E b \in runGenerate(files, sources) : b.path = a.path
<1> DEFINE as == generateHandler(files, sources)
           n == Len(as)
           all == AllArtifacts(files, sources)
           final == {i \in 1 .. n : \A j \in 1 .. n : j > i => as[j].path # as[i].path}
           disk == runGenerate(files, sources)
<1>1. as \in Seq(all) /\ ToSet(as) = all
  BY GenerateFacts
<1>2. n \in Nat /\ DOMAIN as = 1 .. n /\ ToSet(as) = {as[i] : i \in 1 .. n}
  <2> HIDE DEF as, all
  <2>1. QED  BY <1>1, RangeFacts
<1>3. disk = {as[i] : i \in final}
  BY <1>2 DEF runGenerate
<1> HIDE DEF as, n, all, disk
<1>4. disk \subseteq all
  BY <1>1, <1>2, <1>3
<1>5. ASSUME NEW a \in all  PROVE \E b \in disk : b.path = a.path
  <2> DEFINE there == {i \in 1 .. n : as[i].path = a.path}
             m == Max(there)
  <2>1. there \in SUBSET (1 .. n) /\ there # {}
    BY <1>1, <1>2
  <2>2. m \in there /\ \A y \in there : m >= y
    BY <1>2, <2>1, MaxFacts
  <2> HIDE DEF m
  <2>3. m \in 1 .. n /\ as[m].path = a.path
    BY <2>2
  <2>4. \A j \in 1 .. n : j > m => as[j].path # as[m].path
    <3> SUFFICES ASSUME NEW j \in 1 .. n, j > m, as[j].path = as[m].path  PROVE FALSE
      OBVIOUS
    <3>1. j \in there
      BY <2>3
    <3>2. m >= j
      BY <2>2, <3>1
    <3>3. QED  BY <1>2, <2>3, <3>2
  <2>5. as[m] \in disk
    BY <1>3, <2>3, <2>4
  <2>6. QED  BY <2>3, <2>5
<1>6. QED  BY <1>4, <1>5 DEF all, disk

\* What an artifact of a file says, and where it is.
LEMMA ArtifactFields ==
  \A file, source, s :
    /\ ArtifactOf(file, source, s).ir = <<s.id, s.version>>
    /\ ArtifactOf(file, source, s).source = file.name
    /\ ArtifactOf(file, source, s).header = buildHeader(s.id, s.version)
    /\ ArtifactOf(file, source, s).path.dir = source.dir
    /\ ArtifactOf(file, source, s).path.stem
         = basenameOf(source.name) \o Discriminator(file.exports, s)
BY DEF ArtifactOf, suggestedPathFor

LEMMA DiscriminatorIsSequence == \A schemas, s : IsSequence(Discriminator(schemas, s))
<1> SUFFICES ASSUME NEW schemas, NEW s  PROVE IsSequence(Discriminator(schemas, s))
  OBVIOUS
<1>1. \/ Discriminator(schemas, s) = <<>>
      \/ Discriminator(schemas, s) = <<Words[s.id] \o Words[s.version]>>
      \/ Discriminator(schemas, s) = <<Words[s.id]>>
  BY DEF Discriminator
<1>2. QED  BY <1>1, SingletonIsSequence

\* A header gives back what it was made of, but for the word null.
LEMMA ParsedBack ==
  ASSUME NEW id, NEW version, "null" \notin ToSet(<<id, version>>)
  PROVE  parseProvenance(buildHeader(id, version)) = [schemaId |-> id, schemaVersion |-> version]
<1>1. id # "null" /\ version # "null"
  BY DEF ToSet
<1>2. QED  BY <1>1 DEF parseProvenance, buildHeader, Unversioned

(* Every named schema has its artifact on the disk, where names are told   *)
(* apart.                                                                  *)
LEMMA OwnArtifact ==
  ASSUME NEW files, Numbered(files, SchemaFile), runList(files) = SUCCESS,
         NEW sources, DOMAIN sources = 1 .. Len(files), NamedApart(sources),
         \A i \in 1 .. Len(files) : IsSequence(sources[i].name),
         \A i \in 1 .. Len(files) : ReadApart(files[i].exports),
         NEW i \in 1 .. Len(files), NEW s \in NamedIn(files[i].exports)
  PROVE  \E a \in runGenerate(files, sources) :
           a.ir = <<s.id, s.version>> /\ a.source = files[i].name
<1> DEFINE own == ArtifactOf(files[i], sources[i], s)
<1>1. own \in AllArtifacts(files, sources)
  BY DEF AllArtifacts, ArtifactsIn
<1>2. PICK a \in runGenerate(files, sources) : a.path = own.path
  BY <1>1, DiskFacts
<1>3. a \in AllArtifacts(files, sources)
  BY DiskFacts
<1>4. PICK j \in 1 .. Len(files) : a \in ArtifactsIn(files[j], sources[j])
  BY <1>3 DEF AllArtifacts
<1>5. PICK t \in NamedIn(files[j].exports) : a = ArtifactOf(files[j], sources[j], t)
  BY <1>4 DEF ArtifactsIn
<1> DEFINE x == Discriminator(files[i].exports, s)
           y == Discriminator(files[j].exports, t)
<1>6. /\ own.path.dir = sources[i].dir /\ own.path.stem = basenameOf(sources[i].name) \o x
      /\ a.path.dir = sources[j].dir /\ a.path.stem = basenameOf(sources[j].name) \o y
      /\ a.ir = <<t.id, t.version>> /\ a.source = files[j].name
  <2> DEFINE here  == files[i]
             there == files[j]
             from  == sources[i]
             other == sources[j]
             mine  == ArtifactOf(here, from, s)
             made  == ArtifactOf(there, other, t)
  <2>1. own = mine /\ a = made
    BY <1>5
  <2> HIDE DEF here, there, from, other
  <2>2. /\ mine.path.dir = from.dir
        /\ mine.path.stem = basenameOf(from.name) \o Discriminator(here.exports, s)
    BY ArtifactFields
  <2>3. /\ made.path.dir = other.dir
        /\ made.path.stem = basenameOf(other.name) \o Discriminator(there.exports, t)
        /\ made.ir = <<t.id, t.version>> /\ made.source = there.name
    BY ArtifactFields
  <2> HIDE DEF own, mine, made
  <2>4. QED  BY <2>1, <2>2, <2>3 DEF here, there, from, other
<1>7. IsSequence(x) /\ IsSequence(y)
  BY DiscriminatorIsSequence
<1> HIDE DEF own, x, y
<1>8. i = j /\ x = y
  <2>1. Len(files) \in Nat
    BY FilesFacts
  <2>2. /\ sources[i].dir = sources[j].dir
        /\ basenameOf(sources[i].name) \o x = basenameOf(sources[j].name) \o y
    BY <1>2, <1>6, Zenon
  <2>3. \A k, m \in 1 .. Len(files) : \A u, v :
          /\ IsSequence(u) /\ IsSequence(v) /\ sources[k].dir = sources[m].dir
          /\ basenameOf(sources[k].name) \o u = basenameOf(sources[m].name) \o v
          => k = m /\ u = v
    BY <2>1, SameStem
  <2>4. QED  BY <1>7, <2>2, <2>3
<1>9. s = t
  <2>1. files[i].exports \in Seq(Exports) /\ ReadApart(files[i].exports)
    BY FilesFacts
  <2>2. Discriminator(files[i].exports, s) = Discriminator(files[i].exports, t)
    BY <1>8 DEF x, y
  <2>3. t \in NamedIn(files[i].exports)
    BY <1>8, Zenon
  <2>4. QED  BY <2>1, <2>2, <2>3, DiscriminatorFacts
<1>10. QED  BY <1>6, <1>8, <1>9

(* What is on the disk is clean.                                           *)
LEMMA DiskIsClean ==
  ASSUME NEW files, Numbered(files, SchemaFile), runList(files) = SUCCESS, NEW sources,
         NEW a \in runGenerate(files, sources), "null" \notin ToSet(a.ir)
  PROVE  classifyArtifact(a, buildRegistry(files).entries) = "clean"
<1> DEFINE r == buildRegistry(files)
           entries == r.entries
<1>1. a \in AllArtifacts(files, sources)
  BY DiskFacts
<1>2. PICK i \in 1 .. Len(files) : a \in ArtifactsIn(files[i], sources[i])
  BY <1>1 DEF AllArtifacts
<1>3. PICK s \in NamedIn(files[i].exports) : a = ArtifactOf(files[i], sources[i], s)
  BY <1>2 DEF ArtifactsIn
<1>4. /\ a.ir = <<s.id, s.version>> /\ a.source = files[i].name
      /\ a.header = buildHeader(s.id, s.version)
  BY <1>3, ArtifactFields
<1>5. parseProvenance(a.header) = [schemaId |-> s.id, schemaVersion |-> s.version]
  BY <1>4, ParsedBack
<1>6. s \in ToSet(files[i].exports) /\ s.id # None /\ s.version # None
  <2>1. s \in ToSet(files[i].exports) /\ s.id # None /\ files[i].exports \in Seq(Exports)
    BY FilesFacts DEF NamedIn
  <2>2. s \in Exports
    BY <2>1, RangeFacts
  <2>3. QED  BY <2>1, <2>2, ExportsFacts, RegistriesConstants
<1>7. IsRegistry(r, files) /\ r.issues = <<>>
  <2>1. r.issues = <<>>
    BY DEF runList, SUCCESS, IO_ERROR, LOGICAL_FAILURE
  <2> HIDE DEF r
  <2>2. QED  BY <2>1, RegistryFacts DEF r
<1> HIDE DEF r
<1> DEFINE e == EntryOf(files[i], s)
<1>8. e \in ToSet(entries) /\ entries \in Seq(EntrySet) /\ Unlike(entries)
  BY <1>6, <1>7 DEF IsRegistry, Registers
<1>9. e.id = s.id /\ e.version = s.version /\ e.path = files[i].name
  BY DEF EntryOf
<1> HIDE DEF e, entries
<1>10. findSchema(entries, s.id, s.version) = {e}
  <2>1. findSchema(entries, s.id, s.version) = Exactly(entries, s.id, s.version)
    BY <1>6 DEF findSchema
  <2>2. Exactly(entries, e.id, e.version) = {e}
    BY <1>8, LookupFacts
  <2>3. QED  BY <1>9, <2>1, <2>2
<1>11. classifyArtifact(a, entries) = "clean"
  <2> DEFINE found == {e}
  <2>1. /\ \E f \in found : <<f.id, f.version>> = a.ir
        /\ \E f \in found : f.path = a.source
        /\ found # {}
    BY <1>4, <1>9
  <2> DEFINE parsed == parseProvenance(a.header)
  <2>2. findSchema(entries, parsed.schemaId, parsed.schemaVersion) = found
    BY <1>5, <1>10
  <2> HIDE DEF found
  <2>3. QED  BY <2>1, <2>2 DEF classifyArtifact
<1>12. QED  BY <1>11 DEF entries, r

-----------------------------------------------------------------------------
(* PathsKeptApart: of what `generate` writes nothing is overwritten where  *)
(* names read apart, and what it leaves is clean, for any files under any  *)
(* names, ids and versions.                                                *)
THEOREM PathsStayApart == Spec => []PathsKeptApart
<1>1. ASSUME Numbered(schemaFiles, SchemaFile)  PROVE PathsKeptApart
  <2> DEFINE files == schemaFiles
             N == Len(files)
             entries == buildRegistry(files).entries
             fileOf(e) == CHOOSE i \in DOMAIN files : files[i].name = e.path
             plain(hop) ==
               /\ {e.id : e \in ToSet(files[fileOf(hop[1])].exports)} = {hop[1].id}
               /\ \A e \in {hop[1], hop[2]} : "to" \notin ToSet(Words[e.version])
             hops == {hop \in Hops(entries) : plain(hop)}
             readApart == \A i \in DOMAIN files : ReadApart(files[i].exports)
             sourcesOf(paths) == [i \in DOMAIN files |-> SourcePaths[paths[i]]]
             migrationPath(sources, hop) ==
               suggestedMigrationPathFor(sources[fileOf(hop[1])], hop[1].version, hop[2].version)
  <2> SUFFICES ASSUME runList(files) = SUCCESS, NEW paths \in Namings
               PROVE  LET sources == sourcesOf(paths)
                          disk == runGenerate(files, sources)
                      IN /\ NamedApart(sources) =>
                              /\ readApart => \A e \in ToSet(entries) : \E artifact \in disk :
                                   <<artifact.ir, artifact.source>> = <<NameOf(e), e.path>>
                              /\ \A g, h \in hops :
                                   migrationPath(sources, g) = migrationPath(sources, h) =>
                                     /\ g[1].path = h[1].path
                                     /\ \A k \in 1..2 : Words[g[k].version] = Words[h[k].version]
                         /\ \A artifact \in disk :
                              "null" \notin ToSet(artifact.ir) =>
                                classifyArtifact(artifact, entries) = "clean"
    BY DEF PathsKeptApart, Registry
  <2> DEFINE sources == sourcesOf(paths)
             disk == runGenerate(files, sources)
  <2>1. N \in Nat /\ DOMAIN files = 1 .. N
    BY <1>1, FilesFacts
  <2>2. paths \in [DOMAIN files -> DOMAIN SourcePaths]
    BY DEF Namings
  <2>3. DOMAIN sources = 1 .. N /\ \A i \in 1 .. N : IsSequence(sources[i].name)
    <3>1. \A i \in 1 .. N : sources[i] = SourcePaths[paths[i]] /\ paths[i] \in DOMAIN SourcePaths
      BY <2>1, <2>2
    <3>2. \A k \in DOMAIN SourcePaths : SourcePaths[k] \in ToSet(SourcePaths)
      BY DEF ToSet
    <3>3. \A i \in 1 .. N : sources[i] \in ToSet(SourcePaths)
      BY <3>1, <3>2
    <3>4. DOMAIN sources = 1 .. N
      BY <2>1
    <3> HIDE DEF sources
    <3>5. QED  BY <3>3, <3>4, ArtifactPathsConstants DEF IsSequence
  <2>4. IsRegistry(buildRegistry(files), files)
    BY <1>1, RegistryFacts
  <2>5. ASSUME NEW e \in ToSet(entries)
        PROVE  \E i \in 1 .. N : \E s \in NamedIn(files[i].exports) : e = EntryOf(files[i], s)
    <3>1. e.id # None /\ \E i \in 1 .. N : \E s \in ToSet(files[i].exports) : e = EntryOf(files[i], s)
      BY <2>4 DEF IsRegistry
    <3>2. QED  BY <3>1 DEF NamedIn, EntryOf
  <2>6. \A e \in ToSet(entries) : e.version \in Versions
    <3>1. entries \in Seq(EntrySet)
      BY <2>4 DEF IsRegistry, Registers
    <3> HIDE DEF entries
    <3>2. \A e \in ToSet(entries) : e \in EntrySet
      BY <3>1, RangeFacts
    <3>3. QED  BY <3>2 DEF EntrySet
  <2> HIDE DEF files, entries, sources, sourcesOf, disk
  <2>7. ASSUME NamedApart(sources), readApart, NEW e \in ToSet(entries)
        PROVE  \E a \in disk : <<a.ir, a.source>> = <<NameOf(e), e.path>>
    <3>1. PICK i \in 1 .. N : \E s \in NamedIn(files[i].exports) : e = EntryOf(files[i], s)
      BY <2>5
    <3>2. PICK s \in NamedIn(files[i].exports) : e = EntryOf(files[i], s)
      BY <3>1
    <3>3. \A j \in 1 .. N : ReadApart(files[j].exports)
      BY <2>1, <2>7
    <3>4. PICK a \in disk : a.ir = <<s.id, s.version>> /\ a.source = files[i].name
      BY <1>1, <2>3, <2>7, <3>3, OwnArtifact DEF disk, files
    <3>5. QED  BY <3>2, <3>4 DEF NameOf, EntryOf
  <2>8. ASSUME NEW e \in ToSet(entries)
        PROVE  fileOf(e) \in 1 .. N /\ files[fileOf(e)].name = e.path
    <3>1. \E i \in DOMAIN files : files[i].name = e.path
      BY <2>1, <2>5 DEF EntryOf
    <3>2. QED  BY <2>1, <3>1
  <2> HIDE DEF fileOf
  <2>9. ASSUME NamedApart(sources), NEW g \in hops, NEW h \in hops,
               migrationPath(sources, g) = migrationPath(sources, h)
        PROVE  g[1].path = h[1].path /\ \A k \in 1..2 : Words[g[k].version] = Words[h[k].version]
    <3> DEFINE i == fileOf(g[1])
               j == fileOf(h[1])
               slug(hop) == (Words[hop[1].version] \o <<"to">>) \o Words[hop[2].version]
    <3>1. /\ g[1] \in ToSet(entries) /\ g[2] \in ToSet(entries)
          /\ h[1] \in ToSet(entries) /\ h[2] \in ToSet(entries)
      BY DEF Hops
    <3>2. i \in 1 .. N /\ j \in 1 .. N /\ files[i].name = g[1].path /\ files[j].name = h[1].path
      BY <2>8, <3>1
    <3>3. /\ sources[i].dir = sources[j].dir
          /\ basenameOf(sources[i].name) \o <<slug(g)>> = basenameOf(sources[j].name) \o <<slug(h)>>
      BY <2>9 DEF suggestedMigrationPathFor
    <3>4. IsSequence(<<slug(g)>>) /\ IsSequence(<<slug(h)>>)
      BY SingletonIsSequence
    <3> HIDE DEF i, j, slug
    <3>5. i = j /\ <<slug(g)>> = <<slug(h)>>
      <4> HIDE DEF N
      <4>1. \A k, m \in 1 .. N : \A u, v :
              /\ IsSequence(u) /\ IsSequence(v) /\ sources[k].dir = sources[m].dir
              /\ basenameOf(sources[k].name) \o u = basenameOf(sources[m].name) \o v
              => k = m /\ u = v
        BY <2>1, <2>3, <2>9, SameStem
      <4>2. QED  BY <3>2, <3>3, <3>4, <4>1
    <3>6. (Words[g[1].version] \o <<"to">>) \o Words[g[2].version]
            = (Words[h[1].version] \o <<"to">>) \o Words[h[2].version]
      BY <3>5 DEF slug
    <3>7. /\ IsSequence(Words[g[1].version]) /\ IsSequence(Words[g[2].version])
          /\ IsSequence(Words[h[1].version]) /\ IsSequence(Words[h[2].version])
      BY <2>6, <3>1, WordsFacts
    <3>8. "to" \notin ToSet(Words[g[1].version]) /\ "to" \notin ToSet(Words[h[1].version])
      OBVIOUS
    <3>9. Words[g[1].version] = Words[h[1].version] /\ Words[g[2].version] = Words[h[2].version]
      <4> DEFINE a == Words[g[1].version]
                 b == Words[h[1].version]
                 x == Words[g[2].version]
                 y == Words[h[2].version]
                 t == "to"
      <4> HIDE DEF hops, a, b, x, y, t
      <4>1. Parted(a, t, x) = Parted(b, t, y)
        BY <3>6 DEF Parted, a, b, x, y, t
      <4>2. /\ IsSequence(a) /\ IsSequence(b) /\ IsSequence(x) /\ IsSequence(y)
            /\ t \notin ToSet(a) /\ t \notin ToSet(b)
        BY <3>7, <3>8 DEF a, b, x, y, t
      <4>3. a = b /\ x = y
        BY <4>1, <4>2, OneCut
      <4>4. QED  BY <4>3 DEF a, b, x, y
    <3>10. \A k \in 1..2 : Words[g[k].version] = Words[h[k].version]
      <4>1. \A k \in 1..2 : k = 1 \/ k = 2
        OBVIOUS
      <4>2. QED  BY <3>9, <4>1
    <3>11. QED  BY <3>2, <3>5, <3>10
  <2>10. ASSUME NEW a \in disk, "null" \notin ToSet(a.ir)
         PROVE  classifyArtifact(a, entries) = "clean"
    BY <1>1, <2>10, DiskIsClean DEF disk, files, entries
  <2> HIDE DEF hops, readApart, migrationPath
  <2>11. QED  BY <2>7, <2>9, <2>10 DEF sources, disk
<1>2. QED  BY <1>1, NumberedHolds, PTL
===============================================================================
