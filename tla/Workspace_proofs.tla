---------------------------- MODULE Workspace_proofs ----------------------------
(***************************************************************************)
(* Theorems about the commands over the workspace: for any files, imports, *)
(* texts and kinds of artifacts, any number of commands at a time, and any *)
(* edits, crashes and failed writes before and during them.                *)
(***************************************************************************)
EXTENDS WorkspaceProperties, WellFoundedInduction, TLAPS

Domains == /\ DOMAIN source = Files /\ DOMAIN artifact = Paths /\ DOMAIN migration = Files
           /\ DOMAIN proc = Procs

Fields == {"pc", "cmd", "pattern", "todo", "text", "modules", "entries", "failed", "read",
           "exit", "disturbed"}

(* What a command has in hand at each place of its code, disturbed or not. *)
IsFcn(f) == f = [x \in DOMAIN f |-> f[x]]
Sane(p) ==
  /\ DOMAIN proc[p] = Fields /\ IsFcn(proc[p].entries)
  /\ proc[p].pattern \subseteq Files /\ DOMAIN proc[p].entries \subseteq proc[p].pattern
  /\ proc[p].pc \in {"walk", "import"} =>
       proc[p].todo \subseteq proc[p].pattern /\ proc[p].read = {}
  /\ proc[p].pc = "import" => proc[p].todo # {}
  /\ proc[p].pc \in {"open", "write"} =>
       \/ /\ proc[p].cmd = "generate"
          /\ proc[p].todo # {} /\ proc[p].todo \subseteq (DOMAIN proc[p].entries) \X Kinds
       \/ /\ proc[p].cmd = "stub"
          /\ \A i \in {1, 2} : Knows(proc[p].entries, StubPair[i])
  /\ proc[p].pc = "read" =>
       \/ proc[p].cmd = "check" /\ proc[p].todo \subseteq Paths
       \/ proc[p].cmd = "verify" /\ proc[p].todo \subseteq Files
  /\ proc[p].cmd \in {"stub", "verify"} => proc[p].pattern = Files

HasArtifact  == {x \in Paths : artifact[x] # Absent}
HasMigration == {f \in Files : migration[f] # Absent}
ReadOf(x)    == [kind |-> x[2], content |-> artifact[x]]
HeaderOf(f)  == [file |-> f, header |-> migration[f]]

(* Of a command that is not disturbed, what it has in hand is what is on   *)
(* disk: what it imported, ...                                             *)
Imported(p) ==
  /\ \A g \in DOMAIN proc[p].modules : proc[p].modules[g] = source[g] /\ source[g] \in Loadable
  /\ \A f \in DOMAIN proc[p].entries :
       f \in Present(proc[p].pattern) /\ Loads(f) /\ proc[p].entries[f] = EntryNow(f)

(* ... the files it has still to walk and those that failed, ...           *)
Walks(p) == proc[p].pc \in {"walk", "import"} =>
  /\ proc[p].todo \subseteq Present(proc[p].pattern)
  /\ ~proc[p].failed => Present(proc[p].pattern) \subseteq proc[p].todo \cup DOMAIN proc[p].entries
  /\ proc[p].failed => \E f \in Present(proc[p].pattern) : ~Loads(f)
  /\ proc[p].pc = "import" => proc[p].text = source[NextFile(p)]
AfterWalk(p) == proc[p].pc \in {"open", "write", "read"} =>
  Present(proc[p].pattern) = DOMAIN proc[p].entries /\ Sound(proc[p].pattern)

(* ... what it has written, the path it found free, ...                    *)
Generated(p) == proc[p].pc \in {"open", "write"} /\ proc[p].cmd = "generate" =>
  \A f \in DOMAIN proc[p].entries, k \in Kinds :
    <<f, k>> \notin proc[p].todo => artifact[<<f, k>>] = Rendered(proc[p].entries[f])
Stubs(p) == proc[p].pc = "open" /\ proc[p].cmd = "stub" => migration[StubFile(p)] = Absent

(* ... and what it has read and has still to read.                         *)
Checked(p) == proc[p].pc = "read" /\ proc[p].cmd = "check" =>
  /\ DOMAIN proc[p].entries = {} => proc[p].todo = {} /\ proc[p].read = {}
  /\ DOMAIN proc[p].entries # {} =>
       /\ proc[p].todo \subseteq HasArtifact
       /\ proc[p].read = {ReadOf(x) : x \in HasArtifact \ proc[p].todo}
Verified(p) == proc[p].pc = "read" /\ proc[p].cmd = "verify" =>
  /\ proc[p].todo \subseteq HasMigration
  /\ proc[p].read = {HeaderOf(f) : f \in {g \in HasMigration \ proc[p].todo : migration[g] # Torn}}
  /\ proc[p].failed <=> \E f \in HasMigration \ proc[p].todo : migration[f] = Torn

Undisturbed(p) == Running(p) /\ ~proc[p].disturbed
Fresh(p) == /\ Imported(p) /\ Walks(p) /\ AfterWalk(p)
            /\ Generated(p) /\ Stubs(p) /\ Checked(p) /\ Verified(p)

WorkspaceInv ==
  /\ Domains
  /\ \A p \in Procs : Sane(p) /\ (Undisturbed(p) => Fresh(p))

-----------------------------------------------------------------------------
(* The next file, the next path *)

LEMMA LeastExists ==
  ASSUME NEW T \in SUBSET Nat, T # {}  PROVE \E m \in T : \A n \in T : m <= n
<1> DEFINE R == OpToRel(<, Nat)
<1>1. IsWellFoundedOn(R, Nat)
  BY NatLessThanWellFounded, Zenon
<1>2. \A x \in T, y \in T : y < x => <<y, x>> \in R
  BY DEF OpToRel
<1> HIDE DEF R
<1>3. \E x \in T : \A y \in T : ~ (<<y, x>> \in R)
  BY <1>1, WFMin
<1>4. \A x, y \in T : ~(y < x) => x <= y
  OBVIOUS
<1>5. QED  BY <1>2, <1>3, <1>4

LEMMA NextFileIn ==
  ASSUME NEW p, proc[p].todo \subseteq Files, proc[p].todo # {}
  PROVE  NextFile(p) \in proc[p].todo
<1>1. proc[p].todo \subseteq Nat
  BY WorkspaceConstants DEF Files
<1>2. \E f \in proc[p].todo : \A g \in proc[p].todo : f <= g
  BY <1>1, LeastExists
<1>3. QED  BY <1>2 DEF NextFile

LEMMA NextPathIn ==
  ASSUME NEW p, proc[p].todo \subseteq Paths, proc[p].todo # {}
  PROVE  NextPath(p) \in proc[p].todo
<1> DEFINE todo == proc[p].todo
           F    == {x[1] : x \in todo}
<1>1. Files \subseteq Nat /\ Kinds \subseteq Nat
  BY WorkspaceConstants DEF Files, Kinds
<1>2. \A x \in todo : x = <<x[1], x[2]>> /\ x[1] \in Nat /\ x[2] \in Nat
  BY <1>1 DEF Paths
<1>3. F \subseteq Nat /\ F # {}
  BY <1>2
<1>4. PICK f \in F : \A g \in F : f <= g
  BY <1>3, LeastExists
<1> DEFINE K == {x[2] : x \in {y \in todo : y[1] = f}}
<1>5. K \subseteq Nat /\ K # {}
  BY <1>2, <1>4
<1>6. PICK k \in K : \A l \in K : k <= l
  BY <1>5, LeastExists
<1>7. <<f, k>> \in todo
  BY <1>2
<1>8. ASSUME NEW y \in todo  PROVE f < y[1] \/ (f = y[1] /\ k <= y[2])
  <2>1. CASE y[1] = f
    BY <1>6, <2>1
  <2>2. CASE y[1] # f
    <3>1. y[1] \in F /\ f \in Nat /\ y[1] \in Nat
      BY <1>2, <1>3
    <3>2. QED  BY <1>4, <2>2, <3>1
  <2>3. QED  BY <2>1, <2>2
<1>9. \E x \in todo : \A y \in todo : x[1] < y[1] \/ (x[1] = y[1] /\ x[2] <= y[2])
  <2>1. <<f, k>>[1] = f /\ <<f, k>>[2] = k
    OBVIOUS
  <2>2. QED  BY <1>7, <1>8, <2>1
<1> HIDE DEF F, K
<1>10. QED  BY <1>9 DEF NextPath

-----------------------------------------------------------------------------
(* Who acts *)

OthersSame(p) ==
  /\ DOMAIN proc' = Procs /\ \A q \in Procs \ {p} : proc'[q] = proc[q]
  /\ UNCHANGED disk
OthersDisturbed(p) ==
  DOMAIN proc' = Procs /\ \A q \in Procs \ {p} : proc'[q] = Disturbed(q)

LEMMA ReadsFacts ==
  ASSUME Domains, NEW p \in Procs, NEW r, Reads(p, r)
  PROVE  proc'[p] = r /\ OthersSame(p) /\ Domains'
BY DEF Reads, OthersSame, Domains, disk

LEMMA WritesFacts ==
  ASSUME Domains, NEW p \in Procs, NEW r, Writes(p, r)
  PROVE  proc'[p] = r /\ OthersDisturbed(p)
BY DEF Writes, OthersDisturbed

LEMMA EndedFacts ==
  ASSUME NEW label, NEW code
  PROVE  /\ DOMAIN Ended(label, code) = Fields /\ Ended(label, code).pc = label
         /\ Ended(label, code).exit = code /\ Ended(label, code).cmd = "none"
         /\ Ended(label, code).pattern = {} /\ DOMAIN Ended(label, code).entries = {}
         /\ IsFcn(Ended(label, code).entries)
<1>1. IsFcn(<<>>)
  BY DEF IsFcn
<1>2. QED  BY <1>1 DEF Ended, Idle, Fields

(* A process that has ended, or is disturbed, has nothing to answer for.   *)
LEMMA OverIsSane ==
  ASSUME NEW p, NEW label \in {"done", "crashed"}, NEW code, proc[p] = Ended(label, code)
  PROVE  Sane(p) /\ ~Running(p)
BY EndedFacts DEF Sane, Running

LEMMA DisturbedIsSane ==
  ASSUME NEW p, Sane(p), proc'[p] = Disturbed(p)
  PROVE  Sane(p)' /\ ~Undisturbed(p)'
<1>1. CASE Running(p)
  <2>1. proc'[p] = [proc[p] EXCEPT !.disturbed = TRUE]
    BY <1>1 DEF Disturbed
  <2>2. /\ DOMAIN proc'[p] = Fields /\ proc'[p].disturbed = TRUE
        /\ proc'[p].pattern = proc[p].pattern /\ proc'[p].entries = proc[p].entries
        /\ proc'[p].pc = proc[p].pc /\ proc'[p].todo = proc[p].todo
        /\ proc'[p].cmd = proc[p].cmd /\ proc'[p].read = proc[p].read
    BY <2>1 DEF Sane, Fields
  <2>3. QED  BY <2>2 DEF Sane, Undisturbed
<1>2. CASE ~Running(p)
  <2>1. proc'[p] = proc[p]
    BY <1>2 DEF Disturbed
  <2>2. QED  BY <1>2, <2>1 DEF Sane, Undisturbed, Running
<1>3. QED  BY <1>1, <1>2

-----------------------------------------------------------------------------
(* The walk *)


LEMMA StartKeeps ==
  ASSUME Domains, NEW p \in Procs, NEW cmd \in Commands, NEW pattern \in Patterns,
         Start(p, cmd, pattern)
  PROVE  Sane(p)' /\ Fresh(p)' /\ proc'[p].pc = "walk" /\ OthersSame(p) /\ Domains'
<1> DEFINE r == proc'[p]
<1>1. /\ r = [Idle EXCEPT !.pc = "walk", !.cmd = cmd, !.pattern = pattern,
                          !.todo = {f \in pattern : source[f] # Absent}]
      /\ OthersSame(p) /\ Domains'
  BY ReadsFacts DEF Start
<1>2. /\ DOMAIN r = Fields /\ r.pc = "walk" /\ r.cmd = cmd /\ r.pattern = pattern
      /\ r.todo = {f \in pattern : source[f] # Absent}
      /\ r.modules = <<>> /\ r.entries = <<>> /\ r.failed = FALSE /\ r.read = {}
  BY <1>1 DEF Idle, Fields
<1>3. pattern \subseteq Files
  BY WorkspaceConstants
<1>4. source' = source /\ migration' = migration /\ artifact' = artifact
  BY <1>1 DEF OthersSame, disk
<1>5. cmd \in {"stub", "verify"} => pattern = Files
  BY DEF Start
<1> HIDE DEF r
<1>6. DOMAIN r.modules = {} /\ DOMAIN r.entries = {} /\ IsFcn(r.entries)
  BY <1>2 DEF IsFcn
<1>7. Sane(p)'
  BY <1>2, <1>3, <1>5, <1>6 DEF Sane, r
<1>8. Imported(p)' /\ Walks(p)'
  BY <1>2, <1>4, <1>6 DEF Imported, Walks, Present, r
<1>9. AfterWalk(p)' /\ Generated(p)' /\ Stubs(p)' /\ Checked(p)' /\ Verified(p)'
  BY <1>2 DEF AfterWalk, Generated, Stubs, Checked, Verified, r
<1>10. QED  BY <1>1, <1>2, <1>7, <1>8, <1>9 DEF Fresh, r

LEMMA FailedFacts ==
  ASSUME Domains, NEW p \in Procs, Sane(p), Reads(p, Failed(p))
  PROVE  /\ proc'[p].pc = "walk" /\ proc'[p].failed = TRUE
         /\ proc'[p].todo = proc[p].todo \ {NextFile(p)}
         /\ DOMAIN proc'[p] = Fields
         /\ proc'[p].cmd = proc[p].cmd /\ proc'[p].pattern = proc[p].pattern
         /\ proc'[p].modules = proc[p].modules /\ proc'[p].entries = proc[p].entries
         /\ proc'[p].disturbed = proc[p].disturbed /\ proc'[p].read = proc[p].read
<1>1. proc'[p] = Failed(p)
  BY ReadsFacts
<1>2. QED  BY <1>1 DEF Failed, Goto, Sane, Fields

(* A file that does not load fails the walk.                               *)
LEMMA FailedKeeps ==
  ASSUME Domains, NEW p \in Procs, Sane(p), Reads(p, Failed(p)), proc[p].todo # {},
         At(p, "walk") \/ At(p, "import"),
         Undisturbed(p) /\ Fresh(p) => ~Loads(NextFile(p)),
         Undisturbed(p) => Fresh(p)
  PROVE  Sane(p)' /\ (Undisturbed(p)' => Fresh(p)')
<1> DEFINE r == proc'[p]
<1>1. /\ r.pc = "walk" /\ r.failed = TRUE /\ r.todo = proc[p].todo \ {NextFile(p)}
      /\ DOMAIN r = Fields /\ r.cmd = proc[p].cmd /\ r.pattern = proc[p].pattern
      /\ r.modules = proc[p].modules /\ r.entries = proc[p].entries
      /\ r.disturbed = proc[p].disturbed /\ r.read = proc[p].read
  BY FailedFacts
<1>2. source' = source
  BY ReadsFacts DEF OthersSame, disk
<1>3. proc[p].todo \subseteq proc[p].pattern /\ proc[p].pattern \subseteq Files /\ proc[p].read = {}
  BY DEF Sane, At
<1>4. NextFile(p) \in proc[p].todo
  BY <1>3, NextFileIn
<1> HIDE DEF r
<1>5. Sane(p)'
  BY <1>1, <1>3 DEF Sane, r
<1>6. ASSUME Undisturbed(p)'  PROVE Fresh(p)'
  <2>1. Undisturbed(p)
    BY <1>1, <1>6 DEF Undisturbed, Running, At, r
  <2>2. Imported(p) /\ Walks(p) /\ ~Loads(NextFile(p))
    BY <2>1 DEF Fresh
  <2>3. NextFile(p) \in Present(proc[p].pattern)
    BY <1>4, <2>2 DEF Walks, At
  <2>4. Imported(p)'
    BY <1>1, <1>2, <2>2 DEF Imported, Present, Loads, EntryNow, r
  <2>5. Walks(p)'
    <3>1. r.todo \subseteq Present(r.pattern)
      BY <1>1, <2>2 DEF Walks, At
    <3>2. \E f \in Present(r.pattern) : ~Loads(f)
      BY <1>1, <2>2, <2>3
    <3>3. QED  BY <1>1, <1>2, <3>1, <3>2 DEF Walks, Present, Loads, r
  <2>6. AfterWalk(p)' /\ Generated(p)' /\ Stubs(p)' /\ Checked(p)' /\ Verified(p)'
    BY <1>1 DEF AfterWalk, Generated, Stubs, Checked, Verified, r
  <2>7. QED  BY <2>4, <2>5, <2>6 DEF Fresh
<1>7. QED  BY <1>5, <1>6

LEMMA ReadTextKeeps ==
  ASSUME Domains, NEW p \in Procs, Sane(p), ReadText(p), Undisturbed(p) => Fresh(p)
  PROVE  Sane(p)' /\ (Undisturbed(p)' => Fresh(p)') /\ OthersSame(p) /\ Domains'
<1> DEFINE r == proc'[p]
           f == NextFile(p)
<1>1. At(p, "walk") /\ proc[p].todo # {}
  BY DEF ReadText
<1>2. proc[p].todo \subseteq proc[p].pattern /\ proc[p].pattern \subseteq Files /\ proc[p].read = {}
  BY <1>1 DEF Sane, At
<1>3. f \in proc[p].todo
  BY <1>1, <1>2, NextFileIn
<1>4. CASE source[f] = Absent
  <2>1. Reads(p, Failed(p))
    BY <1>4 DEF ReadText
  <2>2. Absent \notin Loadable
    BY WorkspaceConstants
  <2>3. ~Loads(f)
    BY <1>4, <2>2 DEF Loads
  <2>4. QED  BY <1>1, <2>1, <2>3, FailedKeeps, ReadsFacts
<1>5. CASE source[f] # Absent
  <2>1. Reads(p, [Goto(p, "import") EXCEPT !.text = source[f]])
    BY <1>5 DEF ReadText
  <2>2. /\ r = [Goto(p, "import") EXCEPT !.text = source[f]]
        /\ OthersSame(p) /\ Domains'
    BY <2>1, ReadsFacts
  <2>3. /\ r.pc = "import" /\ r.text = source[f]
        /\ DOMAIN r = Fields /\ r.cmd = proc[p].cmd /\ r.pattern = proc[p].pattern
        /\ r.modules = proc[p].modules /\ r.entries = proc[p].entries
        /\ r.disturbed = proc[p].disturbed /\ r.todo = proc[p].todo
        /\ r.failed = proc[p].failed /\ r.read = proc[p].read
    BY <2>2 DEF Goto, Sane, Fields
  <2>4. source' = source
    BY <2>2 DEF OthersSame, disk
  <2>5. NextFile(p)' = f
    BY <2>3 DEF NextFile
  <2> HIDE DEF r, f
  <2>6. Sane(p)'
    BY <1>1, <1>2, <2>3 DEF Sane, r
  <2>7. ASSUME Undisturbed(p)'  PROVE Fresh(p)'
    <3>1. Undisturbed(p)
      BY <1>1, <2>3, <2>7 DEF Undisturbed, Running, At, r
    <3>2. Imported(p) /\ Walks(p)
      BY <3>1 DEF Fresh
    <3>3. Imported(p)'
      BY <2>3, <2>4, <3>2 DEF Imported, Present, Loads, EntryNow, r
    <3>4. Walks(p)'
      BY <1>1, <2>3, <2>4, <2>5, <3>2 DEF Walks, Present, Loads, At, r
    <3>5. AfterWalk(p)' /\ Generated(p)' /\ Stubs(p)' /\ Checked(p)' /\ Verified(p)'
      BY <2>3 DEF AfterWalk, Generated, Stubs, Checked, Verified, r
    <3>6. QED  BY <3>3, <3>4, <3>5 DEF Fresh
  <2>8. QED  BY <2>2, <2>6, <2>7
<1>6. QED  BY <1>4, <1>5

LEMMA ImportKeeps ==
  ASSUME Domains, NEW p \in Procs, Sane(p), Import(p), Undisturbed(p) => Fresh(p)
  PROVE  Sane(p)' /\ (Undisturbed(p)' => Fresh(p)') /\ OthersSame(p) /\ Domains'
<1> DEFINE r      == proc'[p]
           f      == NextFile(p)
           cached == DOMAIN proc[p].modules
           new    == ({f} \cup Imports[f]) \ cached
           mods   == [g \in cached \cup new |->
                        IF g \in cached THEN proc[p].modules[g] ELSE source[g]]
<1>1. At(p, "import") /\ proc[p].todo # {}
  BY DEF Import, Sane, At
<1>2. proc[p].todo \subseteq proc[p].pattern /\ proc[p].pattern \subseteq Files /\ proc[p].read = {}
  BY <1>1 DEF Sane, At
<1>3. f \in proc[p].todo /\ f \in Files
  BY <1>1, <1>2, NextFileIn
<1>4. CASE source[f] = Absent \/ \E g \in new : source[g] \notin Loadable
  <2>1. Reads(p, Failed(p))
    BY <1>4 DEF Import
  <2>2. Absent \notin Loadable
    BY WorkspaceConstants
  <2>3. ~Loads(f)
    BY <1>4, <2>2 DEF Loads
  <2>4. QED  BY <1>1, <2>1, <2>3, FailedKeeps, ReadsFacts
<1>5. CASE ~(source[f] = Absent \/ \E g \in new : source[g] \notin Loadable)
  <2>1. Reads(p, [Goto(p, "walk") EXCEPT
                   !.todo = @ \ {f}, !.text = Absent, !.modules = mods,
                   !.entries = [g \in DOMAIN @ \cup {f} |->
                                  IF g = f THEN EntryOf(f, proc[p].text, mods) ELSE @[g]]])
    BY <1>5 DEF Import
  <2>2. OthersSame(p) /\ Domains'
    BY <2>1, ReadsFacts
  <2>3. r = [Goto(p, "walk") EXCEPT
              !.todo = @ \ {f}, !.text = Absent, !.modules = mods,
              !.entries = [g \in DOMAIN @ \cup {f} |->
                             IF g = f THEN EntryOf(f, proc[p].text, mods) ELSE @[g]]]
    BY <2>1, ReadsFacts
  <2> HIDE DEF mods
  <2>4. /\ r.pc = "walk" /\ r.todo = proc[p].todo \ {f} /\ r.modules = mods
        /\ DOMAIN r = Fields /\ r.cmd = proc[p].cmd /\ r.pattern = proc[p].pattern
        /\ r.disturbed = proc[p].disturbed /\ r.failed = proc[p].failed /\ r.read = proc[p].read
        /\ r.entries = [g \in DOMAIN proc[p].entries \cup {f} |->
                          IF g = f THEN EntryOf(f, proc[p].text, mods) ELSE proc[p].entries[g]]
    BY <2>3 DEF Goto, Sane, Fields
  <2>5. /\ DOMAIN r.entries = DOMAIN proc[p].entries \cup {f}
        /\ r.entries[f] = EntryOf(f, proc[p].text, mods)
        /\ \A g \in DOMAIN proc[p].entries : g # f => r.entries[g] = proc[p].entries[g]
        /\ IsFcn(r.entries)
    BY <2>4 DEF IsFcn
  <2>6. source' = source
    BY <2>2 DEF OthersSame, disk
  <2> HIDE DEF r, f
  <2>7. Sane(p)'
    BY <1>2, <1>3, <2>4, <2>5 DEF Sane, r
  <2>8. ASSUME Undisturbed(p)'  PROVE Fresh(p)'
    <3>1. Undisturbed(p)
      BY <1>1, <2>4, <2>8 DEF Undisturbed, Running, At, r
    <3>2. Imported(p) /\ Walks(p)
      BY <3>1 DEF Fresh
    <3>3. f \in Present(proc[p].pattern) /\ proc[p].text = source[f]
      BY <1>1, <1>3, <3>2 DEF Walks, At, f
    <3>4. /\ DOMAIN mods = cached \cup new
          /\ \A g \in DOMAIN mods : mods[g] = source[g] /\ source[g] \in Loadable
      BY <1>5, <3>2 DEF Imported, mods
    <3>5. \A g \in {f} \cup Imports[f] : mods[g] = source[g] /\ source[g] \in Loadable
      BY <3>4
    <3>6. Loads(f)
      BY <3>5 DEF Loads
    <3>7. EntryOf(f, proc[p].text, mods) = EntryNow(f)
      <4>1. IrOf(f, mods) = IrOf(f, source)
        BY <3>5 DEF IrOf
      <4>2. mods[f] = source[f]
        BY <3>5
      <4>3. QED  BY <3>3, <4>1, <4>2 DEF EntryOf, EntryNow
    <3>8. Imported(p)'
      <4>1. \A g \in DOMAIN r.modules : r.modules[g] = source[g] /\ source[g] \in Loadable
        BY <2>4, <3>4
      <4>2. \A g \in DOMAIN r.entries :
              g \in Present(r.pattern) /\ Loads(g) /\ r.entries[g] = EntryNow(g)
        BY <2>4, <2>5, <3>2, <3>3, <3>6, <3>7 DEF Imported
      <4>3. QED  BY <2>6, <4>1, <4>2 DEF Imported, Present, Loads, EntryNow, r
    <3>9. Walks(p)'
      <4>1. /\ proc[p].todo \subseteq Present(proc[p].pattern)
            /\ ~proc[p].failed =>
                 Present(proc[p].pattern) \subseteq proc[p].todo \cup DOMAIN proc[p].entries
            /\ proc[p].failed => \E g \in Present(proc[p].pattern) : ~Loads(g)
        BY <1>1, <3>2 DEF Walks, At
      <4>2. /\ r.todo \subseteq Present(r.pattern)
            /\ ~r.failed => Present(r.pattern) \subseteq r.todo \cup DOMAIN r.entries
            /\ r.failed => \E g \in Present(r.pattern) : ~Loads(g)
        BY <2>4, <2>5, <4>1
      <4>3. QED  BY <2>4, <2>6, <4>2 DEF Walks, Present, Loads, r
    <3>10. AfterWalk(p)' /\ Generated(p)' /\ Stubs(p)' /\ Checked(p)' /\ Verified(p)'
      BY <2>4 DEF AfterWalk, Generated, Stubs, Checked, Verified, r
    <3>11. QED  BY <3>8, <3>9, <3>10 DEF Fresh
  <2>9. QED  BY <2>2, <2>7, <2>8
<1>6. QED  BY <1>4, <1>5

(* When an undisturbed walk is over, it has failed or found a schema twice *)
(* just if the sources are not sound, and its entries are what is there.   *)
LEMMA WalkIsOver ==
  ASSUME NEW p \in Procs, Sane(p), Undisturbed(p), Fresh(p), Walked(p)
  PROVE  /\ proc[p].failed => ~Sound(proc[p].pattern)
         /\ ~proc[p].failed =>
              /\ Present(proc[p].pattern) = DOMAIN proc[p].entries
              /\ HasDuplicate(proc[p].entries) <=> ~Sound(proc[p].pattern)
<1>1. Imported(p) /\ Walks(p) /\ proc[p].todo = {} /\ proc[p].pc = "walk"
  BY DEF Fresh, Walked, At
<1>2. proc[p].failed => ~Sound(proc[p].pattern)
  BY <1>1 DEF Walks, Sound
<1>3. ASSUME ~proc[p].failed
      PROVE  /\ Present(proc[p].pattern) = DOMAIN proc[p].entries
             /\ HasDuplicate(proc[p].entries) <=> ~Sound(proc[p].pattern)
  <2>1. Present(proc[p].pattern) = DOMAIN proc[p].entries
    BY <1>1, <1>3 DEF Walks, Imported
  <2>2. \A f \in Present(proc[p].pattern) : Loads(f) /\ proc[p].entries[f].name = NameNow(f)
    <3>1. \A f \in Files : EntryNow(f).name = NameNow(f)
      BY DEF EntryNow, EntryOf, NameNow
    <3>2. QED  BY <1>1, <2>1, <3>1 DEF Imported, Sane
  <2>3. QED  BY <2>1, <2>2 DEF HasDuplicate, Sound
<1>4. QED  BY <1>2, <1>3

-----------------------------------------------------------------------------
(* After the walk *)

Carries(p) ==
  /\ DOMAIN proc'[p] = Fields /\ proc'[p].cmd = proc[p].cmd
  /\ proc'[p].pattern = proc[p].pattern /\ proc'[p].entries = proc[p].entries
  /\ proc'[p].modules = proc[p].modules /\ proc'[p].disturbed = proc[p].disturbed

LEMMA ImportedStays ==
  ASSUME NEW p \in Procs, source' = source, Carries(p), Imported(p)  PROVE Imported(p)'
BY DEF Carries, Imported, Present, Loads, EntryNow

LEMMA SoundStays ==
  ASSUME NEW p \in Procs, source' = source, Carries(p),
         Present(proc[p].pattern) = DOMAIN proc[p].entries, Sound(proc[p].pattern)
  PROVE  AfterWalk(p)'
BY DEF Carries, AfterWalk, Present, Sound, Loads, NameNow

LEMMA ExitKeeps ==
  ASSUME Domains, NEW p \in Procs, NEW code, Reads(p, Exit(code))
  PROVE  Sane(p)' /\ ~Undisturbed(p)' /\ OthersSame(p) /\ Domains'
<1>1. proc'[p] = Ended("done", code) /\ OthersSame(p) /\ Domains'
  BY ReadsFacts DEF Exit
<1>2. /\ DOMAIN proc'[p] = Fields /\ proc'[p].pc = "done" /\ proc'[p].cmd = "none"
      /\ proc'[p].pattern = {} /\ DOMAIN proc'[p].entries = {} /\ IsFcn(proc'[p].entries)
  BY <1>1, EndedFacts
<1>3. QED  BY <1>1, <1>2 DEF Sane, Undisturbed, Running

LEMMA LoadedFacts ==
  ASSUME NEW p \in Procs, NEW cmd, Sane(p), Undisturbed(p), Fresh(p), Loaded(p, cmd)
  PROVE  /\ Present(proc[p].pattern) = DOMAIN proc[p].entries /\ Sound(proc[p].pattern)
         /\ Imported(p)
BY WalkIsOver DEF Loaded, Walked, Fresh

LEMMA PlanArtifactsKeeps ==
  ASSUME Domains, NEW p \in Procs, Sane(p), PlanArtifacts(p), Undisturbed(p) => Fresh(p)
  PROVE  Sane(p)' /\ (Undisturbed(p)' => Fresh(p)') /\ OthersSame(p) /\ Domains'
<1> DEFINE r       == proc'[p]
           planned == (DOMAIN proc[p].entries) \X Kinds
<1>1. Loaded(p, "generate") /\ proc[p].cmd = "generate" /\ proc[p].pc = "walk"
  BY DEF PlanArtifacts, Loaded, Walked, At
<1>2. CASE planned = {}
  <2>1. Reads(p, Exit(SUCCESS))
    BY <1>2 DEF PlanArtifacts
  <2>2. QED  BY <2>1, ExitKeeps
<1>3. CASE planned # {}
  <2>1. Reads(p, [Goto(p, "open") EXCEPT !.todo = planned])
    BY <1>3 DEF PlanArtifacts
  <2>2. r = [Goto(p, "open") EXCEPT !.todo = planned] /\ OthersSame(p) /\ Domains'
    BY <2>1, ReadsFacts
  <2>3. r.pc = "open" /\ r.todo = planned /\ Carries(p)
    BY <2>2 DEF Goto, Sane, Fields, Carries
  <2>4. source' = source
    BY <2>2 DEF OthersSame, disk
  <2> HIDE DEF r
  <2>5. Sane(p)'
    BY <1>1, <1>3, <2>3 DEF Sane, Carries, r
  <2>6. ASSUME Undisturbed(p)'  PROVE Fresh(p)'
    <3>1. Undisturbed(p)
      BY <1>1, <2>3, <2>6 DEF Undisturbed, Running, Carries, r
    <3>2. /\ Present(proc[p].pattern) = DOMAIN proc[p].entries /\ Sound(proc[p].pattern)
          /\ Imported(p)
      BY <1>1, <3>1, LoadedFacts
    <3>3. Imported(p)' /\ AfterWalk(p)'
      BY <2>3, <2>4, <3>2, ImportedStays, SoundStays
    <3>4. Generated(p)'
      BY <2>3 DEF Generated, Carries, r
    <3>5. Walks(p)' /\ Stubs(p)' /\ Checked(p)' /\ Verified(p)'
      BY <1>1, <2>3 DEF Walks, Stubs, Checked, Verified, Carries, r
    <3>6. QED  BY <3>3, <3>4, <3>5 DEF Fresh
  <2>7. QED  BY <2>2, <2>5, <2>6
<1>4. QED  BY <1>2, <1>3

LEMMA ListArtifactsKeeps ==
  ASSUME Domains, NEW p \in Procs, Sane(p), ListArtifacts(p), Undisturbed(p) => Fresh(p)
  PROVE  Sane(p)' /\ (Undisturbed(p)' => Fresh(p)') /\ OthersSame(p) /\ Domains'
<1> DEFINE r      == proc'[p]
           listed == IF proc[p].entries = <<>> THEN {} ELSE {x \in Paths : artifact[x] # Absent}
<1>1. Loaded(p, "check") /\ proc[p].cmd = "check" /\ proc[p].pc = "walk"
  BY DEF ListArtifacts, Loaded, Walked, At
<1>2. r = [Goto(p, "read") EXCEPT !.todo = listed] /\ OthersSame(p) /\ Domains'
  BY ReadsFacts DEF ListArtifacts
<1>3. r.pc = "read" /\ r.todo = listed /\ r.read = proc[p].read /\ Carries(p)
  BY <1>2 DEF Goto, Sane, Fields, Carries
<1>4. source' = source /\ artifact' = artifact
  BY <1>2 DEF OthersSame, disk
<1> HIDE DEF r
<1>5. listed \subseteq Paths
  OBVIOUS
<1>6. Sane(p)'
  BY <1>1, <1>3, <1>5 DEF Sane, Carries, r
<1>7. ASSUME Undisturbed(p)'  PROVE Fresh(p)'
  <2>1. Undisturbed(p)
    BY <1>1, <1>3, <1>7 DEF Undisturbed, Running, Carries, r
  <2>2. /\ Present(proc[p].pattern) = DOMAIN proc[p].entries /\ Sound(proc[p].pattern)
        /\ Imported(p)
    BY <1>1, <2>1, LoadedFacts
  <2>3. Imported(p)' /\ AfterWalk(p)'
    BY <1>3, <1>4, <2>2, ImportedStays, SoundStays
  <2>4. Checked(p)'
    <3>1. DOMAIN proc[p].entries = {} => listed = {}
      BY DEF Sane, IsFcn
    <3>2. DOMAIN proc[p].entries # {} => listed = HasArtifact
      BY DEF HasArtifact
    <3>3. proc[p].read = {}
      BY <1>1 DEF Sane
    <3>4. QED  BY <1>3, <1>4, <3>1, <3>2, <3>3 DEF Checked, Carries, HasArtifact, ReadOf, r
  <2>5. Walks(p)' /\ Generated(p)' /\ Stubs(p)' /\ Verified(p)'
    BY <1>1, <1>3 DEF Walks, Generated, Stubs, Verified, Carries, r
  <2>6. QED  BY <2>3, <2>4, <2>5 DEF Fresh
<1>8. QED  BY <1>2, <1>6, <1>7

(* generate *)

LEMMA NextArtifact ==
  ASSUME NEW p \in Procs, Sane(p), proc[p].cmd = "generate", proc[p].pc \in {"open", "write"}
  PROVE  /\ NextPath(p) \in proc[p].todo
         /\ NextPath(p) \in (DOMAIN proc[p].entries) \X Kinds /\ NextPath(p) \in Paths
         /\ NextPath(p)[1] \in proc[p].pattern
<1>1. /\ proc[p].todo # {} /\ proc[p].todo \subseteq (DOMAIN proc[p].entries) \X Kinds
      /\ DOMAIN proc[p].entries \subseteq proc[p].pattern /\ proc[p].pattern \subseteq Files
  BY DEF Sane
<1>2. proc[p].todo \subseteq Paths
  BY <1>1 DEF Paths
<1>3. NextPath(p) \in proc[p].todo
  BY <1>1, <1>2, NextPathIn
<1>4. QED  BY <1>1, <1>2, <1>3

LEMMA TruncateArtifactKeeps ==
  ASSUME Domains, NEW p \in Procs, Sane(p), TruncateArtifact(p), Undisturbed(p) => Fresh(p)
  PROVE  Sane(p)' /\ (Undisturbed(p)' => Fresh(p)') /\ OthersDisturbed(p) /\ Domains'
<1> DEFINE r == proc'[p]
<1>1. /\ proc[p].pc = "open" /\ proc[p].cmd = "generate" /\ source' = source
      /\ artifact' = [artifact EXCEPT ![NextPath(p)] = Torn] /\ migration' = migration
      /\ Writes(p, Goto(p, "write"))
  BY DEF TruncateArtifact, At
<1>2. r = Goto(p, "write") /\ OthersDisturbed(p)
  BY <1>1, WritesFacts
<1>3. r.pc = "write" /\ r.todo = proc[p].todo /\ Carries(p)
  BY <1>2 DEF Goto, Sane, Fields, Carries
<1> HIDE DEF r
<1>4. Domains'
  BY <1>1, <1>2 DEF Domains, OthersDisturbed
<1>5. Sane(p)'
  BY <1>1, <1>3 DEF Sane, Carries, r
<1>6. ASSUME Undisturbed(p)'  PROVE Fresh(p)'
  <2>1. Undisturbed(p)
    BY <1>1, <1>3, <1>6 DEF Undisturbed, Running, Carries, r
  <2>2. /\ Present(proc[p].pattern) = DOMAIN proc[p].entries /\ Sound(proc[p].pattern)
        /\ Imported(p) /\ Generated(p)
    BY <1>1, <2>1 DEF Fresh, AfterWalk
  <2>3. Imported(p)' /\ AfterWalk(p)'
    BY <1>1, <1>3, <2>2, ImportedStays, SoundStays
  <2>4. Generated(p)'
    <3>1. NextPath(p) \in proc[p].todo
      BY <1>1, NextArtifact
    <3>2. \A x \in Paths : x \notin proc[p].todo => artifact'[x] = artifact[x]
      BY <1>1, <3>1 DEF Domains
    <3>3. \A f \in DOMAIN proc[p].entries, k \in Kinds : <<f, k>> \in Paths
      BY DEF Sane, Paths
    <3>4. QED  BY <1>1, <1>3, <2>2, <3>2, <3>3 DEF Generated, Carries, r
  <2>5. Walks(p)' /\ Stubs(p)' /\ Checked(p)' /\ Verified(p)'
    BY <1>1, <1>3 DEF Walks, Stubs, Checked, Verified, Carries, r
  <2>6. QED  BY <2>3, <2>4, <2>5 DEF Fresh
<1>7. QED  BY <1>2, <1>4, <1>5, <1>6

LEMMA WriteExitKeeps ==
  ASSUME Domains, NEW p \in Procs, NEW label \in {"done", "crashed"}, NEW code,
         Writes(p, Ended(label, code)), source' = source,
         DOMAIN artifact' = Paths, DOMAIN migration' = Files
  PROVE  Sane(p)' /\ ~Undisturbed(p)' /\ OthersDisturbed(p) /\ Domains'
<1>1. proc'[p] = Ended(label, code) /\ OthersDisturbed(p)
  BY WritesFacts
<1>2. /\ DOMAIN proc'[p] = Fields /\ proc'[p].pc = label /\ proc'[p].cmd = "none"
      /\ proc'[p].pattern = {} /\ DOMAIN proc'[p].entries = {} /\ IsFcn(proc'[p].entries)
  BY <1>1, EndedFacts
<1>3. QED  BY <1>1, <1>2 DEF Sane, Undisturbed, Running, Domains, OthersDisturbed

LEMMA WriteArtifactKeeps ==
  ASSUME Domains, NEW p \in Procs, Sane(p), WriteArtifact(p), Undisturbed(p) => Fresh(p)
  PROVE  Sane(p)' /\ (Undisturbed(p)' => Fresh(p)') /\ OthersDisturbed(p) /\ Domains'
<1> DEFINE r    == proc'[p]
           x    == NextPath(p)
           rest == proc[p].todo \ {x}
           made == Rendered(proc[p].entries[x[1]])
<1>1. /\ proc[p].pc = "write" /\ proc[p].cmd = "generate" /\ source' = source
      /\ artifact' = [artifact EXCEPT ![x] = made] /\ migration' = migration
      /\ Writes(p, IF rest = {} THEN Exit(SUCCESS) ELSE [Goto(p, "open") EXCEPT !.todo = rest])
  BY DEF WriteArtifact, At
<1>2. DOMAIN artifact' = Paths /\ DOMAIN migration' = Files
  BY <1>1 DEF Domains
<1>3. CASE rest = {}
  <2>1. Writes(p, Ended("done", SUCCESS))
    BY <1>1, <1>3 DEF Exit
  <2>2. QED  BY <1>1, <1>2, <2>1, WriteExitKeeps
<1>4. CASE rest # {}
  <2>1. r = [Goto(p, "open") EXCEPT !.todo = rest] /\ OthersDisturbed(p)
    BY <1>1, <1>4, WritesFacts
  <2>2. r.pc = "open" /\ r.todo = rest /\ Carries(p)
    BY <2>1 DEF Goto, Sane, Fields, Carries
  <2> HIDE DEF r
  <2>3. Domains'
    BY <1>1, <1>2, <2>1 DEF Domains, OthersDisturbed
  <2>4. Sane(p)'
    BY <1>1, <1>4, <2>2 DEF Sane, Carries, r
  <2>5. ASSUME Undisturbed(p)'  PROVE Fresh(p)'
    <3>1. Undisturbed(p)
      BY <1>1, <2>2, <2>5 DEF Undisturbed, Running, Carries, r
    <3>2. /\ Present(proc[p].pattern) = DOMAIN proc[p].entries /\ Sound(proc[p].pattern)
          /\ Imported(p) /\ Generated(p)
      BY <1>1, <3>1 DEF Fresh, AfterWalk
    <3>3. Imported(p)' /\ AfterWalk(p)'
      BY <1>1, <2>2, <3>2, ImportedStays, SoundStays
    <3>4. Generated(p)'
      <4>1. x \in Paths
        BY <1>1, NextArtifact
      <4>2. artifact'[x] = made /\ \A y \in Paths : y # x => artifact'[y] = artifact[y]
        BY <1>1, <4>1 DEF Domains
      <4>3. SUFFICES ASSUME NEW f \in DOMAIN proc[p].entries, NEW k \in Kinds,
                            <<f, k>> \notin rest
                     PROVE  artifact'[<<f, k>>] = Rendered(proc[p].entries[f])
        BY <2>2 DEF Generated, Carries, r
      <4>4. <<f, k>> \in Paths
        BY DEF Sane, Paths
      <4>5. CASE <<f, k>> = x
        <5>1. x[1] = f
          BY <4>5
        <5>2. QED  BY <4>2, <4>5, <5>1
      <4>6. CASE <<f, k>> # x
        <5>1. <<f, k>> \notin proc[p].todo
          BY <4>3, <4>6
        <5>2. QED  BY <1>1, <3>2, <4>2, <4>4, <4>6, <5>1 DEF Generated
      <4>7. QED  BY <4>5, <4>6
    <3>5. Walks(p)' /\ Stubs(p)' /\ Checked(p)' /\ Verified(p)'
      BY <1>1, <2>2 DEF Walks, Stubs, Checked, Verified, Carries, r
    <3>6. QED  BY <3>3, <3>4, <3>5 DEF Fresh
  <2>6. QED  BY <2>1, <2>3, <2>4, <2>5
<1>5. QED  BY <1>3, <1>4

LEMMA CutShortKeeps ==
  ASSUME Domains, NEW p \in Procs, NEW label \in {"done", "crashed"}, NEW code,
         CutShort(p, Ended(label, code))
  PROVE  Sane(p)' /\ ~Undisturbed(p)' /\ OthersDisturbed(p) /\ Domains'
<1>1. /\ Writes(p, Ended(label, code)) /\ source' = source
      /\ DOMAIN artifact' = Paths /\ DOMAIN migration' = Files
  BY DEF CutShort, Domains
<1>2. QED  BY <1>1, WriteExitKeeps

LEMMA WriteThrowsKeeps ==
  ASSUME Domains, NEW p \in Procs, WriteThrows(p)
  PROVE  Sane(p)' /\ ~Undisturbed(p)' /\ OthersDisturbed(p) /\ Domains'
<1>1. \E code : CutShort(p, Ended("done", code))
  BY DEF WriteThrows, Exit
<1>2. QED  BY <1>1, CutShortKeeps

LEMMA CrashKeeps ==
  ASSUME Domains, NEW p \in Procs, Crash(p)
  PROVE  Sane(p)' /\ ~Undisturbed(p)' /\ OthersDisturbed(p) /\ Domains'
BY CutShortKeeps DEF Crash

(* check *)

LEMMA ReadArtifactKeeps ==
  ASSUME Domains, NEW p \in Procs, Sane(p), ReadArtifact(p), Undisturbed(p) => Fresh(p)
  PROVE  Sane(p)' /\ (Undisturbed(p)' => Fresh(p)') /\ OthersSame(p) /\ Domains'
<1> DEFINE r == proc'[p]
           x == NextPath(p)
<1>1. proc[p].pc = "read" /\ proc[p].cmd = "check" /\ proc[p].todo # {} /\ proc[p].todo \subseteq Paths
  BY DEF ReadArtifact, At, Sane
<1>2. x \in proc[p].todo
  BY <1>1, NextPathIn
<1>3. CASE artifact[x] = Absent
  <2>1. Reads(p, Exit(UNCAUGHT))
    BY <1>3 DEF ReadArtifact
  <2>2. QED  BY <2>1, ExitKeeps
<1>4. CASE artifact[x] # Absent
  <2>1. Reads(p, [proc[p] EXCEPT !.todo = @ \ {x},
                    !.read = @ \cup {[kind |-> x[2], content |-> artifact[x]]}])
    BY <1>4 DEF ReadArtifact
  <2>2. /\ r = [proc[p] EXCEPT !.todo = @ \ {x}, !.read = @ \cup {ReadOf(x)}]
        /\ OthersSame(p) /\ Domains'
    BY <2>1, ReadsFacts DEF ReadOf
  <2> HIDE DEF x
  <2>3. /\ r.pc = "read" /\ r.todo = proc[p].todo \ {x} /\ r.read = proc[p].read \cup {ReadOf(x)}
        /\ Carries(p)
    BY <1>1, <2>2 DEF Sane, Fields, Carries
  <2>4. source' = source /\ artifact' = artifact
    BY <2>2 DEF OthersSame, disk
  <2> HIDE DEF r
  <2>5. Sane(p)'
    BY <1>1, <2>3 DEF Sane, Carries, r
  <2>6. ASSUME Undisturbed(p)'  PROVE Fresh(p)'
    <3>1. Undisturbed(p)
      BY <1>1, <2>3, <2>6 DEF Undisturbed, Running, Carries, r
    <3>2. /\ Present(proc[p].pattern) = DOMAIN proc[p].entries /\ Sound(proc[p].pattern)
          /\ Imported(p) /\ Checked(p)
      BY <1>1, <3>1 DEF Fresh, AfterWalk
    <3>3. Imported(p)' /\ AfterWalk(p)'
      BY <2>3, <2>4, <3>2, ImportedStays, SoundStays
    <3>4. /\ DOMAIN proc[p].entries # {} /\ proc[p].todo \subseteq HasArtifact
          /\ proc[p].read = {ReadOf(y) : y \in HasArtifact \ proc[p].todo}
      BY <1>1, <3>2 DEF Checked
    <3>5. r.todo \subseteq HasArtifact /\ r.read = {ReadOf(y) : y \in HasArtifact \ r.todo}
      <4>1. HasArtifact \ r.todo = (HasArtifact \ proc[p].todo) \cup {x}
        BY <1>2, <2>3, <3>4
      <4>2. QED  BY <2>3, <3>4, <4>1
    <3>6. HasArtifact' = HasArtifact /\ \A y : ReadOf(y)' = ReadOf(y)
      BY <2>4 DEF HasArtifact, ReadOf
    <3>7. Checked(p)'
      BY <2>3, <3>4, <3>5, <3>6 DEF Checked, Carries, r
    <3>8. Walks(p)' /\ Generated(p)' /\ Stubs(p)' /\ Verified(p)'
      BY <1>1, <2>3 DEF Walks, Generated, Stubs, Verified, Carries, r
    <3>9. QED  BY <3>3, <3>7, <3>8 DEF Fresh
  <2>7. QED  BY <2>2, <2>5, <2>6
<1>5. QED  BY <1>3, <1>4

(* migrate stub *)

LEMMA PlanStubKeeps ==
  ASSUME Domains, NEW p \in Procs, Sane(p), PlanStub(p), Undisturbed(p) => Fresh(p)
  PROVE  Sane(p)' /\ (Undisturbed(p)' => Fresh(p)') /\ OthersSame(p) /\ Domains'
<1> DEFINE r == proc'[p]
           refused == \/ \E i \in {1, 2} : ~Knows(proc[p].entries, StubPair[i])
                      \/ migration[StubFile(p)] # Absent
<1>1. Loaded(p, "stub") /\ proc[p].cmd = "stub" /\ proc[p].pc = "walk"
  BY DEF PlanStub, Loaded, Walked, At
<1>2. CASE refused
  <2>1. Reads(p, Exit(LOGICAL_FAILURE))
    BY <1>2 DEF PlanStub
  <2>2. QED  BY <2>1, ExitKeeps
<1>3. CASE ~refused
  <2>1. r = Goto(p, "open") /\ OthersSame(p) /\ Domains'
    BY <1>3, ReadsFacts DEF PlanStub
  <2>2. r.pc = "open" /\ Carries(p)
    BY <2>1 DEF Goto, Sane, Fields, Carries
  <2>3. source' = source /\ migration' = migration
    BY <2>1 DEF OthersSame, disk
  <2> HIDE DEF r
  <2>4. Sane(p)'
    BY <1>1, <1>3, <2>2 DEF Sane, Carries, r, Knows
  <2>5. ASSUME Undisturbed(p)'  PROVE Fresh(p)'
    <3>1. Undisturbed(p)
      BY <1>1, <2>2, <2>5 DEF Undisturbed, Running, Carries, r
    <3>2. /\ Present(proc[p].pattern) = DOMAIN proc[p].entries /\ Sound(proc[p].pattern)
          /\ Imported(p)
      BY <1>1, <3>1, LoadedFacts
    <3>3. Imported(p)' /\ AfterWalk(p)'
      BY <2>2, <2>3, <3>2, ImportedStays, SoundStays
    <3>4. Stubs(p)'
      BY <1>3, <2>2, <2>3 DEF Stubs, StubFile, Carries, r
    <3>5. Walks(p)' /\ Generated(p)' /\ Checked(p)' /\ Verified(p)'
      BY <1>1, <2>2 DEF Walks, Generated, Checked, Verified, Carries, r
    <3>6. QED  BY <3>3, <3>4, <3>5 DEF Fresh
  <2>6. QED  BY <2>1, <2>4, <2>5
<1>4. QED  BY <1>2, <1>3

LEMMA TruncateMigrationKeeps ==
  ASSUME Domains, NEW p \in Procs, Sane(p), TruncateMigration(p), Undisturbed(p) => Fresh(p)
  PROVE  Sane(p)' /\ (Undisturbed(p)' => Fresh(p)') /\ OthersDisturbed(p) /\ Domains'
<1> DEFINE r == proc'[p]
<1>1. /\ proc[p].pc = "open" /\ proc[p].cmd = "stub" /\ source' = source
      /\ artifact' = artifact /\ DOMAIN migration' = Files
      /\ Writes(p, Goto(p, "write"))
  BY DEF TruncateMigration, At, Domains
<1>2. r = Goto(p, "write") /\ OthersDisturbed(p)
  BY <1>1, WritesFacts
<1>3. r.pc = "write" /\ Carries(p)
  BY <1>2 DEF Goto, Sane, Fields, Carries
<1> HIDE DEF r
<1>4. Domains'
  BY <1>1, <1>2 DEF Domains, OthersDisturbed
<1>5. Sane(p)'
  BY <1>1, <1>3 DEF Sane, Carries, r, Knows
<1>6. ASSUME Undisturbed(p)'  PROVE Fresh(p)'
  <2>1. Undisturbed(p)
    BY <1>1, <1>3, <1>6 DEF Undisturbed, Running, Carries, r
  <2>2. /\ Present(proc[p].pattern) = DOMAIN proc[p].entries /\ Sound(proc[p].pattern)
        /\ Imported(p)
    BY <1>1, <2>1 DEF Fresh, AfterWalk
  <2>3. Imported(p)' /\ AfterWalk(p)'
    BY <1>1, <1>3, <2>2, ImportedStays, SoundStays
  <2>4. Walks(p)' /\ Generated(p)' /\ Stubs(p)' /\ Checked(p)' /\ Verified(p)'
    BY <1>1, <1>3 DEF Walks, Generated, Stubs, Checked, Verified, Carries, r
  <2>5. QED  BY <2>3, <2>4 DEF Fresh
<1>7. QED  BY <1>2, <1>4, <1>5, <1>6

LEMMA WriteMigrationKeeps ==
  ASSUME Domains, NEW p \in Procs, WriteMigration(p)
  PROVE  Sane(p)' /\ ~Undisturbed(p)' /\ OthersDisturbed(p) /\ Domains'
<1>1. /\ Writes(p, Ended("done", SUCCESS)) /\ source' = source
      /\ DOMAIN artifact' = Paths /\ DOMAIN migration' = Files
  BY DEF WriteMigration, Exit, Domains
<1>2. QED  BY <1>1, WriteExitKeeps

(* migrate verify *)

LEMMA ListMigrationsKeeps ==
  ASSUME Domains, NEW p \in Procs, Sane(p), ListMigrations(p), Undisturbed(p) => Fresh(p)
  PROVE  Sane(p)' /\ (Undisturbed(p)' => Fresh(p)') /\ OthersSame(p) /\ Domains'
<1> DEFINE r == proc'[p]
<1>1. /\ Loaded(p, "verify") /\ proc[p].cmd = "verify" /\ proc[p].pc = "walk"
      /\ ~proc[p].failed /\ proc[p].read = {}
  BY DEF ListMigrations, Loaded, Walked, At, Sane
<1>2. r = [Goto(p, "read") EXCEPT !.todo = HasMigration] /\ OthersSame(p) /\ Domains'
  BY ReadsFacts DEF ListMigrations, HasMigration
<1>3. /\ r.pc = "read" /\ r.todo = HasMigration /\ r.read = proc[p].read
      /\ r.failed = proc[p].failed /\ Carries(p)
  BY <1>2 DEF Goto, Sane, Fields, Carries
<1>4. source' = source /\ migration' = migration
  BY <1>2 DEF OthersSame, disk
<1> HIDE DEF r
<1>5. Sane(p)'
  BY <1>1, <1>3 DEF Sane, Carries, HasMigration, r
<1>6. ASSUME Undisturbed(p)'  PROVE Fresh(p)'
  <2>1. Undisturbed(p)
    BY <1>1, <1>3, <1>6 DEF Undisturbed, Running, Carries, r
  <2>2. /\ Present(proc[p].pattern) = DOMAIN proc[p].entries /\ Sound(proc[p].pattern)
        /\ Imported(p)
    BY <1>1, <2>1, LoadedFacts
  <2>3. Imported(p)' /\ AfterWalk(p)'
    BY <1>3, <1>4, <2>2, ImportedStays, SoundStays
  <2>4. Verified(p)'
    <3>1. HasMigration' = HasMigration /\ r.todo = HasMigration /\ r.read = {} /\ ~r.failed
      BY <1>1, <1>3, <1>4 DEF HasMigration
    <3>2. QED  BY <3>1 DEF Verified, r
  <2>5. Walks(p)' /\ Generated(p)' /\ Stubs(p)' /\ Checked(p)'
    BY <1>1, <1>3 DEF Walks, Generated, Stubs, Checked, Carries, r
  <2>6. QED  BY <2>3, <2>4, <2>5 DEF Fresh
<1>7. QED  BY <1>2, <1>5, <1>6

LEMMA ReadMigrationKeeps ==
  ASSUME Domains, NEW p \in Procs, Sane(p), ReadMigration(p), Undisturbed(p) => Fresh(p)
  PROVE  Sane(p)' /\ (Undisturbed(p)' => Fresh(p)') /\ OthersSame(p) /\ Domains'
<1> DEFINE r     == proc'[p]
           f     == NextFile(p)
           loads == migration[f] \notin {Absent, Torn}
<1>1. proc[p].pc = "read" /\ proc[p].cmd = "verify" /\ proc[p].todo # {} /\ proc[p].todo \subseteq Files
  BY DEF ReadMigration, At, Sane
<1>2. f \in proc[p].todo
  BY <1>1, NextFileIn
<1>3. /\ r = [proc[p] EXCEPT !.todo = @ \ {f}, !.failed = @ \/ ~loads,
                !.read = IF loads THEN @ \cup {HeaderOf(f)} ELSE @]
      /\ OthersSame(p) /\ Domains'
  BY ReadsFacts DEF ReadMigration, HeaderOf
<1>4. /\ r.pc = "read" /\ r.todo = proc[p].todo \ {f}
      /\ r.failed <=> (proc[p].failed \/ ~loads)
      /\ r.read = IF loads THEN proc[p].read \cup {HeaderOf(f)} ELSE proc[p].read
      /\ Carries(p)
  <2> HIDE DEF loads, f
  <2>1. QED  BY <1>1, <1>3 DEF Sane, Fields, Carries
<1>5. source' = source /\ migration' = migration
  BY <1>3 DEF OthersSame, disk
<1> HIDE DEF r, f
<1>6. Sane(p)'
  BY <1>1, <1>4 DEF Sane, Carries, r
<1>7. ASSUME Undisturbed(p)'  PROVE Fresh(p)'
  <2>1. Undisturbed(p)
    BY <1>1, <1>4, <1>7 DEF Undisturbed, Running, Carries, r
  <2>2. /\ Present(proc[p].pattern) = DOMAIN proc[p].entries /\ Sound(proc[p].pattern)
        /\ Imported(p) /\ Verified(p)
    BY <1>1, <2>1 DEF Fresh, AfterWalk
  <2>3. Imported(p)' /\ AfterWalk(p)'
    BY <1>4, <1>5, <2>2, ImportedStays, SoundStays
  <2>4. /\ proc[p].todo \subseteq HasMigration
        /\ proc[p].read =
             {HeaderOf(h) : h \in {g \in HasMigration \ proc[p].todo : migration[g] # Torn}}
        /\ proc[p].failed <=> \E h \in HasMigration \ proc[p].todo : migration[h] = Torn
    BY <1>1, <2>2 DEF Verified
  <2>5. HasMigration \ r.todo = (HasMigration \ proc[p].todo) \cup {f} /\ migration[f] # Absent
    BY <1>2, <1>4, <2>4 DEF HasMigration
  <2>6. r.read = {HeaderOf(h) : h \in {g \in HasMigration \ r.todo : migration[g] # Torn}}
    BY <1>4, <2>4, <2>5
  <2>7. r.failed <=> \E h \in HasMigration \ r.todo : migration[h] = Torn
    BY <1>4, <2>4, <2>5
  <2>8. Verified(p)'
    <3>1. HasMigration' = HasMigration /\ r.todo \subseteq HasMigration
      BY <1>4, <1>5, <2>4 DEF HasMigration
    <3>2. QED  BY <1>4, <1>5, <2>6, <2>7, <3>1 DEF Verified, HeaderOf, r
  <2>9. Walks(p)' /\ Generated(p)' /\ Stubs(p)' /\ Checked(p)'
    BY <1>1, <1>4 DEF Walks, Generated, Stubs, Checked, Carries, r
  <2>10. QED  BY <2>3, <2>8, <2>9 DEF Fresh
<1>8. QED  BY <1>3, <1>6, <1>7

-----------------------------------------------------------------------------
(* The invariant *)

LEMMA WorkspaceInit == Init => WorkspaceInv
<1> SUFFICES ASSUME Init  PROVE WorkspaceInv
  OBVIOUS
<1>1. Domains
  BY WorkspaceConstants DEF Init, CheckedOut, Domains
<1>2. ASSUME NEW p \in Procs  PROVE Sane(p) /\ ~Undisturbed(p)
  <2>1. proc[p] = Idle
    BY DEF Init
  <2>2. /\ DOMAIN Idle = Fields /\ Idle.pc = "idle" /\ Idle.cmd = "none" /\ Idle.pattern = {}
        /\ DOMAIN Idle.entries = {} /\ IsFcn(Idle.entries)
    BY DEF Idle, Fields, IsFcn
  <2>3. QED  BY <2>1, <2>2 DEF Sane, Undisturbed, Running
<1>3. QED  BY <1>1, <1>2 DEF WorkspaceInv

LEMMA SameKeeps ==
  ASSUME NEW q, proc'[q] = proc[q], UNCHANGED disk, Sane(q), Undisturbed(q) => Fresh(q)
  PROVE  Sane(q)' /\ (Undisturbed(q)' => Fresh(q)')
<1>1. source' = source /\ artifact' = artifact /\ migration' = migration
  BY DEF disk
<1>2. Sane(q)' /\ (Undisturbed(q)' <=> Undisturbed(q))
  BY DEF Sane, Undisturbed, Running
<1>3. ASSUME Fresh(q)  PROVE Fresh(q)'
  <2>1. Imported(q)' /\ AfterWalk(q)'
    BY <1>1, <1>3
    DEF Fresh, Imported, AfterWalk, Present, Loads, EntryNow, Sound, NameNow
  <2>2. Walks(q)'
    BY <1>1, <1>3 DEF Fresh, Walks, Present, Loads, NextFile
  <2>3. Generated(q)' /\ Stubs(q)'
    BY <1>1, <1>3 DEF Fresh, Generated, Stubs, StubFile
  <2>4. Checked(q)' /\ Verified(q)'
    BY <1>1, <1>3 DEF Fresh, Checked, Verified, HasArtifact, HasMigration, ReadOf, HeaderOf
  <2>5. QED  BY <2>1, <2>2, <2>3, <2>4 DEF Fresh
<1>4. QED  BY <1>2, <1>3

LEMMA StepCases ==
  ASSUME WorkspaceInv, NEW p \in Procs, Step(p)
  PROVE  /\ Sane(p)' /\ (Undisturbed(p)' => Fresh(p)')
         /\ OthersSame(p) \/ OthersDisturbed(p)
         /\ Domains'
<1>1. Domains /\ Sane(p) /\ (Undisturbed(p) => Fresh(p))
  BY DEF WorkspaceInv
<1>2. CASE \E cmd \in Commands, pattern \in Patterns : Start(p, cmd, pattern)
  BY <1>1, <1>2, StartKeeps
<1>3. CASE ReadText(p) \/ Import(p)
  BY <1>1, <1>3, ReadTextKeeps, ImportKeeps
<1>4. CASE WalkFailed(p) \/ RegistryRefused(p) \/ GiveVerdicts(p) \/ VerifyMigrations(p)
  <2>1. \E code : Reads(p, Exit(code))
    BY <1>4 DEF WalkFailed, RegistryRefused, GiveVerdicts, VerifyMigrations
  <2>2. QED  BY <1>1, <2>1, ExitKeeps
<1>5. CASE PlanArtifacts(p) \/ TruncateArtifact(p) \/ WriteArtifact(p)
  BY <1>1, <1>5, PlanArtifactsKeeps, TruncateArtifactKeeps, WriteArtifactKeeps
<1>6. CASE ListArtifacts(p) \/ ReadArtifact(p)
  BY <1>1, <1>6, ListArtifactsKeeps, ReadArtifactKeeps
<1>7. CASE PlanStub(p) \/ TruncateMigration(p)
  BY <1>1, <1>7, PlanStubKeeps, TruncateMigrationKeeps
<1>8. CASE WriteMigration(p) \/ WriteThrows(p) \/ Crash(p)
  BY <1>1, <1>8, WriteMigrationKeeps, WriteThrowsKeeps, CrashKeeps
<1>9. CASE ListMigrations(p) \/ ReadMigration(p)
  BY <1>1, <1>9, ListMigrationsKeeps, ReadMigrationKeeps
<1>10. QED  BY <1>2, <1>3, <1>4, <1>5, <1>6, <1>7, <1>8, <1>9 DEF Step

LEMMA WorkspaceNext == WorkspaceInv /\ [Next]_vars => WorkspaceInv'
<1> SUFFICES ASSUME WorkspaceInv, [Next]_vars  PROVE WorkspaceInv'
  OBVIOUS
<1>1. Domains /\ \A p \in Procs : Sane(p) /\ (Undisturbed(p) => Fresh(p))
  BY DEF WorkspaceInv
<1>2. CASE Author
  <2>1. proc' = [q \in Procs |-> Disturbed(q)]
    BY <1>2 DEF Author, AuthorActs, EditSource, RemoveArtifact, EditMigration
  <2>2. \A p \in Procs : Sane(p)' /\ ~Undisturbed(p)'
    BY <1>1, <2>1, DisturbedIsSane
  <2>3. Domains'
    BY <1>1, <1>2, <2>1 DEF Author, EditSource, RemoveArtifact, EditMigration, Domains
  <2>4. QED  BY <2>2, <2>3 DEF WorkspaceInv
<1>3. ASSUME NEW p \in Procs, Step(p)  PROVE WorkspaceInv'
  <2>1. /\ Sane(p)' /\ (Undisturbed(p)' => Fresh(p)')
        /\ OthersSame(p) \/ OthersDisturbed(p)
        /\ Domains'
    BY <1>3, StepCases
  <2>2. ASSUME NEW q \in Procs \ {p}  PROVE Sane(q)' /\ (Undisturbed(q)' => Fresh(q)')
    <3>1. CASE OthersSame(p)
      BY <1>1, <3>1, SameKeeps DEF OthersSame
    <3>2. CASE OthersDisturbed(p)
      BY <1>1, <3>2, DisturbedIsSane DEF OthersDisturbed
    <3>3. QED  BY <2>1, <3>1, <3>2
  <2>3. \A q \in Procs : Sane(q)' /\ (Undisturbed(q)' => Fresh(q)')
    BY <2>1, <2>2
  <2>4. QED  BY <2>1, <2>3 DEF WorkspaceInv
<1>4. CASE UNCHANGED vars
  <2>1. UNCHANGED disk /\ proc' = proc
    BY <1>4 DEF vars, disk
  <2>2. Domains'
    BY <1>1, <2>1 DEF Domains, disk
  <2>3. \A q \in Procs : Sane(q)' /\ (Undisturbed(q)' => Fresh(q)')
    BY <1>1, <2>1, SameKeeps
  <2>4. QED  BY <2>2, <2>3 DEF WorkspaceInv
<1>5. QED  BY <1>2, <1>3, <1>4 DEF Next

LEMMA WorkspaceCorrect == Spec => []WorkspaceInv
BY WorkspaceInit, WorkspaceNext, PTL DEF Spec

(* A process whose place in the code changes is the one that acts.         *)
LEMMA WhoMoves ==
  ASSUME WorkspaceInv, Next, NEW p \in Procs, Moves(p)
  PROVE  Step(p)
<1>1. ASSUME proc'[p] = Disturbed(p)  PROVE FALSE
  BY <1>1 DEF Disturbed, Moves, WorkspaceInv, Sane, Fields
<1>2. CASE Author
  BY <1>1, <1>2 DEF Author, AuthorActs, EditSource, RemoveArtifact, EditMigration
<1>3. ASSUME NEW q \in Procs, Step(q)  PROVE q = p
  <2>1. SUFFICES ASSUME q # p  PROVE FALSE
    OBVIOUS
  <2>2. proc'[p] = proc[p] \/ proc'[p] = Disturbed(p)
    BY <1>3, <2>1, StepCases DEF OthersSame, OthersDisturbed
  <2>3. QED  BY <1>1, <2>2 DEF Moves
<1>4. QED  BY <1>2, <1>3 DEF Next

(* How a command ends.                                                     *)
LEMMA ExitIs ==
  ASSUME WorkspaceInv, NEW p \in Procs, NEW code, Reads(p, Exit(code)) \/ Writes(p, Exit(code))
  PROVE  proc'[p].exit = code
<1>1. proc'[p] = Ended("done", code)
  BY ReadsFacts, WritesFacts DEF WorkspaceInv, Exit
<1>2. QED  BY <1>1, EndedFacts

LEMMA HowItEnds ==
  ASSUME WorkspaceInv, Next, NEW p \in Procs, ~At(p, "done"), At(p, "done")'
  PROVE  /\ Running(p) /\ Step(p)
         /\ \/ WalkFailed(p) \/ RegistryRefused(p)
            \/ PlanArtifacts(p) \/ WriteArtifact(p)
            \/ ReadArtifact(p) /\ artifact[NextPath(p)] = Absent
            \/ GiveVerdicts(p)
            \/ PlanStub(p) /\ proc'[p].exit = LOGICAL_FAILURE
            \/ WriteMigration(p) \/ VerifyMigrations(p)
            \/ WriteThrows(p) /\ proc'[p].exit # SUCCESS
<1>1. Step(p)
  BY WhoMoves DEF At, Moves
<1>2. Domains /\ DOMAIN proc[p] = Fields
  BY DEF WorkspaceInv, Sane
<1>3. proc'[p].pc = "done" /\ proc[p].pc # "done"
  BY DEF At
<1>4. ASSUME NEW r, Reads(p, r) \/ Writes(p, r), r.pc # "done"  PROVE FALSE
  BY <1>2, <1>3, <1>4, ReadsFacts, WritesFacts
<1>5. \A label : Goto(p, label).pc = label /\ DOMAIN Goto(p, label) = Fields
  BY <1>2 DEF Goto, Fields
<1>6. ~\E cmd \in Commands, pattern \in Patterns : Start(p, cmd, pattern)
  BY <1>2, <1>3, StartKeeps
<1>7. Running(p)
  BY <1>1, <1>3, <1>6
  DEF Step, Running, At, ReadText, Import, WalkFailed, RegistryRefused, Walked, Loaded,
      PlanArtifacts, TruncateArtifact, WriteArtifact, ListArtifacts, ReadArtifact, GiveVerdicts,
      PlanStub, TruncateMigration, WriteMigration, ListMigrations, ReadMigration,
      VerifyMigrations, WriteThrows, Crash
<1>8. ASSUME ReadText(p) \/ Import(p)  PROVE FALSE
  <2>1. Failed(p).pc = "walk"
    BY <1>2, <1>5 DEF Failed, Fields
  <2>2. \A text : [Goto(p, "import") EXCEPT !.text = text].pc = "import"
    BY <1>5 DEF Fields
  <2>3. ~ReadText(p)
    BY <1>4, <2>1, <2>2 DEF ReadText
  <2>4. Import(p)
    BY <1>8, <2>3
  <2>5. ~Reads(p, Failed(p))
    BY <1>4, <2>1
  <2>6. \E todo, mods, entries :
          Reads(p, [Goto(p, "walk") EXCEPT !.todo = todo, !.text = Absent,
                                           !.modules = mods, !.entries = entries])
    BY <2>4, <2>5, <1>5 DEF Import
  <2>7. \A todo, mods, entries :
          [Goto(p, "walk") EXCEPT !.todo = todo, !.text = Absent,
                                  !.modules = mods, !.entries = entries].pc = "walk"
    BY <1>5 DEF Fields
  <2>8. QED  BY <1>4, <2>6, <2>7
<1>9. ~TruncateArtifact(p) /\ ~TruncateMigration(p)
  BY <1>4, <1>5 DEF TruncateArtifact, TruncateMigration
<1>10. ~ListArtifacts(p) /\ ~ListMigrations(p)
  <2>1. \A todo : [Goto(p, "read") EXCEPT !.todo = todo].pc = "read"
    BY <1>5 DEF Fields
  <2>2. QED  BY <1>4, <2>1 DEF ListArtifacts, ListMigrations
<1>11. ASSUME ReadArtifact(p)  PROVE artifact[NextPath(p)] = Absent
  <2>1. SUFFICES ASSUME artifact[NextPath(p)] # Absent  PROVE FALSE
    OBVIOUS
  <2> DEFINE x    == NextPath(p)
             next == [proc[p] EXCEPT !.todo = @ \ {x},
                        !.read = @ \cup {[kind |-> x[2], content |-> artifact[x]]}]
  <2>2. Reads(p, next)
    BY <1>11, <2>1 DEF ReadArtifact
  <2>3. next.pc = proc[p].pc
    BY <1>2 DEF Fields
  <2> HIDE DEF next
  <2>4. QED  BY <1>3, <1>4, <2>2, <2>3
<1>12. ~ReadMigration(p)
  <2>1. SUFFICES ASSUME ReadMigration(p)  PROVE FALSE
    OBVIOUS
  <2> DEFINE f     == NextFile(p)
             loads == migration[f] \notin {Absent, Torn}
             next  == [proc[p] EXCEPT !.todo = @ \ {f}, !.failed = @ \/ ~loads,
                         !.read = IF loads THEN @ \cup {HeaderOf(f)} ELSE @]
  <2>2. Reads(p, next)
    BY <2>1 DEF ReadMigration, HeaderOf
  <2>3. next.pc = proc[p].pc
    BY <1>2 DEF Fields
  <2> HIDE DEF next
  <2>4. QED  BY <1>3, <1>4, <2>2, <2>3
<1>13. ASSUME PlanStub(p)  PROVE proc'[p].exit = LOGICAL_FAILURE
  <2>1. Reads(p, Exit(LOGICAL_FAILURE))
    BY <1>4, <1>5, <1>13 DEF PlanStub
  <2>2. QED  BY <2>1, ExitIs
<1>14. ASSUME WriteThrows(p)  PROVE proc'[p].exit # SUCCESS
  <2>1. Writes(p, Exit(UNCAUGHT)) \/ Writes(p, Exit(IO_ERROR))
    BY <1>14 DEF WriteThrows, CutShort
  <2>2. QED  BY <2>1, ExitIs DEF UNCAUGHT, IO_ERROR, SUCCESS
<1>15. ~Crash(p)
  <2>1. Ended("crashed", SUCCESS).pc = "crashed"
    BY EndedFacts
  <2>2. QED  BY <1>4, <2>1 DEF Crash, CutShort
<1>16. QED  BY <1>1, <1>6, <1>7, <1>8, <1>9, <1>10, <1>11, <1>12, <1>13, <1>14, <1>15 DEF Step

(* An undisturbed command that ends before it did anything ends for what   *)
(* is wrong with the sources.                                              *)
LEMMA EarlyEnd ==
  ASSUME WorkspaceInv, NEW p \in Procs, Running(p), ~proc[p].disturbed,
         WalkFailed(p) \/ RegistryRefused(p)
  PROVE  proc'[p].exit # SUCCESS /\ ~Sound(proc[p].pattern)
<1>1. Sane(p) /\ Fresh(p) /\ Undisturbed(p)
  BY DEF WorkspaceInv, Undisturbed
<1>2. CASE WalkFailed(p)
  <2>1. Reads(p, Exit(IO_ERROR)) /\ Walked(p) /\ proc[p].failed
    BY <1>2 DEF WalkFailed
  <2>2. QED  BY <1>1, <2>1, ExitIs, WalkIsOver DEF IO_ERROR, SUCCESS
<1>3. CASE RegistryRefused(p)
  <2>1. /\ Reads(p, Exit(LOGICAL_FAILURE)) /\ Walked(p) /\ ~proc[p].failed
        /\ HasDuplicate(proc[p].entries)
    BY <1>3 DEF RegistryRefused
  <2>2. QED  BY <1>1, <2>1, ExitIs, WalkIsOver DEF LOGICAL_FAILURE, SUCCESS
<1>4. QED  BY <1>2, <1>3

(* Where each command may be.                                              *)
LEMMA WhereItIs ==
  ASSUME WorkspaceInv, NEW p \in Procs
  PROVE  /\ PlanArtifacts(p) \/ WriteArtifact(p) => proc[p].cmd = "generate"
         /\ ReadArtifact(p) \/ GiveVerdicts(p) => proc[p].cmd = "check"
         /\ PlanStub(p) \/ TruncateMigration(p) \/ WriteMigration(p) => proc[p].cmd = "stub"
         /\ VerifyMigrations(p) => proc[p].cmd = "verify"
         /\ WriteThrows(p) => proc[p].cmd \in {"generate", "stub"}
BY DEF PlanArtifacts, WriteArtifact, ReadArtifact, GiveVerdicts, PlanStub, TruncateMigration,
       WriteMigration, VerifyMigrations, WriteThrows, Loaded, At, WorkspaceInv, Sane

-----------------------------------------------------------------------------
(* generate *)

LEMMA RefreshHolds ==
  ASSUME WorkspaceInv, Next, NEW p \in Procs, Finishes(p, "generate"), ExitsWith(p, SUCCESS),
         NEW f \in Present(proc[p].pattern), NEW k \in Kinds
  PROVE  artifact'[<<f, k>>] = Rendered(EntryNow(f))
<1>1. /\ ~At(p, "done") /\ At(p, "done")' /\ proc[p].cmd = "generate" /\ ~proc[p].disturbed
      /\ proc'[p].exit = SUCCESS
  BY DEF Finishes, ExitsWith
<1>2. Running(p) /\ (PlanArtifacts(p) \/ WriteArtifact(p))
  BY <1>1, HowItEnds, EarlyEnd, WhereItIs
<1>3. Sane(p) /\ Fresh(p) /\ Undisturbed(p) /\ Domains
  BY <1>1, <1>2 DEF WorkspaceInv, Undisturbed
<1>4. CASE PlanArtifacts(p)
  <2>1. Loaded(p, "generate")
    BY <1>4 DEF PlanArtifacts
  <2>2. Present(proc[p].pattern) = DOMAIN proc[p].entries
    BY <1>3, <2>1, LoadedFacts
  <2> DEFINE planned == (DOMAIN proc[p].entries) \X Kinds
             next    == [Goto(p, "open") EXCEPT !.todo = planned]
  <2>3. planned # {}
    <3>1. <<f, k>> \in planned
      BY <2>2
    <3>2. QED  BY <3>1
  <2>4. Reads(p, next)
    BY <1>4, <2>3 DEF PlanArtifacts
  <2>4a. next.pc = "open"
    BY <1>3 DEF Goto, Sane, Fields
  <2> HIDE DEF next
  <2>5. proc'[p].pc = "open"
    BY <1>3, <2>4, <2>4a, ReadsFacts
  <2>6. QED  BY <1>1, <2>5 DEF At
<1>5. CASE WriteArtifact(p)
  <2> DEFINE x    == NextPath(p)
             rest == proc[p].todo \ {x}
  <2>1. /\ proc[p].pc = "write"
        /\ artifact' = [artifact EXCEPT ![x] = Rendered(proc[p].entries[x[1]])]
        /\ Writes(p, IF rest = {} THEN Exit(SUCCESS) ELSE [Goto(p, "open") EXCEPT !.todo = rest])
    BY <1>5 DEF WriteArtifact, At
  <2>2. rest = {}
    <3>1. SUFFICES ASSUME rest # {}  PROVE FALSE
      OBVIOUS
    <3> DEFINE next == [Goto(p, "open") EXCEPT !.todo = rest]
    <3>2. Writes(p, next)
      BY <2>1, <3>1
    <3>3. next.pc = "open"
      BY <1>3 DEF Goto, Sane, Fields
    <3> HIDE DEF next
    <3>4. QED  BY <1>1, <1>3, <3>2, <3>3, WritesFacts DEF At
  <2>3. /\ Present(proc[p].pattern) = DOMAIN proc[p].entries
        /\ Imported(p) /\ Generated(p)
    BY <1>3, <2>1 DEF Fresh, AfterWalk
  <2>4. f \in DOMAIN proc[p].entries /\ proc[p].entries[f] = EntryNow(f) /\ <<f, k>> \in Paths
    BY <1>3, <2>3 DEF Imported, Sane, Paths
  <2>5. x \in Paths
    BY <1>1, <1>3, <2>1, NextArtifact
  <2>6. CASE <<f, k>> = x
    <3>1. x[1] = f
      BY <2>6
    <3>2. QED  BY <1>3, <2>1, <2>4, <2>5, <2>6, <3>1 DEF Domains
  <2>7. CASE <<f, k>> # x
    <3>1. <<f, k>> \notin proc[p].todo
      BY <2>2, <2>7
    <3>2. artifact[<<f, k>>] = Rendered(proc[p].entries[f])
      BY <1>1, <2>1, <2>3, <2>4, <3>1 DEF Generated
    <3>3. QED  BY <1>3, <2>1, <2>4, <2>5, <2>7, <3>2 DEF Domains
  <2>8. QED  BY <2>6, <2>7
<1>6. QED  BY <1>2, <1>4, <1>5

(* A generate that succeeds undisturbed has written every kind of artifact *)
(* of every file of the pattern, from the present sources and in full      *)
(* (cli/src/commands/schema/generate.ts:77-125).                           *)
THEOREM GenerateMakesAll == Spec => GenerateRefreshes
<1> DEFINE Refreshes == \A p \in Procs : Finishes(p, "generate") /\ ExitsWith(p, SUCCESS) =>
             \A f \in Present(proc[p].pattern), k \in Kinds :
               artifact'[<<f, k>>] = Rendered(EntryNow(f))
<1>1. WorkspaceInv /\ [Next]_vars => [Refreshes]_vars
  BY RefreshHolds
<1> HIDE DEF Refreshes
<1>2. Spec => [][Refreshes]_vars
  BY <1>1, WorkspaceCorrect, PTL DEF Spec
<1>3. QED  BY <1>2 DEF GenerateRefreshes, Refreshes

(* What a step writes: a command changes only the file it is at.           *)
LEMMA WhoWrites ==
  ASSUME WorkspaceInv, NEW p \in Procs, Step(p)
  PROVE  /\ artifact' # artifact => /\ proc[p].pc \in {"open", "write"}
                                    /\ proc[p].cmd = "generate"
                                    /\ \A x \in Paths : x # NextPath(p) => artifact'[x] = artifact[x]
         /\ migration' # migration => \/ TruncateMigration(p)
                                      \/ WriteMigration(p)
<1>1. Domains /\ Sane(p)
  BY DEF WorkspaceInv
<1>2. \A r : Reads(p, r) => UNCHANGED <<artifact, migration>>
  BY DEF Reads, disk
<1>3. CASE \E cmd \in Commands, pattern \in Patterns : Start(p, cmd, pattern)
  BY <1>2, <1>3 DEF Start
<1>4. CASE \/ ReadText(p) \/ Import(p) \/ WalkFailed(p) \/ RegistryRefused(p)
           \/ PlanArtifacts(p) \/ ListArtifacts(p) \/ ReadArtifact(p) \/ GiveVerdicts(p)
           \/ PlanStub(p) \/ ListMigrations(p) \/ ReadMigration(p) \/ VerifyMigrations(p)
  <2>1. \E r : Reads(p, r)
    BY <1>4 DEF ReadText, Import, WalkFailed, RegistryRefused, PlanArtifacts, ListArtifacts,
                ReadArtifact, GiveVerdicts, PlanStub, ListMigrations, ReadMigration, VerifyMigrations
  <2>2. QED  BY <1>2, <2>1
<1>5. CASE TruncateArtifact(p) \/ WriteArtifact(p)
  BY <1>1, <1>5 DEF TruncateArtifact, WriteArtifact, At, Domains
<1>6. CASE TruncateMigration(p) \/ WriteMigration(p)
  BY <1>6 DEF TruncateMigration, WriteMigration
<1>7. CASE WriteThrows(p) \/ Crash(p)
  <2>1. \E r : CutShort(p, r)
    BY <1>7 DEF WriteThrows, Crash
  <2>2. QED  BY <1>1, <2>1 DEF CutShort, At, Domains
<1>8. QED  BY <1>3, <1>4, <1>5, <1>6, <1>7 DEF Step

LEMMA ScopeHolds ==
  ASSUME WorkspaceInv, Next, NEW p \in Procs, NEW x \in Paths,
         Moves(p), proc[p].cmd = "generate", artifact'[x] # artifact[x]
  PROVE  /\ x[1] \in proc[p].pattern
         /\ ~proc[p].disturbed => Sound(proc[p].pattern)
<1>1. Step(p)
  BY WhoMoves
<1>2. proc[p].pc \in {"open", "write"} /\ x = NextPath(p)
  BY <1>1, WhoWrites
<1>3. Sane(p) /\ (Undisturbed(p) => Fresh(p))
  BY DEF WorkspaceInv
<1>4. x[1] \in proc[p].pattern
  BY <1>2, <1>3, NextArtifact
<1>5. ~proc[p].disturbed => Sound(proc[p].pattern)
  BY <1>2, <1>3 DEF Undisturbed, Running, Fresh, AfterWalk
<1>6. QED  BY <1>4, <1>5

(* A generate writes only artifacts of the files it was asked for, and an  *)
(* undisturbed one writes none unless those files load and declare each    *)
(* schema once (cli/src/commands/schema/generate.ts:81-104).               *)
THEOREM GenerateKeepsToItsPattern == Spec => GenerateIsScoped
<1> DEFINE Scoped == \A p \in Procs, x \in Paths :
             /\ Moves(p) /\ proc[p].cmd = "generate"
             /\ artifact'[x] # artifact[x]
             => /\ x[1] \in proc[p].pattern
                /\ ~proc[p].disturbed => Sound(proc[p].pattern)
<1>1. WorkspaceInv /\ [Next]_vars => [Scoped]_vars
  BY ScopeHolds
<1> HIDE DEF Scoped
<1>2. Spec => [][Scoped]_vars
  BY <1>1, WorkspaceCorrect, PTL DEF Spec
<1>3. QED  BY <1>2 DEF GenerateIsScoped, Scoped

-----------------------------------------------------------------------------
(* migrate stub *)

LEMMA FoundFile ==
  ASSUME NEW entries, NEW name, Knows(entries, name)
  PROVE  /\ FileOf(entries, name) \in DOMAIN entries
         /\ entries[FileOf(entries, name)].name = name
BY DEF Knows, FileOf

LEMMA StubOpens ==
  ASSUME WorkspaceInv, Next, NEW p \in Procs, Moves(p), proc[p].cmd = "stub", At(p, "open"),
         ~proc[p].disturbed, NEW f \in Files, migration'[f] # migration[f]
  PROVE  migration[f] = Absent
<1>1. Step(p)
  BY WhoMoves
<1>2. Domains /\ Undisturbed(p) /\ Fresh(p)
  BY DEF WorkspaceInv, Undisturbed, Running, At
<1>3. TruncateMigration(p)
  BY <1>1, WhoWrites DEF WriteMigration, At
<1>4. f = StubFile(p)
  BY <1>2, <1>3 DEF TruncateMigration, Domains
<1>5. QED  BY <1>2, <1>4 DEF Fresh, Stubs, At

LEMMA StubWrites ==
  ASSUME WorkspaceInv, Next, NEW p \in Procs, Finishes(p, "stub"), ExitsWith(p, SUCCESS)
  PROVE  \E f, g \in Present(Files), h \in Files :
           /\ NameNow(f) = StubPair[1] /\ NameNow(g) = StubPair[2]
           /\ migration'[h] = [from |-> EntryNow(f), to |-> EntryNow(g)]
<1> DEFINE entries == proc[p].entries
           f == FileOf(entries, StubPair[1])
           g == FileOf(entries, StubPair[2])
<1>1. /\ ~At(p, "done") /\ At(p, "done")' /\ proc[p].cmd = "stub" /\ ~proc[p].disturbed
      /\ proc'[p].exit = SUCCESS
  BY DEF Finishes, ExitsWith
<1>2. Running(p) /\ WriteMigration(p)
  BY <1>1, HowItEnds, EarlyEnd, WhereItIs DEF SUCCESS, LOGICAL_FAILURE
<1>3. Sane(p) /\ Fresh(p) /\ Undisturbed(p) /\ Domains
  BY <1>1, <1>2 DEF WorkspaceInv, Undisturbed
<1>4. proc[p].pc = "write"
  BY <1>2 DEF WriteMigration, At
<1>5. /\ Knows(entries, StubPair[1]) /\ Knows(entries, StubPair[2])
      /\ proc[p].pattern = Files
  BY <1>1, <1>3, <1>4 DEF Sane
<1>6. /\ f \in DOMAIN entries /\ entries[f].name = StubPair[1]
      /\ g \in DOMAIN entries /\ entries[g].name = StubPair[2]
  BY <1>5, FoundFile
<1>7. /\ f \in Present(Files) /\ entries[f] = EntryNow(f)
      /\ g \in Present(Files) /\ entries[g] = EntryNow(g)
  BY <1>3, <1>5, <1>6 DEF Fresh, Imported
<1>8. \A e : EntryNow(e).name = NameNow(e)
  BY DEF EntryNow, NameNow, EntryOf
<1>9. f \in Files
  BY <1>7 DEF Present
<1>10. migration'[f] = [from |-> entries[f], to |-> entries[g]]
  BY <1>2, <1>3, <1>9 DEF WriteMigration, Domains, StubFile, findSchema
<1> HIDE DEF f, g
<1>11. QED  BY <1>6, <1>7, <1>8, <1>9, <1>10

(* An undisturbed stub opens only a path at which nothing is, and leaves   *)
(* there, when it succeeds, a migration between the present forms of both  *)
(* endpoints (migrate/stub.ts:123-160, schema/src/migrations/stub.ts:52-93). *)
THEOREM StubKeepsWhatIsThere == Spec => StubIsRight
<1> DEFINE Right == \A p \in Procs :
       /\ Moves(p) /\ proc[p].cmd = "stub" /\ At(p, "open") /\ ~proc[p].disturbed =>
            \A f \in Files : migration'[f] # migration[f] => migration[f] = Absent
       /\ Finishes(p, "stub") /\ ExitsWith(p, SUCCESS) =>
            \E f, g \in Present(Files), h \in Files :
              /\ NameNow(f) = StubPair[1] /\ NameNow(g) = StubPair[2]
              /\ migration'[h] = [from |-> EntryNow(f), to |-> EntryNow(g)]
<1>1. WorkspaceInv /\ Next => Right
  BY StubOpens, StubWrites
<1>2. WorkspaceInv /\ [Next]_vars => [Right]_vars
  <2> HIDE DEF Right
  <2>1. QED  BY <1>1
<1> HIDE DEF Right
<1>3. Spec => [][Right]_vars
  BY <1>2, WorkspaceCorrect, PTL DEF Spec
<1>4. QED  BY <1>3 DEF StubIsRight, Right

-----------------------------------------------------------------------------
(* check and verify *)

(* What the registry of a sound workspace answers is what the files say.   *)
LEMMA FindsNow ==
  ASSUME NEW entries, NEW pattern, NEW was, Sound(pattern), Present(pattern) = DOMAIN entries,
         \A f \in DOMAIN entries : entries[f] = EntryNow(f)
  PROVE  EndpointHolds(entries, was) <=> SameSchema(pattern, was)
<1>1. \A f \in DOMAIN entries : entries[f].name = NameNow(f)
  BY DEF EntryNow, NameNow, EntryOf
<1>2. ASSUME EndpointHolds(entries, was)  PROVE SameSchema(pattern, was)
  BY <1>1, <1>2, FoundFile DEF EndpointHolds, SameSchema, findSchema
<1>3. ASSUME SameSchema(pattern, was)  PROVE EndpointHolds(entries, was)
  <2>1. PICK f \in DOMAIN entries : NameNow(f) = was.name /\ EntryNow(f).ir = was.ir
    BY <1>3 DEF SameSchema
  <2>2. Knows(entries, was.name)
    BY <1>1, <2>1 DEF Knows
  <2>3. FileOf(entries, was.name) = f
    BY <1>1, <2>1, <2>2, FoundFile DEF Sound
  <2>4. QED  BY <2>1, <2>2, <2>3 DEF EndpointHolds, findSchema
<1>4. QED  BY <1>2, <1>3

LEMMA VerdictComparesIr ==
  ASSUME NEW was, NEW entry
  PROVE  verdictFor(was, entry) \in {"stale", "integrity_error"} <=> was.ir # entry.ir
<1>1. CASE was.ir = entry.ir
  BY <1>1 DEF verdictFor
<1>2. CASE was.ir # entry.ir
  BY <1>2 DEF verdictFor
<1>3. QED  BY <1>1, <1>2

LEMMA CheckExitCases ==
  ASSUME NEW entries, NEW read
  PROVE  CheckExit(entries, read) = SUCCESS <=>
           \A a \in read : /\ ParsesProvenance(a.kind, a.content)
                           /\ EndpointHolds(entries, a.content.provenance)
<1> DEFINE Verdict(a) == verdictFor(a.content.provenance,
                                    findSchema(entries, a.content.provenance.name))
           unreadable == \E a \in read : ~ParsesProvenance(a.kind, a.content)
           unknown == \E a \in read : /\ ParsesProvenance(a.kind, a.content)
                                      /\ ~Knows(entries, a.content.provenance.name)
           verdicts == {Verdict(a) : a \in read}
<1>1. CASE unreadable
  BY <1>1 DEF CheckExit, INTEGRITY_ERROR, SUCCESS
<1>2. CASE ~unreadable /\ unknown
  BY <1>2 DEF CheckExit, LOGICAL_FAILURE, SUCCESS, EndpointHolds
<1>3. CASE ~unreadable /\ ~unknown
  <2>1. CheckExit(entries, read) =
          IF "integrity_error" \in verdicts THEN INTEGRITY_ERROR
          ELSE IF "stale" \in verdicts THEN LOGICAL_FAILURE ELSE SUCCESS
    BY <1>3 DEF CheckExit
  <2>2. CheckExit(entries, read) = SUCCESS <=>
          \A a \in read : Verdict(a) \notin {"stale", "integrity_error"}
    BY <2>1 DEF INTEGRITY_ERROR, LOGICAL_FAILURE, SUCCESS
  <2>3. \A a \in read : Verdict(a) \notin {"stale", "integrity_error"} <=>
          a.content.provenance.ir = findSchema(entries, a.content.provenance.name).ir
    BY VerdictComparesIr
  <2> HIDE DEF Verdict
  <2>4. QED  BY <1>3, <2>2, <2>3 DEF EndpointHolds
<1>4. QED  BY <1>1, <1>2, <1>3

LEMMA CheckHolds ==
  ASSUME WorkspaceInv, Next, NEW p \in Procs, Finishes(p, "check")
  PROVE  ExitsWith(p, SUCCESS) <=>
           /\ Sound(proc[p].pattern)
           /\ Present(proc[p].pattern) # {} =>
                \A x \in Paths : artifact[x] # Absent =>
                  /\ ParsesProvenance(x[2], artifact[x])
                  /\ SameSchema(proc[p].pattern, artifact[x].provenance)
<1> DEFINE entries == proc[p].entries
           pattern == proc[p].pattern
<1>1. ~At(p, "done") /\ At(p, "done")' /\ proc[p].cmd = "check" /\ ~proc[p].disturbed
  BY DEF Finishes
<1>2. /\ Running(p)
      /\ \/ WalkFailed(p) \/ RegistryRefused(p)
         \/ ReadArtifact(p) /\ artifact[NextPath(p)] = Absent
         \/ GiveVerdicts(p)
  BY <1>1, HowItEnds, WhereItIs
<1>3. Sane(p) /\ Fresh(p) /\ Undisturbed(p)
  BY <1>1, <1>2 DEF WorkspaceInv, Undisturbed
<1>4. CASE WalkFailed(p) \/ RegistryRefused(p)
  BY <1>1, <1>2, <1>4, EarlyEnd DEF ExitsWith
<1>5. ~(ReadArtifact(p) /\ artifact[NextPath(p)] = Absent)
  <2>1. SUFFICES ASSUME ReadArtifact(p), artifact[NextPath(p)] = Absent  PROVE FALSE
    OBVIOUS
  <2>2. proc[p].pc = "read" /\ proc[p].todo # {} /\ proc[p].todo \subseteq Paths
    BY <1>1, <1>3, <2>1 DEF ReadArtifact, At, Sane
  <2>3. NextPath(p) \in HasArtifact
    BY <1>1, <1>3, <2>2, NextPathIn DEF Fresh, Checked
  <2>4. QED  BY <2>1, <2>3 DEF HasArtifact
<1>6. CASE GiveVerdicts(p)
  <2>1. proc[p].pc = "read" /\ proc[p].todo = {}
    BY <1>6 DEF GiveVerdicts, At
  <2>2. ExitsWith(p, SUCCESS) <=> CheckExit(entries, proc[p].read) = SUCCESS
    BY <1>6, ExitIs DEF GiveVerdicts, ExitsWith
  <2>3. /\ Present(pattern) = DOMAIN entries /\ Sound(pattern)
        /\ \A f \in DOMAIN entries : entries[f] = EntryNow(f)
    BY <1>3, <2>1 DEF Fresh, AfterWalk, Imported
  <2>4. CASE DOMAIN entries = {}
    <3>1. proc[p].read = {}
      BY <1>1, <1>3, <2>1, <2>4 DEF Fresh, Checked
    <3>2. CheckExit(entries, proc[p].read) = SUCCESS
      BY <3>1, CheckExitCases
    <3>3. QED  BY <2>2, <2>3, <2>4, <3>2
  <2>5. CASE DOMAIN entries # {}
    <3>1. proc[p].read = {ReadOf(x) : x \in HasArtifact}
      BY <1>1, <1>3, <2>1, <2>5 DEF Fresh, Checked
    <3>2. CheckExit(entries, proc[p].read) = SUCCESS <=>
            \A x \in HasArtifact : /\ ParsesProvenance(ReadOf(x).kind, ReadOf(x).content)
                                   /\ EndpointHolds(entries, ReadOf(x).content.provenance)
      BY <3>1, CheckExitCases
    <3>3. \A x : ReadOf(x).kind = x[2] /\ ReadOf(x).content = artifact[x]
      BY DEF ReadOf
    <3>4. \A was : EndpointHolds(entries, was) <=> SameSchema(pattern, was)
      BY <2>3, FindsNow
    <3> HIDE DEF entries, pattern
    <3>5. CheckExit(entries, proc[p].read) = SUCCESS <=>
            \A x \in HasArtifact : /\ ParsesProvenance(x[2], artifact[x])
                                   /\ SameSchema(pattern, artifact[x].provenance)
      BY <3>2, <3>3, <3>4
    <3>6. QED  BY <2>2, <2>3, <2>5, <3>5 DEF HasArtifact, pattern
  <2>6. QED  BY <2>4, <2>5
<1>7. QED  BY <1>2, <1>4, <1>5, <1>6

(* No stale artifact passes an undisturbed check, and a workspace whose     *)
(* artifacts are all there, whole and of the present IR raises no alarm,    *)
(* whatever commands and edits came before (check.ts:79-125,                *)
(* registry/handlers/check.ts:68-180).                                      *)
THEOREM CheckTellsTheTruth == Spec => CheckIsRight
<1> DEFINE Right == \A p \in Procs : Finishes(p, "check") =>
       LET pattern == proc[p].pattern IN
       /\ ExitsWith(p, SUCCESS) =>
            /\ Sound(pattern)
            /\ Present(pattern) # {} =>
                 \A x \in Paths : artifact[x] # Absent =>
                   ParsesProvenance(x[2], artifact[x]) /\ SameSchema(pattern, artifact[x].provenance)
       /\ /\ Sound(pattern) /\ Complete(pattern)
          /\ \A x \in Paths : artifact[x] # Absent =>
               Whole(artifact[x]) /\ SameSchema(pattern, artifact[x].provenance)
          => ExitsWith(p, SUCCESS)
<1>1. \A x \in Paths : Whole(artifact[x]) => ParsesProvenance(x[2], artifact[x])
  BY DEF Whole, ParsesProvenance
<1>2. WorkspaceInv /\ Next => Right
  BY <1>1, CheckHolds
<1> HIDE DEF Right
<1>3. WorkspaceInv /\ [Next]_vars => [Right]_vars
  BY <1>2
<1>4. Spec => [][Right]_vars
  BY <1>3, WorkspaceCorrect, PTL DEF Spec
<1>5. QED  BY <1>4 DEF CheckIsRight, Right

(* Of the migrations read, none may lack a header, be unbound or come twice. *)
LEMMA VerifyExitCases ==
  ASSUME NEW entries, NEW read
  PROVE  VerifyExit(entries, read) = SUCCESS <=>
           /\ \A r \in read : r.header # Headerless /\ Bound(entries, r.header)
           /\ \A r, s \in read : r.file # s.file => ~SamePair(r.header, s.header)
<1> DEFINE bad   == \E r \in read : r.header = Headerless
           twice == \E r, s \in read : r.file # s.file /\ SamePair(r.header, s.header)
           bound == \A r \in read : Bound(entries, r.header)
<1>1. VerifyExit(entries, read) =
        IF bad THEN INTEGRITY_ERROR ELSE IF ~twice /\ bound THEN SUCCESS ELSE LOGICAL_FAILURE
  BY DEF VerifyExit
<1>2. VerifyExit(entries, read) = SUCCESS <=> ~bad /\ ~twice /\ bound
  <2> HIDE DEF bad, twice, bound
  <2>1. QED  BY <1>1 DEF INTEGRITY_ERROR, LOGICAL_FAILURE, SUCCESS
<1>3. QED  BY <1>2

LEMMA VerifyHolds ==
  ASSUME WorkspaceInv, Next, NEW p \in Procs, Finishes(p, "verify")
  PROVE  ExitsWith(p, SUCCESS) <=>
           /\ Sound(Files)
           /\ \A f \in Files : migration[f] # Absent =>
                /\ migration[f] \notin {Torn, Headerless}
                /\ SameSchema(Files, migration[f].from)
                /\ SameSchema(Files, migration[f].to)
           /\ \A f, g \in HasHeader : SamePair(migration[f], migration[g]) => f = g
<1> DEFINE entries == proc[p].entries
<1>1. ~At(p, "done") /\ At(p, "done")' /\ proc[p].cmd = "verify" /\ ~proc[p].disturbed
  BY DEF Finishes
<1>2. /\ Running(p)
      /\ WalkFailed(p) \/ RegistryRefused(p) \/ VerifyMigrations(p)
  BY <1>1, HowItEnds, WhereItIs
<1>3. Sane(p) /\ Fresh(p) /\ Undisturbed(p)
  BY <1>1, <1>2 DEF WorkspaceInv, Undisturbed
<1>4. proc[p].pattern = Files
  BY <1>1, <1>3 DEF Sane
<1>5. CASE WalkFailed(p) \/ RegistryRefused(p)
  BY <1>1, <1>2, <1>4, <1>5, EarlyEnd DEF ExitsWith
<1>6. CASE VerifyMigrations(p)
  <2>1. proc[p].pc = "read" /\ proc[p].todo = {}
    BY <1>6 DEF VerifyMigrations, At
  <2>2. /\ Present(Files) = DOMAIN entries /\ Sound(Files)
        /\ \A f \in DOMAIN entries : entries[f] = EntryNow(f)
    BY <1>3, <1>4, <2>1 DEF Fresh, AfterWalk, Imported
  <2>3. /\ proc[p].read = {HeaderOf(f) : f \in {g \in HasMigration : migration[g] # Torn}}
        /\ proc[p].failed <=> \E f \in HasMigration : migration[f] = Torn
    BY <1>1, <1>3, <2>1 DEF Fresh, Verified
  <2>4. CASE proc[p].failed
    <3>1. Reads(p, Exit(IO_ERROR))
      BY <1>6, <2>4 DEF VerifyMigrations
    <3>2. ~ExitsWith(p, SUCCESS)
      BY <3>1, ExitIs DEF ExitsWith, SUCCESS, IO_ERROR
    <3>3. QED  BY <2>3, <2>4, <3>2 DEF HasMigration
  <2>5. CASE ~proc[p].failed
    <3>1. Reads(p, Exit(VerifyExit(entries, proc[p].read)))
      BY <1>6, <2>5 DEF VerifyMigrations
    <3>2. ExitsWith(p, SUCCESS) <=> VerifyExit(entries, proc[p].read) = SUCCESS
      BY <3>1, ExitIs DEF ExitsWith
    <3>3. VerifyExit(entries, proc[p].read) = SUCCESS <=>
            /\ \A r \in proc[p].read : r.header # Headerless /\ Bound(entries, r.header)
            /\ \A r, s \in proc[p].read : r.file # s.file => ~SamePair(r.header, s.header)
      BY VerifyExitCases
    <3>4. \A was : EndpointHolds(entries, was) <=> SameSchema(Files, was)
      BY <2>2, FindsNow
    <3> HIDE DEF entries
    <3>5. \A f \in HasMigration : migration[f] # Torn
      BY <2>3, <2>5
    <3>6. proc[p].read = {HeaderOf(f) : f \in HasMigration}
      BY <2>3, <3>5
    <3>7. \A f : HeaderOf(f).file = f /\ HeaderOf(f).header = migration[f]
      BY DEF HeaderOf
    <3>8. VerifyExit(entries, proc[p].read) = SUCCESS <=>
            /\ \A f \in HasMigration : migration[f] # Headerless /\ Bound(entries, migration[f])
            /\ \A f, g \in HasMigration : f # g => ~SamePair(migration[f], migration[g])
      BY <3>3, <3>6, <3>7
    <3>9. VerifyExit(entries, proc[p].read) = SUCCESS <=>
            /\ \A f \in HasMigration :
                 /\ migration[f] # Headerless
                 /\ SameSchema(Files, migration[f].from) /\ SameSchema(Files, migration[f].to)
            /\ \A f, g \in HasMigration : f # g => ~SamePair(migration[f], migration[g])
      BY <3>4, <3>8 DEF Bound
    <3>10. (\A f \in HasMigration : migration[f] # Headerless) => HasHeader = HasMigration
      BY <3>5 DEF HasHeader, HasMigration
    <3>11. ExitsWith(p, SUCCESS) <=>
            /\ \A f \in HasMigration :
                 /\ migration[f] # Headerless
                 /\ SameSchema(Files, migration[f].from) /\ SameSchema(Files, migration[f].to)
            /\ \A f, g \in HasHeader : SamePair(migration[f], migration[g]) => f = g
      BY <3>2, <3>9, <3>10
    <3>12. QED  BY <2>2, <3>5, <3>11 DEF HasMigration
  <2>6. QED  BY <2>4, <2>5
<1>7. QED  BY <1>2, <1>5, <1>6

(* An undisturbed verify succeeds exactly when every migration loads and   *)
(* has a header, no two are for one pair of versions, and both endpoints   *)
(* of each are declared with the IR it was stubbed for                     *)
(* (migrate/verify.ts:245-356, build-migration-registry.ts:59-118,         *)
(* verify-provenance.ts:60-151).                                           *)
THEOREM VerifyTellsTheTruth == Spec => VerifyIsRight
<1> DEFINE Right == \A p \in Procs : Finishes(p, "verify") =>
       (ExitsWith(p, SUCCESS) <=>
          /\ Sound(Files)
          /\ \A f \in Files : migration[f] # Absent =>
               /\ migration[f] \notin {Torn, Headerless}
               /\ SameSchema(Files, migration[f].from)
               /\ SameSchema(Files, migration[f].to)
          /\ \A f, g \in HasHeader : SamePair(migration[f], migration[g]) => f = g)
<1>1. WorkspaceInv /\ Next => Right
  BY VerifyHolds
<1> HIDE DEF Right
<1>2. WorkspaceInv /\ [Next]_vars => [Right]_vars
  BY <1>1
<1>3. Spec => [][Right]_vars
  BY <1>2, WorkspaceCorrect, PTL DEF Spec
<1>4. QED  BY <1>3 DEF VerifyIsRight, Right
=============================================================================
