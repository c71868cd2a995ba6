---------------------------- MODULE ConfigProofs ----------------------------
(***************************************************************************)
(* Theorems about how a configuration is loaded, for any files and         *)
(* includes, circular ones too, any documents on the server, any number of *)
(* processes that share the cache, and any limit on the depth.             *)
(*                                                                         *)
(* The properties speak of results, so none of them is inductive.  What a  *)
(* result will be shows in the files that a process has open: each is an   *)
(* include of the one below; the includes that lie behind are not too      *)
(* deep, and what they and all that they include and extend declare has    *)
(* been gathered in the documents of the files that are open; and nothing  *)
(* else has.  What has been read of the cache was published, and a file    *)
(* that extends the empty entry stays without a version until it fails the *)
(* validation.                                                             *)
(***************************************************************************)
EXTENDS Config, TLAPS, WellFoundedInduction


Fetching == {"truncate", "write", "merge"}
Stages == {"open", "includes", "return", "request", "done"} \cup Fetching
Loading(p) == pc[p] # "done"
Root(p) == IF phase[p] = "main" THEN order[p].path ELSE order[p].env

(* Where the processes are: a result when one is done and never before,    *)
(* and nothing kept of the main file before it has been read.              *)
ProcessInv ==
  /\ order \in Orders /\ DOMAIN pc = Procs /\ DOMAIN stack = Procs /\ DOMAIN phase = Procs
  /\ DOMAIN main = Procs /\ DOMAIN result = Procs
  /\ \A p \in Procs :
       /\ pc[p] \in Stages
       /\ Loading(p) => result[p] = Unset
       /\ phase[p] \in {"main", "env"} /\ (phase[p] = "env" => order[p].env # "")
       /\ IsDocument(main[p]) /\ (phase[p] = "main" => main[p] = EmptyDoc)

(* What is in the cache, and what has been read of it or of the server: a  *)
(* version that has been published, tagged as such or not at all.          *)
IsEntry(e, current) == e.body \in 0..current /\ e.etag \in {0, e.body}
CacheInv ==
  /\ server \in 1..Len(Remote)
  /\ cache # Unset => IsEntry(cache, server)
  /\ DOMAIN entry = Procs /\ DOMAIN used = Procs
  /\ \A p \in Procs :
       /\ entry[p] # Unset => IsEntry(entry[p], server)
       /\ pc[p] \in Fetching => IsEntry(entry[p], server)
       /\ \A u \in used[p] : u.current = TRUE /\ u.body \in 0..server

(* What is fetched is noted as used, and is what the innermost file extends.*)
FetchInv == \A p \in Procs :
  /\ pc[p] \in Fetching => \E u \in used[p] : u.body = entry[p].body
  /\ pc[p] \in Fetching \cup {"request"} => Top(p).doc.extends = "http"

(* The files that are open are a chain of includes from the root.          *)
IsFrame(f) ==
  /\ DOMAIN f = {"path", "doc", "next"}
  /\ f.path \in DOMAIN Files /\ IsDocument(f.doc) /\ f.next \in Nat \ {0}
IsRead(s, at, k) == k < Len(s) \/ at # "open"
FrameInv(s, at, root, k) ==
  LET file == Files[s[k].path]
  IN  /\ IsFrame(s[k])
      /\ s[k].path \in Level(root)[k - 1] /\ (k = 1 => s[k].path = root)
      /\ IF IsRead(s, at, k)
         THEN /\ file # Unset /\ k <= MaxDepth + 1 /\ s[k].next <= Len(file.includes) + 1
              /\ k < Len(s) \/ at # "return" =>
                   s[k].doc.includes = file.includes /\ s[k].doc.extends = file.extends
              /\ k < Len(s) \/ at = "includes" \/ s[k].next = Len(file.includes) + 1
         ELSE k <= MaxDepth + 2 /\ s[k].next = 1 /\ s[k].doc = EmptyDoc
      /\ k < Len(s) => s[k].next > 1 /\ s[k + 1].path = file.includes[s[k].next - 1]
IsStack(s, at, root) ==
  IsSequence(s) /\ s # << >> /\ \A k \in 1..Len(s) : FrameInv(s, at, root, k)
StackInv == \A p \in Procs : Loading(p) => IsStack(stack[p], pc[p], Root(p))

(* The includes that lie behind go no deeper than is left at their depth.  *)
Behind(s, k) == s[k].next - (IF k < Len(s) THEN 2 ELSE 1)
Shallow(s) == \A k \in 1..Len(s) : \A i \in 1..Behind(s, k) :
  Level(Files[s[k].path].includes[i])[MaxDepth + 1 - k] = {}
Deep(path) == Level(path)[MaxDepth + 1] # {}
DepthInv == \A p \in Procs : Loading(p) =>
  Shallow(stack[p]) /\ (phase[p] = "env" => ~Deep(order[p].path))

(* A file that extends the empty entry stays without a version.            *)
VersionInv == \A p \in Procs :
  Loading(p) /\ (\E u \in used[p] : u.own /\ u.body = 0) =>
    \/ phase[p] = "env" /\ main[p].version = 0
    \/ /\ phase[p] = "main" /\ Len(stack[p]) = 1
       /\ \/ pc[p] = "merge" /\ entry[p].body = 0
          \/ pc[p] = "return" /\ stack[p][1].doc.version = 0

(* What has been gathered: all of it comes from a file that is included or *)
(* extended or from a document that was used, and all of those files and   *)
(* documents, as far as they lie behind, are in it.                        *)
Parts == {"prereqs", "tests"}
Gathered(s, kept, part) ==
  (UNION {Elements(s[k].doc[part]) : k \in 1..Len(s)}) \cup Elements(kept[part])
Reachable(p) == {f \in UNION {Reached(path) : path \in Paths(p)} : Files[f] # Unset}
Extended(p) == {g \in DOMAIN Files : Files[g] # Unset /\ \E f \in Reachable(p) : Files[f].extends = g}
Known(p, part) == (UNION {Elements(Files[f][part]) : f \in Reachable(p) \cup Extended(p)})
                    \cup (UNION {Elements(RemoteDoc(u.body)[part]) : u \in used[p]})
NothingInvented == \A p \in Procs : \A part \in Parts : Loading(p) =>
  Gathered(stack[p], main[p], part) \subseteq Known(p, part)

HasExtended(all, f, part) ==
  Files[f].extends \in DOMAIN Files =>
    Files[Files[f].extends] # Unset /\ Elements(Files[Files[f].extends][part]) \subseteq all
HasReached(all, path, part) == \A f \in Reached(path) :
  Files[f] # Unset /\ Elements(Files[f][part]) \subseteq all /\ HasExtended(all, f, part)
ReadInv(s, at, all, part, k) == IsRead(s, at, k) =>
  /\ Elements(Files[s[k].path][part]) \subseteq all
  /\ \A i \in 1..Behind(s, k) : HasReached(all, Files[s[k].path].includes[i], part)
  /\ k = Len(s) /\ at = "return" => HasExtended(all, s[k].path, part)
HasRead(s, at, all, part) == \A k \in 1..Len(s) : ReadInv(s, at, all, part, k)
Pending(p, part) == IF pc[p] \in Fetching THEN Elements(RemoteDoc(entry[p].body)[part]) ELSE {}
HasAll(p, all, part) ==
  /\ HasRead(stack[p], pc[p], all, part)
  /\ phase[p] = "env" => HasReached(all, order[p].path, part)
  /\ \A u \in used[p] : Elements(RemoteDoc(u.body)[part]) \subseteq all \cup Pending(p, part)
NothingMissed == \A p \in Procs : \A part \in Parts : Loading(p) =>
  HasAll(p, Gathered(stack[p], main[p], part), part)

(* A file's own tests stay the last of its document.                       *)
IsLast(own, seq) ==
  Len(own) <= Len(seq) /\ \A i \in 1..Len(own) : seq[Len(seq) - Len(own) + i] = own[i]
OwnLast == \A p \in Procs : Loading(p) =>
  LET own == Files[order[p].path].tests
  IN  IF phase[p] = "env" THEN Files[order[p].path] # Unset /\ IsLast(own, main[p].tests)
      ELSE IsRead(stack[p], pc[p], 1) => IsLast(own, stack[p][1].doc.tests)

-----------------------------------------------------------------------------

(* Induction over the natural numbers, for a set in place of a predicate.  *)
LEMMA NatSetInduction ==
  ASSUME NEW S, 0 \in S, \A n \in Nat : n \in S => n + 1 \in S
  PROVE  Nat \subseteq S
<1> DEFINE T == Nat \ S
           R == OpToRel(<, Nat)
<1> SUFFICES ASSUME T # {} PROVE FALSE
  OBVIOUS
<1>1. IsWellFoundedOn(R, Nat)
  BY NatLessThanWellFounded
<1>2. PICK x \in T : \A y \in T : ~(<<y, x>> \in R)
  <2> HIDE DEF R, T
  <2>1. T \subseteq Nat
    BY DEF T
  <2> QED
    BY <1>1, <2>1, WFMin
<1>3. \A a, b \in Nat : <<a, b>> \in R <=> a < b
  BY DEF OpToRel
<1> HIDE DEF R
<1>4. x \in Nat /\ x # 0 /\ x - 1 \in Nat /\ x - 1 < x
  OBVIOUS
<1>5. x - 1 \in S
  BY <1>2, <1>3, <1>4
<1> QED
  BY <1>4, <1>5

-----------------------------------------------------------------------------
(* The files that a path includes, level by level.                         *)

\* What the assumption says of the limit.
LEMMA MaxDepthIsNat == MaxDepth \in Nat
BY ConfigAssumption DEF ConfigAssumption

AreLevels(level, path, m) ==
  level = [d \in 0..m |-> IF d = 0 THEN {path} ELSE UNION {Includes(f) : f \in level[d - 1]}]

\* The recursion of Level is well-founded: there is such a function.
LEMMA LevelsExist ==
  ASSUME NEW path, NEW m \in Nat
  PROVE  \E level : AreLevels(level, path, m)
<1> DEFINE Body(level, d) == IF d = 0 THEN {path} ELSE UNION {Includes(f) : f \in level[d - 1]}
           S == {n \in Nat : \E level : level = [d \in 0..n |-> Body(level, d)]}
<1>1. 0 \in S
  <2>1. [d \in 0..0 |-> {path}] = [d \in 0..0 |-> Body([e \in 0..0 |-> {path}], d)]
    OBVIOUS
  <2> QED
    BY <2>1
<1>2. \A n \in Nat : n \in S => n + 1 \in S
  <2> SUFFICES ASSUME NEW n \in Nat, n \in S PROVE n + 1 \in S
    OBVIOUS
  <2>1. PICK level : level = [d \in 0..n |-> Body(level, d)]
    OBVIOUS
  <2> DEFINE more == [d \in 0..n + 1 |-> IF d <= n THEN level[d]
                                         ELSE UNION {Includes(f) : f \in level[n]}]
  <2>2. \A d \in 0..n + 1 : more[d] = Body(more, d)
    <3> SUFFICES ASSUME NEW d \in 0..n + 1 PROVE more[d] = Body(more, d)
      OBVIOUS
    <3>1. CASE d = 0
      <4>1. level[0] = {path}
        BY <2>1
      <4> QED
        BY <3>1, <4>1
    <3>2. CASE d # 0 /\ d <= n
      <4>1. level[d] = UNION {Includes(f) : f \in level[d - 1]}
        BY <2>1, <3>2
      <4>2. more[d] = level[d] /\ more[d - 1] = level[d - 1]
        BY <3>2
      <4> QED
        BY <3>2, <4>1, <4>2
    <3>3. CASE d = n + 1
      <4>1. d # 0 /\ d - 1 = n /\ more[n] = level[n]
        BY <3>3
      <4>2. more[d] = UNION {Includes(f) : f \in level[n]}
        BY <3>3
      <4> QED
        BY <4>1, <4>2
    <3> QED
      BY <3>1, <3>2, <3>3
  <2>3. more = [d \in 0..n + 1 |-> more[d]]
    OBVIOUS
  <2> HIDE DEF more
  <2>4. more = [d \in 0..n + 1 |-> Body(more, d)]
    BY <2>2, <2>3
  <2> QED
    BY <2>4
<1> HIDE DEF S
<1>3. Nat \subseteq S
  BY <1>1, <1>2, NatSetInduction
<1> QED
  BY <1>3 DEF S, AreLevels

\* What Level is: the path itself, then all that the last level includes.
LEMMA Levels ==
  ASSUME NEW path
  PROVE  /\ Level(path)[0] = {path}
         /\ \A d \in 0..MaxDepth : Level(path)[d + 1] = UNION {Includes(f) : f \in Level(path)[d]}
<1>1. MaxDepth + 1 \in Nat
  BY MaxDepthIsNat
<1>2. \E level : AreLevels(level, path, MaxDepth + 1)
  BY <1>1, LevelsExist
<1>3. Level(path) = [d \in 0..MaxDepth + 1 |-> IF d = 0 THEN {path}
                                     ELSE UNION {Includes(f) : f \in Level(path)[d - 1]}]
  BY <1>2 DEF Level, AreLevels
<1>4. Level(path)[0] = {path}
  BY <1>1, <1>3
<1>5. ASSUME NEW d \in 0..MaxDepth
      PROVE  Level(path)[d + 1] = UNION {Includes(f) : f \in Level(path)[d]}
  <2>1. d + 1 \in 0..MaxDepth + 1 /\ d + 1 # 0 /\ (d + 1) - 1 = d
    BY MaxDepthIsNat
  <2> QED
    BY <1>3, <2>1
<1> QED
  BY <1>4, <1>5

\* Includes are among the paths that come up.
LEMMA IncludesArePaths ==
  ASSUME NEW f \in DOMAIN Files PROVE Includes(f) \subseteq DOMAIN Files
BY ConfigAssumption DEF ConfigAssumption, Includes

(* The first step may be split off as well as the last.                    *)
LEMMA LevelOfIncludes ==
  ASSUME NEW path, NEW d \in 0..MaxDepth
  PROVE  Level(path)[d + 1] = UNION {Level(g)[d] : g \in Includes(path)}
<1> DEFINE S == {n \in Nat : n <= MaxDepth =>
                   Level(path)[n + 1] = UNION {Level(g)[n] : g \in Includes(path)}}
<1> MaxDepth \in Nat
  BY MaxDepthIsNat
<1>1. 0 \in S
  <2>1. Level(path)[0 + 1] = UNION {Includes(f) : f \in {path}}
    BY Levels
  <2>2. \A g : Level(g)[0] = {g}
    BY Levels
  <2> QED
    BY <2>1, <2>2
<1>2. \A n \in Nat : n \in S => n + 1 \in S
  <2> SUFFICES ASSUME NEW n \in Nat, n \in S, n + 1 <= MaxDepth
               PROVE  Level(path)[n + 1 + 1] = UNION {Level(g)[n + 1] : g \in Includes(path)}
    OBVIOUS
  <2>1. Level(path)[n + 1] = UNION {Level(g)[n] : g \in Includes(path)}
    OBVIOUS
  <2>2. n \in 0..MaxDepth /\ n + 1 \in 0..MaxDepth
    OBVIOUS
  <2>3. Level(path)[n + 1 + 1] = UNION {Includes(f) : f \in Level(path)[n + 1]}
    BY <2>2, Levels
  <2>4. \A g : Level(g)[n + 1] = UNION {Includes(f) : f \in Level(g)[n]}
    BY <2>2, Levels
  <2> QED
    BY <2>1, <2>3, <2>4
<1> HIDE DEF S
<1>3. d \in S
  BY <1>1, <1>2, NatSetInduction
<1> QED
  BY <1>3 DEF S

\* So is all that is included over any number of steps.
LEMMA LevelsArePaths ==
  ASSUME NEW path \in DOMAIN Files, NEW d \in 0..MaxDepth + 1
  PROVE  Level(path)[d] \subseteq DOMAIN Files
<1> DEFINE S == {n \in Nat : n <= MaxDepth + 1 => Level(path)[n] \subseteq DOMAIN Files}
<1> MaxDepth \in Nat
  BY MaxDepthIsNat
<1>1. 0 \in S
  BY Levels
<1>2. \A n \in Nat : n \in S => n + 1 \in S
  <2> SUFFICES ASSUME NEW n \in Nat, n \in S, n <= MaxDepth
               PROVE  Level(path)[n + 1] \subseteq DOMAIN Files
    <3>1. \A n \in Nat : n + 1 <= MaxDepth + 1 <=> n <= MaxDepth
      OBVIOUS
    <3> QED
      BY <3>1
  <2>1. n \in 0..MaxDepth
    OBVIOUS
  <2>2. Level(path)[n + 1] = UNION {Includes(f) : f \in Level(path)[n]}
    BY <2>1, Levels
  <2>3. Level(path)[n] \subseteq DOMAIN Files
    OBVIOUS
  <2> QED
    BY <2>2, <2>3, IncludesArePaths
<1> HIDE DEF S
<1>3. d \in S
  BY <1>1, <1>2, NatSetInduction
<1> QED
  BY <1>3 DEF S

\* What is reached is the path itself or is reached from one of its includes.
LEMMA ReachedByIncludes ==
  ASSUME NEW path, NEW f \in Reached(path), f # path
  PROVE  \E g \in Includes(path) : f \in Reached(g)
<1> MaxDepth \in Nat
  BY MaxDepthIsNat
<1>1. PICK d \in 0..MaxDepth : f \in Level(path)[d]
  BY DEF Reached
<1>2. d # 0
  BY <1>1, Levels
<1>3. d - 1 \in 0..MaxDepth /\ (d - 1) + 1 = d
  BY <1>2
<1>4. PICK g \in Includes(path) : f \in Level(g)[d - 1]
  BY <1>1, <1>3, LevelOfIncludes
<1> QED
  BY <1>3, <1>4 DEF Reached

(* Sequences.                                                              *)

\* Length, domain and elements of a sequence.
LEMMA SequenceFacts ==
  ASSUME NEW seq, IsSequence(seq)
  PROVE  /\ Len(seq) \in Nat /\ DOMAIN seq = 1..Len(seq)
         /\ \A i \in 1..Len(seq) : seq[i] \in Elements(seq)
         /\ seq # << >> <=> Len(seq) > 0
BY DEF IsSequence, Elements

\* A sequence over any set is one over its elements.
LEMMA AnySequence ==
  ASSUME NEW S, NEW seq \in Seq(S) PROVE IsSequence(seq)
<1>1. seq \in [1..Len(seq) -> Elements(seq)] /\ Len(seq) \in Nat
  BY DEF Elements
<1> QED
  BY <1>1 DEF IsSequence

\* The elements of two sequences that are joined, and where they are.
LEMMA Joined ==
  ASSUME NEW s, NEW t, IsSequence(s), IsSequence(t)
  PROVE  /\ IsSequence(s \o t) /\ Elements(s \o t) = Elements(s) \cup Elements(t)
         /\ Len(s \o t) = Len(s) + Len(t)
         /\ \A i \in 1..Len(s) : (s \o t)[i] = s[i]
         /\ \A i \in 1..Len(t) : (s \o t)[Len(s) + i] = t[i]
<1> DEFINE S == Elements(s) \cup Elements(t)
<1>1. s \in Seq(S) /\ t \in Seq(S)
  BY DEF IsSequence
<1>2. s \o t \in Seq(S) /\ Len(s \o t) = Len(s) + Len(t) /\ Len(s) \in Nat /\ Len(t) \in Nat
  BY <1>1
<1>3. /\ \A i \in 1..Len(s) : (s \o t)[i] = s[i]
      /\ \A i \in 1..Len(t) : (s \o t)[Len(s) + i] = t[i]
  BY <1>1, <1>2
<1>4. DOMAIN s = 1..Len(s) /\ DOMAIN t = 1..Len(t) /\ DOMAIN (s \o t) = 1..Len(s) + Len(t)
  BY <1>1, <1>2
<1>5. Elements(s \o t) \subseteq S
  BY <1>2, <1>4 DEF Elements
<1>6. Elements(s) \subseteq Elements(s \o t)
  <2>1. \A i \in 1..Len(s) : i \in 1..Len(s) + Len(t)
    BY <1>2
  <2> QED
    BY <1>3, <1>4, <2>1 DEF Elements
<1>7. Elements(t) \subseteq Elements(s \o t)
  <2>1. \A i \in 1..Len(t) : Len(s) + i \in 1..Len(s) + Len(t)
    BY <1>2
  <2> QED
    BY <1>3, <1>4, <2>1 DEF Elements
<1> QED
  BY <1>2, <1>3, <1>5, <1>6, <1>7, AnySequence

(* The files that are open: the innermost replaced, one more, one less.    *)
LEMMA ReplaceTop ==
  ASSUME NEW s, IsSequence(s), s # << >>, NEW f
  PROVE  /\ IsSequence(Replaced(s, f)) /\ Len(Replaced(s, f)) = Len(s)
         /\ Replaced(s, f)[Len(s)] = f
         /\ \A k \in 1..Len(s) - 1 : Replaced(s, f)[k] = s[k]
<1> DEFINE S == Elements(s) \cup {f}
<1>1. s \in Seq(S) /\ f \in S /\ Len(s) \in Nat /\ Len(s) >= 1
  BY DEF IsSequence
<1>2. Replaced(s, f) \in Seq(S) /\ Len(Replaced(s, f)) = Len(s)
  BY <1>1 DEF Replaced
<1>3. IsSequence(Replaced(s, f))
  BY <1>2, AnySequence
<1>4. Replaced(s, f)[Len(s)] = f /\ \A k \in 1..Len(s) - 1 : Replaced(s, f)[k] = s[k]
  BY <1>1 DEF Replaced
<1> QED
  BY <1>2, <1>3, <1>4

\* One more is pushed.
LEMMA PushOnTop ==
  ASSUME NEW s, IsSequence(s), NEW f
  PROVE  /\ IsSequence(Append(s, f)) /\ Len(Append(s, f)) = Len(s) + 1
         /\ Append(s, f)[Len(s) + 1] = f
         /\ \A k \in 1..Len(s) : Append(s, f)[k] = s[k]
<1> DEFINE S == Elements(s) \cup {f}
<1>1. s \in Seq(S) /\ f \in S /\ Len(s) \in Nat
  BY DEF IsSequence
<1>2. Append(s, f) \in Seq(S)
  BY <1>1
<1>3. IsSequence(Append(s, f))
  BY <1>2, AnySequence
<1> QED
  BY <1>1, <1>3

\* The innermost is dropped.
LEMMA DropTop ==
  ASSUME NEW s, IsSequence(s), Len(s) > 1
  PROVE  LET t == SubSeq(s, 1, Len(s) - 1)
         IN  /\ IsSequence(t) /\ Len(t) = Len(s) - 1 /\ t # << >>
             /\ \A k \in 1..Len(s) - 1 : t[k] = s[k]
<1>1. s \in Seq(Elements(s)) /\ Len(s) \in Nat
  BY DEF IsSequence
<1>2. SubSeq(s, 1, Len(s) - 1) \in Seq(Elements(s))
  BY <1>1
<1>3. IsSequence(SubSeq(s, 1, Len(s) - 1))
  BY <1>2, AnySequence
<1>4. Len(SubSeq(s, 1, Len(s) - 1)) = Len(s) - 1
  BY <1>1
<1>5. SubSeq(s, 1, Len(s) - 1) # << >>
  <2>1. Len(s) - 1 > 0
    BY <1>1
  <2> QED
    BY ONLY <1>3, <1>4, <2>1, SequenceFacts
<1>6. \A k \in 1..Len(s) - 1 : SubSeq(s, 1, Len(s) - 1)[k] = s[k]
  BY <1>1
<1> QED
  BY <1>3, <1>4, <1>5, <1>6

\* A sequence of one.
LEMMA Single ==
  ASSUME NEW f
  PROVE  IsSequence(<<f>>) /\ Len(<<f>>) = 1 /\ <<f>>[1] = f /\ <<f>> # << >>
<1>1. <<f>> \in Seq({f})
  OBVIOUS
<1> QED
  BY <1>1, AnySequence

(* Documents.                                                              *)
LEMMA EmptyIsDocument ==
  /\ IsDocument(EmptyDoc) /\ EmptyDoc.version = 0
  /\ \A part \in Parts : EmptyDoc[part] = << >> /\ Elements(EmptyDoc[part]) = {}
<1>1. << >> \in Seq({}) /\ Elements(<< >>) = {}
  BY DEF Elements
<1>2. IsSequence(<< >>)
  BY <1>1, AnySequence
<1>3. /\ EmptyDoc.prereqs = << >> /\ EmptyDoc.tests = << >> /\ EmptyDoc.includes = << >>
      /\ EmptyDoc.version = 0
  BY DEF EmptyDoc
<1> QED
  BY <1>1, <1>2, <1>3 DEF IsDocument, Parts

\* The prerequisites and the tests of a document are sequences.
LEMMA PartsAreSequences ==
  ASSUME NEW doc, IsDocument(doc), NEW part \in Parts
  PROVE  IsSequence(doc[part])
BY DEF IsDocument, Parts

\* A document with an included one in front keeps its version, includes and extends.
LEMMA IncludedDocument ==
  ASSUME NEW base, NEW included, NEW own, IsDocument(base), IsDocument(included)
  PROVE  LET d == Included(base, included, own)
         IN  /\ IsDocument(d) /\ d.version = base.version
             /\ d.includes = base.includes /\ d.extends = base.extends
<1> DEFINE d == Included(base, included, own)
<1>1. DOMAIN base = DOMAIN EmptyDoc
  BY DEF IsDocument
<1>2. /\ DOMAIN d = DOMAIN EmptyDoc
      /\ d.version = base.version /\ d.includes = base.includes /\ d.extends = base.extends
      /\ d.prereqs = included.prereqs \o base.prereqs /\ d.tests = included.tests \o base.tests
  BY <1>1 DEF Included, EmptyDoc
<1> HIDE DEF d
<1>3. IsDocument(d)
  BY <1>2, Joined DEF IsDocument
<1> QED
  BY <1>2, <1>3 DEF d

\* What is included comes first.
LEMMA IncludedParts ==
  ASSUME NEW base, NEW included, NEW own, IsDocument(base), NEW part \in Parts
  PROVE  Included(base, included, own)[part] = included[part] \o base[part]
<1>1. DOMAIN base = DOMAIN EmptyDoc
  BY DEF IsDocument
<1> QED
  BY <1>1 DEF Included, EmptyDoc, Parts

\* A document laid over another has the version of that one.
LEMMA MergedDocument ==
  ASSUME NEW base, NEW overlay, IsDocument(base), IsDocument(overlay)
  PROVE  LET d == MergeConfigs(base, overlay)
         IN  IsDocument(d) /\ d.version = base.version
<1> DEFINE d == MergeConfigs(base, overlay)
<1>1. DOMAIN base = DOMAIN EmptyDoc
  BY DEF IsDocument
<1>2. /\ DOMAIN d = DOMAIN EmptyDoc
      /\ d.version = base.version /\ d.includes \in {base.includes, overlay.includes}
      /\ d.prereqs = base.prereqs \o overlay.prereqs /\ d.tests = base.tests \o overlay.tests
  BY <1>1 DEF MergeConfigs, Pick, EmptyDoc
<1> HIDE DEF d
<1>3. IsDocument(d)
  BY <1>2, Joined DEF IsDocument
<1> QED
  BY <1>2, <1>3 DEF d

\* What is extended comes first.
LEMMA MergedParts ==
  ASSUME NEW base, NEW overlay, IsDocument(base), NEW part \in Parts
  PROVE  MergeConfigs(base, overlay)[part] = base[part] \o overlay[part]
<1>1. DOMAIN base = DOMAIN EmptyDoc
  BY DEF IsDocument
<1> QED
  BY <1>1 DEF MergeConfigs, Pick, EmptyDoc, Parts

\* The file of an environment and the flags change no version and drop no test.
LEMMA FinalDocument ==
  ASSUME NEW base, NEW env, NEW flags, DOMAIN base = DOMAIN EmptyDoc
  PROVE  /\ MergeEnv(base, env).version = base.version
         /\ MergeEnv(base, env).tests = base.tests \o env.tests
         /\ MergeEnv(base, env).prereqs = env.prereqs \o base.prereqs
         /\ DOMAIN MergeEnv(base, env) = DOMAIN EmptyDoc
         /\ Override(base, flags).version = base.version
         /\ Override(base, flags).tests = base.tests
         /\ Override(base, flags).prereqs = base.prereqs
<1>1. /\ MergeEnv(base, env).version = base.version
      /\ MergeEnv(base, env).tests = base.tests \o env.tests
      /\ MergeEnv(base, env).prereqs = env.prereqs \o base.prereqs
      /\ DOMAIN MergeEnv(base, env) = DOMAIN EmptyDoc
  BY DEF MergeEnv, EmptyDoc, Pick
<1>2. /\ Override(base, flags).version = base.version
      /\ Override(base, flags).tests = base.tests
      /\ Override(base, flags).prereqs = base.prereqs
  BY DEF Override, EmptyDoc, Pick
<1> QED
  BY <1>1, <1>2

-----------------------------------------------------------------------------
(* What a step does to the files that are open, each of which was included *)
(* by the one below.                                                       *)
Opened(s, doc) == Replaced(s, [s[Len(s)] EXCEPT !.doc = doc])
Pushed(s, path) == Append(Replaced(s, [s[Len(s)] EXCEPT !.next = @ + 1]), Frame(path))
Popped(s, doc) == Replaced(SubSeq(s, 1, Len(s) - 1), [s[Len(s) - 1] EXCEPT !.doc = doc])

\* The innermost file gets a document, the others stay.
LEMMA OpenedFrames ==
  ASSUME NEW s, IsSequence(s), s # << >>, DOMAIN s[Len(s)] = {"path", "doc", "next"},
         NEW d, NEW t, t = Opened(s, d)
  PROVE  /\ IsSequence(t) /\ t # << >> /\ Len(t) = Len(s) /\ \A k \in 1..Len(s) - 1 : t[k] = s[k]
         /\ DOMAIN t[Len(s)] = {"path", "doc", "next"} /\ t[Len(s)].doc = d
         /\ t[Len(s)].path = s[Len(s)].path /\ t[Len(s)].next = s[Len(s)].next
<1> DEFINE f == [s[Len(s)] EXCEPT !.doc = d]
<1>1. /\ DOMAIN f = {"path", "doc", "next"} /\ f.doc = d
      /\ f.path = s[Len(s)].path /\ f.next = s[Len(s)].next
  OBVIOUS
<1> HIDE DEF f
<1>2. /\ IsSequence(t) /\ Len(t) = Len(s) /\ t[Len(s)] = f
      /\ \A k \in 1..Len(s) - 1 : t[k] = s[k]
  BY ReplaceTop DEF f, Opened
<1>3. t # << >>
  BY <1>2, SequenceFacts
<1> QED
  BY <1>1, <1>2, <1>3

\* An include is opened, and the next one is due in the file below.
LEMMA PushedFrames ==
  ASSUME NEW s, IsSequence(s), s # << >>, DOMAIN s[Len(s)] = {"path", "doc", "next"},
         NEW path, NEW t, t = Pushed(s, path)
  PROVE  /\ IsSequence(t) /\ t # << >> /\ Len(t) = Len(s) + 1 /\ \A k \in 1..Len(s) - 1 : t[k] = s[k]
         /\ DOMAIN t[Len(s)] = {"path", "doc", "next"} /\ t[Len(s)].doc = s[Len(s)].doc
         /\ t[Len(s)].path = s[Len(s)].path /\ t[Len(s)].next = s[Len(s)].next + 1
         /\ t[Len(s) + 1] = Frame(path)
<1> DEFINE f == [s[Len(s)] EXCEPT !.next = @ + 1]
           r == Replaced(s, f)
<1>1. /\ DOMAIN f = {"path", "doc", "next"} /\ f.doc = s[Len(s)].doc
      /\ f.path = s[Len(s)].path /\ f.next = s[Len(s)].next + 1
  OBVIOUS
<1> HIDE DEF f
<1>2. /\ IsSequence(r) /\ Len(r) = Len(s) /\ r[Len(s)] = f
      /\ \A k \in 1..Len(s) - 1 : r[k] = s[k]
  BY ReplaceTop
<1>3. t = Append(r, Frame(path))
  BY DEF f, Pushed
<1> HIDE DEF r
<1>4. /\ IsSequence(Append(r, Frame(path)))
      /\ Len(Append(r, Frame(path))) = Len(r) + 1 /\ Append(r, Frame(path))[Len(r) + 1] = Frame(path)
      /\ \A k \in 1..Len(r) : Append(r, Frame(path))[k] = r[k]
  BY <1>2, PushOnTop
<1>5. Len(s) \in Nat \ {0} /\ Len(s) \in 1..Len(s) /\ \A k \in 1..Len(s) - 1 : k \in 1..Len(s)
  BY SequenceFacts
<1>6. t # << >>
  BY <1>2, <1>3, <1>4, <1>5, SequenceFacts
<1> QED
  BY <1>1, <1>2, <1>3, <1>4, <1>5, <1>6

\* An included file is closed, and the document of the file below changes.
LEMMA PoppedFrames ==
  ASSUME NEW s, IsSequence(s), Len(s) > 1, DOMAIN s[Len(s) - 1] = {"path", "doc", "next"},
         NEW d, NEW t, t = Popped(s, d)
  PROVE  /\ IsSequence(t) /\ t # << >> /\ Len(t) = Len(s) - 1 /\ \A k \in 1..Len(s) - 2 : t[k] = s[k]
         /\ DOMAIN t[Len(s) - 1] = {"path", "doc", "next"} /\ t[Len(s) - 1].doc = d
         /\ t[Len(s) - 1].path = s[Len(s) - 1].path /\ t[Len(s) - 1].next = s[Len(s) - 1].next
<1> DEFINE r == SubSeq(s, 1, Len(s) - 1)
<1>1. /\ IsSequence(r) /\ Len(r) = Len(s) - 1 /\ r # << >>
      /\ \A k \in 1..Len(s) - 1 : r[k] = s[k]
  BY DropTop
<1>2. t = Replaced(r, [s[Len(s) - 1] EXCEPT !.doc = d])
  BY DEF Popped
<1> HIDE DEF r
<1>3. Len(s) \in Nat /\ r[Len(r)] = s[Len(s) - 1]
  BY <1>1, SequenceFacts
<1>6. t = Opened(r, d)
  BY <1>2, <1>3 DEF Opened
<1>4. /\ IsSequence(t) /\ t # << >> /\ Len(t) = Len(r) /\ \A k \in 1..Len(r) - 1 : t[k] = r[k]
      /\ DOMAIN t[Len(r)] = {"path", "doc", "next"} /\ t[Len(r)].doc = d
      /\ t[Len(r)].path = r[Len(r)].path /\ t[Len(r)].next = r[Len(r)].next
  BY <1>1, <1>3, <1>6, OpenedFrames
<1>5. \A k \in 1..Len(s) - 2 : k \in 1..Len(r) - 1 /\ k \in 1..Len(s) - 1
  BY <1>1, <1>3
<1> QED
  BY <1>1, <1>3, <1>4, <1>5

-----------------------------------------------------------------------------

(* The file at the top, its includes, and where an include leads.          *)
LEMMA TopFrame ==
  ASSUME NEW s, NEW at, NEW root, IsStack(s, at, root)
  PROVE  /\ Len(s) \in Nat \ {0} /\ Len(s) \in 1..Len(s) /\ s[Len(s)].next \in Nat \ {0}
         /\ FrameInv(s, at, root, Len(s)) /\ IsFrame(s[Len(s)])
         /\ DOMAIN s[Len(s)] = {"path", "doc", "next"}
<1>1. Len(s) \in Nat \ {0} /\ Len(s) \in 1..Len(s)
  BY SequenceFacts DEF IsStack
<1> QED
  BY <1>1 DEF IsStack, FrameInv, IsFrame

\* What the assumption says of a file that is there.
LEMMA FileFacts ==
  ASSUME NEW f \in DOMAIN Files, Files[f] # Unset
  PROVE  /\ IsDocument(Files[f]) /\ IsSequence(Files[f].includes)
         /\ Len(Files[f].includes) \in Nat
         /\ Includes(f) = Elements(Files[f].includes)
         /\ Elements(Files[f].includes) \subseteq DOMAIN Files
         /\ \A i \in 1..Len(Files[f].includes) : Files[f].includes[i] \in Includes(f)
<1>1. IsDocument(Files[f]) /\ Elements(Files[f].includes) \subseteq DOMAIN Files
  BY ConfigAssumption DEF ConfigAssumption
<1>2. IsSequence(Files[f].includes)
  BY <1>1 DEF IsDocument
<1>3. /\ Len(Files[f].includes) \in Nat
      /\ \A i \in 1..Len(Files[f].includes) : Files[f].includes[i] \in Elements(Files[f].includes)
  BY <1>2, SequenceFacts
<1>4. Includes(f) = Elements(Files[f].includes)
  BY DEF Includes
<1> QED
  BY <1>1, <1>2, <1>3, <1>4

\* A single unread file is a chain of includes, with nothing behind it.
LEMMA FirstFrame ==
  ASSUME NEW path \in DOMAIN Files
  PROVE  /\ IsStack(<<Frame(path)>>, "open", path) /\ Shallow(<<Frame(path)>>)
         /\ IsDocument(EmptyDoc) /\ <<Frame(path)>>[1].doc = EmptyDoc
<1> DEFINE s == <<Frame(path)>>
<1>1. /\ DOMAIN Frame(path) = {"path", "doc", "next"} /\ Frame(path).path = path
      /\ Frame(path).doc = EmptyDoc /\ Frame(path).next = 1
  BY DEF Frame
<1>2. IsSequence(s) /\ Len(s) = 1 /\ s[1] = Frame(path) /\ s # << >>
  BY Single
<1> HIDE DEF s
<1>3. FrameInv(s, "open", path, 1)
  <2>1. path \in Level(path)[1 - 1]
    BY Levels
  <2> QED
    BY <1>1, <1>2, <2>1, EmptyIsDocument, MaxDepthIsNat DEF FrameInv, IsFrame, IsRead
<1>4. IsStack(s, "open", path)
  BY <1>2, <1>3 DEF IsStack
<1>5. Shallow(s)
  <2>1. Behind(s, 1) = 0
    BY <1>1, <1>2 DEF Behind
  <2> QED
    BY <1>2, <2>1 DEF Shallow
<1> QED
  BY <1>1, <1>2, <1>4, <1>5, EmptyIsDocument DEF s

\* Only paths and positions decide how deep the includes behind go.
LEMMA SameShallow ==
  ASSUME NEW s, NEW t, Len(t) = Len(s), Shallow(s),
         \A k \in 1..Len(s) : t[k].path = s[k].path /\ Behind(t, k) = Behind(s, k)
  PROVE  Shallow(t)
<1> SUFFICES ASSUME NEW k \in 1..Len(s), NEW i \in 1..Behind(s, k)
             PROVE  Level(Files[s[k].path].includes[i])[MaxDepth + 1 - k] = {}
  BY DEF Shallow
<1> QED
  BY DEF Shallow

\* The files stay a chain of includes when the innermost is read.
LEMMA StackOpened ==
  ASSUME NEW s, NEW root, IsStack(s, "open", root),
         NEW file, file = Files[s[Len(s)].path], file # Unset, Len(s) - 1 <= MaxDepth,
         NEW t, t = Opened(s, file)
  PROVE  IsStack(t, "includes", root) /\ (Shallow(s) => Shallow(t))
<1> DEFINE n == Len(s)
<1>1. /\ IsSequence(s) /\ s # << >> /\ n \in Nat \ {0} /\ n \in 1..n
      /\ FrameInv(s, "open", root, n) /\ IsFrame(s[n]) /\ DOMAIN s[n] = {"path", "doc", "next"}
  BY TopFrame DEF IsStack
<1>2. /\ IsSequence(t) /\ t # << >> /\ Len(t) = n /\ \A k \in 1..n - 1 : t[k] = s[k]
      /\ DOMAIN t[n] = {"path", "doc", "next"} /\ t[n].doc = file
      /\ t[n].path = s[n].path /\ t[n].next = s[n].next
  BY <1>1, OpenedFrames
<1> HIDE DEF n
<1>3. /\ s[n].path \in DOMAIN Files /\ s[n].path \in Level(root)[n - 1] /\ (n = 1 => s[n].path = root)
      /\ s[n].next = 1
  BY <1>1 DEF FrameInv, IsFrame, IsRead, n
<1>4. IsDocument(file) /\ Len(file.includes) \in Nat
  BY <1>3, FileFacts DEF n
<1>5. FrameInv(t, "includes", root, n)
  <2>1. n <= MaxDepth + 1
    BY <1>1, MaxDepthIsNat DEF n
  <2> QED
    BY <1>1, <1>2, <1>3, <1>4, <2>1 DEF FrameInv, IsFrame, IsRead, n
<1>6. ASSUME NEW k \in 1..n - 1 PROVE FrameInv(t, "includes", root, k)
  <2>1. FrameInv(s, "open", root, k) /\ k < n /\ k \in 1..n
    BY <1>1 DEF IsStack, n
  <2>2. t[k] = s[k] /\ t[k + 1].path = s[k + 1].path
    <3>1. CASE k + 1 = n
      BY <1>2, <3>1
    <3>2. CASE k + 1 # n
      <4>1. k + 1 \in 1..n - 1
        BY <1>1, <2>1, <3>2
      <4> QED
        BY <1>2, <4>1
    <3> QED
      BY <3>1, <3>2
  <2> QED
    BY <1>2, <2>1, <2>2 DEF FrameInv, IsRead, n
<1>7. \A k \in 1..n : k = n \/ k \in 1..n - 1
  BY <1>1
<1>8. IsStack(t, "includes", root)
  BY <1>2, <1>5, <1>6, <1>7 DEF IsStack
<1>9. \A k \in 1..n : t[k].path = s[k].path /\ Behind(t, k) = Behind(s, k)
  BY <1>2, <1>7 DEF Behind, n
<1>10. Shallow(s) => Shallow(t)
  BY <1>2, <1>9, SameShallow DEF n
<1> QED
  BY <1>8, <1>10

\* How many includes of a file lie behind: those before the one that is open.
LEMMA BehindFacts ==
  ASSUME NEW s, Len(s) \in Nat
  PROVE  /\ \A k : k = Len(s) => Behind(s, k) = s[k].next - 1
         /\ \A k \in 1..Len(s) - 1 : Behind(s, k) = s[k].next - 2
<1>1. \A k : k = Len(s) => ~(k < Len(s))
  OBVIOUS
<1>2. \A k \in 1..Len(s) - 1 : k < Len(s)
  OBVIOUS
<1> QED
  BY <1>1, <1>2 DEF Behind

\* In the files whose position stays, the includes behind stay the same.
LEMMA ShallowElsewhere ==
  ASSUME NEW s, NEW t, NEW m, Shallow(s),
         \A k \in 1..Len(t) :
           k = m \/ (k \in 1..Len(s) /\ t[k].path = s[k].path /\ Behind(t, k) = Behind(s, k)),
         \A i \in 1..Behind(t, m) : Level(Files[t[m].path].includes[i])[MaxDepth + 1 - m] = {}
  PROVE  Shallow(t)
<1> SUFFICES ASSUME NEW k \in 1..Len(t), k # m, NEW i \in 1..Behind(t, k)
             PROVE  Level(Files[t[k].path].includes[i])[MaxDepth + 1 - k] = {}
  BY DEF Shallow
<1>1. k \in 1..Len(s) /\ t[k].path = s[k].path /\ Behind(t, k) = Behind(s, k)
  OBVIOUS
<1> QED
  BY <1>1 DEF Shallow

\* The frame of a file that has not been read.
LEMMA FrameFacts ==
  ASSUME NEW path
  PROVE  /\ DOMAIN Frame(path) = {"path", "doc", "next"} /\ Frame(path).path = path
         /\ Frame(path).doc = EmptyDoc /\ Frame(path).next = 1
BY DEF Frame

\* The files stay a chain of includes when an include is opened.
LEMMA StackPushed ==
  ASSUME NEW s, NEW root, IsStack(s, "includes", root),
         NEW path, s[Len(s)].next <= Len(s[Len(s)].doc.includes),
         path = s[Len(s)].doc.includes[s[Len(s)].next],
         NEW t, t = Pushed(s, path)
  PROVE  IsStack(t, "open", root) /\ (Shallow(s) => Shallow(t))
<1> DEFINE n == Len(s)
           file == Files[s[n].path]
           next == s[n].next
<1>1. /\ IsSequence(s) /\ s # << >> /\ n \in Nat \ {0} /\ n \in 1..n
      /\ FrameInv(s, "includes", root, n) /\ IsFrame(s[n]) /\ DOMAIN s[n] = {"path", "doc", "next"}
  BY TopFrame DEF IsStack
<1>2. /\ IsSequence(t) /\ t # << >> /\ Len(t) = n + 1 /\ \A k \in 1..n - 1 : t[k] = s[k]
      /\ DOMAIN t[n] = {"path", "doc", "next"} /\ t[n].doc = s[n].doc
      /\ t[n].path = s[n].path /\ t[n].next = next + 1 /\ t[n + 1] = Frame(path)
  BY <1>1, PushedFrames
<1>3. /\ s[n].path \in DOMAIN Files /\ s[n].path \in Level(root)[n - 1] /\ (n = 1 => s[n].path = root)
      /\ file # Unset /\ n <= MaxDepth + 1 /\ next \in Nat \ {0}
      /\ s[n].doc.includes = file.includes /\ s[n].doc.extends = file.extends
      /\ IsDocument(s[n].doc)
  BY <1>1 DEF FrameInv, IsFrame, IsRead
<1>4. IsDocument(file) /\ Len(file.includes) \in Nat /\ Includes(s[n].path) \subseteq DOMAIN Files
  BY <1>3, FileFacts
<1>5. next \in 1..Len(file.includes) /\ path \in Includes(s[n].path) /\ path = file.includes[next]
  BY <1>3, <1>4, FileFacts
<1>6. n = Len(s) /\ file = Files[s[n].path] /\ next = s[n].next
  OBVIOUS
<1> HIDE DEF n, file, next
<1>7. FrameInv(t, "open", root, n + 1)
  <2>1. n - 1 \in 0..MaxDepth /\ (n - 1) + 1 = n /\ (n + 1) - 1 = n
    BY <1>1, <1>3, MaxDepthIsNat
  <2>2. path \in Level(root)[n]
    BY <1>3, <1>5, <2>1, Levels
  <2>3. /\ DOMAIN Frame(path) = {"path", "doc", "next"} /\ Frame(path).path = path
        /\ Frame(path).doc = EmptyDoc /\ Frame(path).next = 1
    BY FrameFacts
  <2>4. n + 1 # 1 /\ n + 1 <= MaxDepth + 2 /\ ~(n + 1 < n + 1)
    BY <1>1, <1>3, MaxDepthIsNat
  <2>5. IsFrame(Frame(path))
    BY <1>4, <1>5, <2>3, EmptyIsDocument DEF IsFrame
  <2> QED
    BY <1>2, <2>1, <2>2, <2>3, <2>4, <2>5 DEF FrameInv, IsRead
<1>8. FrameInv(t, "open", root, n)
  <2>1. next + 1 <= Len(file.includes) + 1 /\ next + 1 > 1 /\ (next + 1) - 1 = next /\ n < n + 1
        /\ next + 1 \in Nat \ {0}
    BY <1>1, <1>3, <1>4, <1>5
  <2>2. t[n + 1].path = path
    <3>1. t[n + 1] = Frame(path)
      BY <1>2
    <3> QED
      BY <3>1, FrameFacts
  <2>3. IsFrame(t[n])
    BY <1>2, <1>3, <2>1 DEF IsFrame
  <2> QED
    BY <1>2, <1>3, <1>5, <1>6, <2>1, <2>2, <2>3 DEF FrameInv, IsRead
<1>9. ASSUME NEW k \in 1..n - 1 PROVE FrameInv(t, "open", root, k)
  <2>1. FrameInv(s, "includes", root, k) /\ k < n /\ k < n + 1
    BY <1>1, <1>6 DEF IsStack
  <2>2. t[k] = s[k] /\ t[k + 1].path = s[k + 1].path
    <3>1. CASE k + 1 = n
      BY <1>2, <3>1
    <3>2. CASE k + 1 # n
      <4>1. k + 1 \in 1..n - 1
        BY <1>1, <2>1, <3>2
      <4> QED
        BY <1>2, <4>1
    <3> QED
      BY <3>1, <3>2
  <2> QED
    BY <1>2, <1>6, <2>1, <2>2 DEF FrameInv, IsRead
<1>10. \A k \in 1..n + 1 : k = n + 1 \/ k = n \/ k \in 1..n - 1
  BY <1>1
<1>11. IsStack(t, "open", root)
  BY <1>2, <1>7, <1>8, <1>9, <1>10 DEF IsStack
<1>12. /\ Behind(t, n + 1) = 0 /\ Behind(t, n) = Behind(s, n)
       /\ \A k \in 1..n - 1 : Behind(t, k) = Behind(s, k)
  <2>1. t[n + 1].next = 1
    BY ONLY <1>2, FrameFacts
  <2>2. Behind(t, n + 1) = 1 - 1 /\ Behind(s, n) = next - 1
    BY ONLY <1>1, <1>2, <1>6, <2>1, BehindFacts
  <2>3. n \in 1..(n + 1) - 1 /\ \A k \in 1..n - 1 : k \in 1..(n + 1) - 1
    BY <1>1
  <2>4. Behind(t, n) = (next + 1) - 2
    BY ONLY <1>1, <1>2, <2>3, BehindFacts
  <2>5. \A k \in 1..n - 1 : Behind(t, k) = t[k].next - 2 /\ Behind(s, k) = s[k].next - 2
    BY ONLY <1>1, <1>2, <1>6, <2>3, BehindFacts
  <2> QED
    BY ONLY <1>2, <1>3, <2>2, <2>4, <2>5
<1>13. \A k \in 1..Len(t) :
         k = n + 1 \/ (k \in 1..Len(s) /\ t[k].path = s[k].path /\ Behind(t, k) = Behind(s, k))
  <2>1. \A k \in 1..n - 1 : k \in 1..n
    BY ONLY <1>1
  <2> QED
    BY ONLY <1>1, <1>2, <1>6, <1>10, <1>12, <2>1
<1>14. Shallow(s) => Shallow(t)
  <2>1. \A i \in 1..Behind(t, n + 1) : FALSE
    BY ONLY <1>12
  <2> QED
    BY ONLY <1>13, <2>1, ShallowElsewhere
<1> QED
  BY <1>11, <1>14

(* When a file is done, nothing that it includes is left unread.           *)
LEMMA TopDone ==
  ASSUME NEW s, NEW root, IsStack(s, "return", root)
  PROVE  LET path == s[Len(s)].path
         IN  /\ path \in DOMAIN Files /\ Files[path] # Unset /\ Len(s) <= MaxDepth + 1
             /\ path \in Level(root)[Len(s) - 1]
             /\ Behind(s, Len(s)) = Len(Files[path].includes)
             /\ \A g \in Includes(path) :
                  \E i \in 1..Behind(s, Len(s)) : g = Files[path].includes[i]
<1> DEFINE n == Len(s)
           file == Files[s[n].path]
<1>1. /\ n \in Nat \ {0} /\ FrameInv(s, "return", root, n) /\ IsFrame(s[n])
  BY TopFrame
<1>2. /\ s[n].path \in DOMAIN Files /\ s[n].path \in Level(root)[n - 1]
      /\ file # Unset /\ n <= MaxDepth + 1 /\ s[n].next = Len(file.includes) + 1
  BY <1>1 DEF FrameInv, IsFrame, IsRead
<1>3. /\ IsSequence(file.includes) /\ Len(file.includes) \in Nat
      /\ Includes(s[n].path) = Elements(file.includes)
  BY <1>2, FileFacts
<1>4. Behind(s, n) = Len(file.includes)
  <2>1. Behind(s, n) = s[n].next - 1
    BY <1>1, BehindFacts
  <2> QED
    BY <1>2, <1>3, <2>1
<1>5. DOMAIN file.includes = 1..Len(file.includes)
  BY <1>3, SequenceFacts
<1> QED
  BY <1>2, <1>3, <1>4, <1>5 DEF Elements

\* If the includes behind a file that is done are shallow, so is the file.
LEMMA DoneIsShallow ==
  ASSUME NEW s, NEW root, IsStack(s, "return", root), Shallow(s)
  PROVE  Level(s[Len(s)].path)[MaxDepth + 2 - Len(s)] = {}
<1> DEFINE n == Len(s)
           path == s[n].path
<1>1. /\ n \in Nat \ {0} /\ n \in 1..n /\ n <= MaxDepth + 1
      /\ \A g \in Includes(path) : \E i \in 1..Behind(s, n) : g = Files[path].includes[i]
  BY TopFrame, TopDone
<1>2. \A g \in Includes(path) : Level(g)[MaxDepth + 1 - n] = {}
  BY <1>1 DEF Shallow
<1> HIDE DEF n, path
<1>3. MaxDepth + 1 - n \in 0..MaxDepth /\ MaxDepth + 2 - n = (MaxDepth + 1 - n) + 1
  BY <1>1, MaxDepthIsNat
<1>4. Level(path)[MaxDepth + 2 - n] = UNION {Level(g)[MaxDepth + 1 - n] : g \in Includes(path)}
  BY <1>3, LevelOfIncludes
<1>5. Level(path)[MaxDepth + 2 - n] = {}
  BY <1>2, <1>4
<1> QED
  BY <1>5 DEF n, path

\* The files stay a chain of includes when an included one is done.
LEMMA StackPopped ==
  ASSUME NEW s, NEW root, IsStack(s, "return", root), Len(s) > 1,
         NEW doc, IsDocument(doc),
         doc.includes = s[Len(s) - 1].doc.includes, doc.extends = s[Len(s) - 1].doc.extends,
         NEW t, t = Popped(s, doc)
  PROVE  IsStack(t, "includes", root) /\ (Shallow(s) => Shallow(t))
<1> DEFINE n == Len(s)
           m == n - 1
           file == Files[s[m].path]
           next == s[m].next
<1>1. /\ IsSequence(s) /\ s # << >> /\ n \in Nat /\ m \in Nat \ {0} /\ m \in 1..n /\ m < n
      /\ n = m + 1 /\ m = n - 1 /\ n - 2 = m - 1
      /\ FrameInv(s, "return", root, m)
  BY SequenceFacts DEF IsStack
<1>2. /\ s[m].path \in DOMAIN Files /\ s[m].path \in Level(root)[m - 1] /\ (m = 1 => s[m].path = root)
      /\ file # Unset /\ m <= MaxDepth + 1 /\ next \in Nat \ {0} /\ next <= Len(file.includes) + 1
      /\ s[m].doc.includes = file.includes /\ s[m].doc.extends = file.extends
      /\ DOMAIN s[m] = {"path", "doc", "next"} /\ next > 1 /\ s[n].path = file.includes[next - 1]
  BY <1>1 DEF FrameInv, IsFrame, IsRead
<1>3. /\ IsSequence(t) /\ t # << >> /\ Len(t) = m /\ \A k \in 1..m - 1 : t[k] = s[k]
      /\ DOMAIN t[m] = {"path", "doc", "next"} /\ t[m].doc = doc
      /\ t[m].path = s[m].path /\ t[m].next = next
  <2>1. /\ IsSequence(t) /\ t # << >> /\ Len(t) = Len(s) - 1 /\ \A k \in 1..Len(s) - 2 : t[k] = s[k]
        /\ DOMAIN t[Len(s) - 1] = {"path", "doc", "next"} /\ t[Len(s) - 1].doc = doc
        /\ t[Len(s) - 1].path = s[Len(s) - 1].path /\ t[Len(s) - 1].next = s[Len(s) - 1].next
    <3>1. IsSequence(s) /\ Len(s) > 1 /\ DOMAIN s[Len(s) - 1] = {"path", "doc", "next"}
      BY <1>1, <1>2
    <3>2. t = Popped(s, doc)
      OBVIOUS
    <3> QED
      BY ONLY <3>1, <3>2, PoppedFrames
  <2>2. Len(s) - 2 = m - 1
    BY <1>1
  <2> QED
    BY <2>1, <2>2
<1>4. /\ n = Len(s) /\ file = Files[s[m].path] /\ next = s[m].next
      /\ doc.includes = file.includes /\ doc.extends = file.extends
  BY <1>2
<1> HIDE DEF n, m, file, next
<1>5. FrameInv(t, "includes", root, m)
  <2>1. IsFrame(t[m])
    BY <1>2, <1>3 DEF IsFrame
  <2> QED
    BY <1>1, <1>2, <1>3, <1>4, <2>1 DEF FrameInv, IsRead
<1>6. ASSUME NEW k \in 1..m - 1 PROVE FrameInv(t, "includes", root, k)
  <2>1. FrameInv(s, "return", root, k) /\ k < n /\ k < m
    BY <1>1, <1>4 DEF IsStack
  <2>2. t[k] = s[k] /\ t[k + 1].path = s[k + 1].path
    <3>1. CASE k + 1 = m
      BY <1>3, <3>1
    <3>2. CASE k + 1 # m
      <4>1. k + 1 \in 1..m - 1
        BY <1>1, <2>1, <3>2
      <4> QED
        BY <1>3, <4>1
    <3> QED
      BY <3>1, <3>2
  <2> QED
    BY <1>3, <1>4, <2>1, <2>2 DEF FrameInv, IsRead
<1>7. \A k \in 1..m : k = m \/ k \in 1..m - 1
  BY <1>1
<1>8. IsStack(t, "includes", root)
  BY <1>3, <1>5, <1>6, <1>7 DEF IsStack
<1>9. /\ Behind(t, m) = next - 1 /\ Behind(s, m) = next - 2
      /\ \A k \in 1..m - 1 : Behind(t, k) = Behind(s, k)
  <2>1. m \in 1..Len(s) - 1 /\ \A k \in 1..m - 1 : k \in 1..Len(s) - 1
    BY ONLY <1>1, <1>4
  <2>2. \A k \in 1..m - 1 : Behind(t, k) = t[k].next - 2 /\ Behind(s, k) = s[k].next - 2
    BY ONLY <1>1, <1>3, <1>4, <2>1, BehindFacts
  <2>3. Behind(t, m) = next - 1 /\ Behind(s, m) = next - 2
    BY ONLY <1>1, <1>3, <1>4, <2>1, BehindFacts
  <2> QED
    BY ONLY <1>3, <2>2, <2>3
<1>10. \A k \in 1..Len(t) :
         k = m \/ (k \in 1..Len(s) /\ t[k].path = s[k].path /\ Behind(t, k) = Behind(s, k))
  <2>1. \A k \in 1..m - 1 : k \in 1..Len(s)
    BY ONLY <1>1, <1>4
  <2> QED
    BY ONLY <1>1, <1>3, <1>7, <1>9, <2>1
<1>11. ASSUME Shallow(s), NEW i \in 1..Behind(t, m)
       PROVE  Level(Files[t[m].path].includes[i])[MaxDepth + 1 - m] = {}
  <2>1. CASE i = next - 1
    <3>1. Level(s[n].path)[MaxDepth + 2 - n] = {}
      BY <1>4, <1>11, DoneIsShallow
    <3>2. MaxDepth + 2 - n = MaxDepth + 1 - m
      BY ONLY <1>1, MaxDepthIsNat
    <3>3. Files[t[m].path].includes[i] = s[n].path
      BY ONLY <1>2, <1>3, <1>4, <2>1
    <3> QED
      BY ONLY <3>1, <3>2, <3>3
  <2>2. CASE i # next - 1
    <3>1. i \in 1..Behind(s, m)
      BY <1>2, <1>9, <2>2
    <3>2. m \in 1..Len(s) /\ t[m].path = s[m].path
      BY ONLY <1>1, <1>3, <1>4
    <3> QED
      BY <1>11, <3>1, <3>2 DEF Shallow
  <2> QED
    BY <2>1, <2>2
<1>12. Shallow(s) => Shallow(t)
  BY <1>10, <1>11, ShallowElsewhere
<1> QED
  BY <1>8, <1>12

(* Once the includes are behind, the top is merged or stays as it is.      *)
LEMMA StackMoved ==
  ASSUME NEW s, NEW root, NEW at, NEW to, IsStack(s, at, root), at \notin {"open", "return"},
         at = "includes" => s[Len(s)].next > Len(s[Len(s)].doc.includes), to # "open"
  PROVE  IsStack(s, to, root)
<1> DEFINE n == Len(s)
           file == Files[s[n].path]
<1>1. /\ IsSequence(s) /\ s # << >> /\ n \in Nat \ {0} /\ n \in 1..n
      /\ FrameInv(s, at, root, n) /\ IsFrame(s[n])
  BY TopFrame DEF IsStack
<1>2. /\ s[n].path \in DOMAIN Files /\ file # Unset /\ s[n].next <= Len(file.includes) + 1
      /\ s[n].doc.includes = file.includes /\ s[n].next \in Nat
  BY <1>1 DEF FrameInv, IsFrame, IsRead
<1>3. Len(file.includes) \in Nat
  BY <1>2, FileFacts
<1>4. s[n].next = Len(file.includes) + 1
  <2>1. CASE at = "includes"
    BY <1>2, <1>3, <2>1
  <2>2. CASE at # "includes"
    BY <1>1, <2>2 DEF FrameInv, IsRead
  <2> QED
    BY <2>1, <2>2
<1>5. FrameInv(s, to, root, n)
  BY <1>1, <1>4 DEF FrameInv, IsRead
<1>6. ASSUME NEW k \in 1..n - 1 PROVE FrameInv(s, to, root, k)
  <2>1. FrameInv(s, at, root, k) /\ k < n
    BY <1>1 DEF IsStack
  <2> QED
    BY <2>1 DEF FrameInv, IsRead
<1>7. \A k \in 1..n : k = n \/ k \in 1..n - 1
  BY <1>1
<1> QED
  BY <1>1, <1>5, <1>6, <1>7 DEF IsStack

\* The same when a document is merged into the innermost.
LEMMA StackMerged ==
  ASSUME NEW s, NEW root, IsStack(s, "return", root), NEW doc, IsDocument(doc),
         NEW t, t = Opened(s, doc)
  PROVE  IsStack(t, "return", root) /\ (Shallow(s) => Shallow(t))
<1> DEFINE n == Len(s)
<1>1. /\ IsSequence(s) /\ s # << >> /\ n \in Nat \ {0} /\ n \in 1..n /\ n = Len(s)
      /\ FrameInv(s, "return", root, n) /\ IsFrame(s[n]) /\ DOMAIN s[n] = {"path", "doc", "next"}
  BY TopFrame DEF IsStack
<1>2. /\ IsSequence(t) /\ t # << >> /\ Len(t) = n /\ \A k \in 1..n - 1 : t[k] = s[k]
      /\ DOMAIN t[n] = {"path", "doc", "next"} /\ t[n].doc = doc
      /\ t[n].path = s[n].path /\ t[n].next = s[n].next
  BY <1>1, OpenedFrames
<1> HIDE DEF n
<1>3. FrameInv(t, "return", root, n)
  <2>1. IsFrame(t[n])
    BY <1>1, <1>2 DEF IsFrame
  <2> QED
    BY <1>1, <1>2, <2>1 DEF FrameInv, IsRead
<1>4. ASSUME NEW k \in 1..n - 1 PROVE FrameInv(t, "return", root, k)
  <2>1. FrameInv(s, "return", root, k) /\ k < n
    BY <1>1 DEF IsStack
  <2>2. t[k] = s[k] /\ t[k + 1].path = s[k + 1].path
    <3>1. CASE k + 1 = n
      BY <1>2, <3>1
    <3>2. CASE k + 1 # n
      <4>1. k + 1 \in 1..n - 1
        BY <1>1, <2>1, <3>2
      <4> QED
        BY <1>2, <4>1
    <3> QED
      BY <3>1, <3>2
  <2> QED
    BY <1>1, <1>2, <2>1, <2>2 DEF FrameInv, IsRead
<1>5. \A k \in 1..n : k = n \/ k \in 1..n - 1
  BY <1>1
<1>6. IsStack(t, "return", root)
  BY <1>2, <1>3, <1>4, <1>5 DEF IsStack
<1>7. \A k \in 1..n : t[k].path = s[k].path /\ Behind(t, k) = Behind(s, k)
  BY <1>1, <1>2, <1>5 DEF Behind
<1> QED
  BY <1>1, <1>2, <1>6, <1>7, SameShallow

-----------------------------------------------------------------------------
(* Steps of one process, and what they leave of the others.                *)

Elsewhere(p) ==
  /\ order' = order /\ server' = server
  /\ DOMAIN pc' = Procs /\ DOMAIN stack' = Procs /\ DOMAIN phase' = Procs /\ DOMAIN main' = Procs
  /\ DOMAIN entry' = Procs /\ DOMAIN result' = Procs /\ DOMAIN used' = Procs
  /\ \A q \in Procs \ {p} :
       /\ pc'[q] = pc[q] /\ stack'[q] = stack[q] /\ phase'[q] = phase[q] /\ main'[q] = main[q]
       /\ entry'[q] = entry[q] /\ result'[q] = result[q] /\ used'[q] = used[q]

\* A step of one process leaves the others and their orders alone.
LEMMA Bystanders ==
  ASSUME ProcessInv, CacheInv, NEW p \in Procs, Step(p) \/ Kill(p)
  PROVE  Elsewhere(p) /\ pc[p] # "done"
<1> USE DEF Go, Elsewhere
<1>1. /\ DOMAIN pc = Procs /\ DOMAIN stack = Procs /\ DOMAIN phase = Procs /\ DOMAIN main = Procs
      /\ DOMAIN entry = Procs /\ DOMAIN result = Procs /\ DOMAIN used = Procs
  BY DEF ProcessInv, CacheInv
<1>2. \A from, error : from # "done" /\ Fail(p, from, error) => Elsewhere(p) /\ pc[p] # "done"
  BY <1>1 DEF Fail
<1>3. CASE OpenFails(p) \/ ResolveFails(p) \/ NotYAML(p) \/ MergeFails(p)
  BY <1>2, <1>3 DEF OpenFails, ResolveFails, NotYAML, MergeFails
<1>4. CASE Open(p)
  BY <1>1, <1>4 DEF Open
<1>5. CASE Include(p)
  BY <1>1, <1>5 DEF Include
<1>6. CASE Return(p)
  BY <1>1, <1>6 DEF Return
<1>7. CASE Alone(p) \/ ExtendFile(p) \/ readCache(p)
  BY <1>1, <1>7 DEF Alone, ExtendFile, readCache, Extends
<1>8. CASE NotModified(p)
  BY <1>1, <1>8 DEF NotModified, Uses
<1>9. CASE NoAnswer(p)
  BY <1>1, <1>2, <1>9 DEF NoAnswer, Uses
<1>10. CASE Answer(p)
  <2>1. PICK tagged \in BOOLEAN : entry' = [entry EXCEPT ![p] = Fetched(p, tagged)]
    BY <1>10 DEF Answer
  <2> QED
    BY <1>1, <1>10, <2>1 DEF Answer, Uses
<1>11. CASE CacheTruncated(p) \/ writeCache(p) \/ CacheNotWritten(p)
  BY <1>1, <1>11 DEF CacheTruncated, writeCache, CacheNotWritten
<1>12. CASE Merge(p)
  BY <1>1, <1>12 DEF Merge
<1>13. CASE LoadEnv(p)
  BY <1>1, <1>13 DEF LoadEnv
<1>14. CASE Finish(p)
  BY <1>1, <1>14 DEF Finish
<1>15. CASE Kill(p)
  BY <1>1, <1>15 DEF Kill
<1> QED
  BY <1>3, <1>4, <1>5, <1>6, <1>7, <1>8, <1>9, <1>10, <1>11, <1>12, <1>13, <1>14, <1>15 DEF Step

\* What the assumption says of the documents that the server publishes.
LEMMA Published ==
  /\ Len(Remote) \in Nat /\ Len(Remote) > 0 /\ DOMAIN Remote = 1..Len(Remote)
  /\ \A i \in DOMAIN Remote : IsDocument(Remote[i])
<1>1. IsSequence(Remote) /\ Remote # << >> /\ \A i \in DOMAIN Remote : IsDocument(Remote[i])
  BY ConfigAssumption DEF ConfigAssumption
<1> QED
  BY <1>1, SequenceFacts

\* A version that is used is noted.
LEMMA UsesFacts ==
  ASSUME NEW p \in Procs, DOMAIN used = Procs, NEW body, NEW current, Uses(p, body, current)
  PROVE  \E u : /\ used'[p] = used[p] \cup {u} /\ u.body = body /\ u.current = current
                /\ u.own = (Len(stack[p]) = 1 /\ phase[p] = "main")
<1> DEFINE u == [own |-> Len(stack[p]) = 1 /\ phase[p] = "main", body |-> body, current |-> current]
<1>1. used'[p] = used[p] \cup {u}
  BY DEF Uses
<1>2. /\ u.body = body /\ u.current = current
      /\ u.own = (Len(stack[p]) = 1 /\ phase[p] = "main")
  OBVIOUS
<1> QED
  BY <1>1, <1>2

(* What a step that does not end a process does to it.                     *)
Kept(p) == phase'[p] = phase[p] /\ main'[p] = main[p]
IncludesRead(p) == pc[p] = "includes" /\ Top(p).next > Len(Top(p).doc.includes)
Opening(p) ==
  /\ pc[p] = "open" /\ pc'[p] = "includes" /\ Kept(p) /\ used'[p] = used[p]
  /\ Files[Top(p).path] # Unset /\ Len(stack[p]) - 1 <= MaxDepth
  /\ stack'[p] = Opened(stack[p], Files[Top(p).path])
Including(p) ==
  /\ pc[p] = "includes" /\ pc'[p] = "open" /\ Kept(p) /\ used'[p] = used[p]
  /\ Top(p).next <= Len(Top(p).doc.includes)
  /\ stack'[p] = Pushed(stack[p], Top(p).doc.includes[Top(p).next])
Returning(p) ==
  LET parent == stack[p][Len(stack[p]) - 1]
  IN  /\ pc[p] = "return" /\ pc'[p] = "includes" /\ Kept(p) /\ used'[p] = used[p]
      /\ Len(stack[p]) > 1
      /\ stack'[p] = Popped(stack[p], Included(parent.doc, Top(p).doc, Files[parent.path]))
Merging(p, base) ==
  /\ pc'[p] = "return" /\ Kept(p) /\ used'[p] = used[p]
  /\ \/ /\ IncludesRead(p) /\ base = Files[Top(p).doc.extends]
        /\ Top(p).doc.extends \in DOMAIN Files /\ base # Unset
     \/ pc[p] = "merge" /\ base = RemoteDoc(entry[p].body)
  /\ stack'[p] = Opened(stack[p], MergeConfigs(base, Top(p).doc))
Moving(p) ==
  /\ Kept(p) /\ stack'[p] = stack[p]
  /\ \/ IncludesRead(p) /\ Top(p).doc.extends = "" /\ pc'[p] = "return" /\ used'[p] = used[p]
     \/ IncludesRead(p) /\ Top(p).doc.extends = "http" /\ pc'[p] = "request" /\ used'[p] = used[p]
     \/ /\ pc[p] = "request" /\ pc'[p] \in Fetching
        /\ \E u : used'[p] = used[p] \cup {u} /\ u.body = entry'[p].body
     \/ pc[p] \in {"truncate", "write"} /\ pc'[p] \in Fetching /\ used'[p] = used[p] /\ entry'[p] = entry[p]
LoadingEnv(p) ==
  /\ pc[p] = "return" /\ pc'[p] = "open" /\ used'[p] = used[p]
  /\ Len(stack[p]) = 1 /\ phase[p] = "main" /\ order[p].env # ""
  /\ phase'[p] = "env" /\ main'[p] = Top(p).doc /\ stack'[p] = <<Frame(order[p].env)>>
Effect(p) ==
  \/ Opening(p) \/ Including(p) \/ Returning(p) \/ (\E base : Merging(p, base))
  \/ Moving(p) \/ LoadingEnv(p)

\* Every step of a process has one of these effects, or ends it.
LEMMA Effects ==
  ASSUME ProcessInv, CacheInv, NEW p \in Procs, Step(p) \/ Kill(p)
  PROVE  Effect(p) \/ (pc'[p] = "done" /\ stack'[p] = stack[p] /\ Kept(p) /\ used'[p] = used[p])
<1> DEFINE End == pc'[p] = "done" /\ stack'[p] = stack[p] /\ Kept(p) /\ used'[p] = used[p]
<1>1. /\ DOMAIN pc = Procs /\ DOMAIN stack = Procs /\ DOMAIN phase = Procs /\ DOMAIN main = Procs
      /\ DOMAIN entry = Procs /\ DOMAIN result = Procs /\ DOMAIN used = Procs
  BY DEF ProcessInv, CacheInv
<1>2. \A from, error : Fail(p, from, error) => End
  BY <1>1 DEF Fail, Go, Kept
<1>3. CASE OpenFails(p) \/ ResolveFails(p) \/ NotYAML(p) \/ MergeFails(p)
  BY <1>2, <1>3 DEF OpenFails, ResolveFails, NotYAML, MergeFails
<1>4. CASE Open(p)
  <2>1. Opening(p)
    BY <1>1, <1>4, MaxDepthIsNat DEF Open, Opening, Go, Kept, TooDeep, Top, Opened
  <2> QED
    BY <2>1 DEF Effect
<1>5. CASE Include(p)
  <2>1. Including(p)
    BY <1>1, <1>5 DEF Include, Including, Go, Kept, Top, Pushed
  <2> QED
    BY <2>1 DEF Effect
<1>6. CASE Return(p)
  <2>1. Returning(p)
    BY <1>1, <1>6 DEF Return, Returning, Go, Kept, Top, Popped
  <2> QED
    BY <2>1 DEF Effect
<1>7. CASE Alone(p)
  <2>1. Moving(p)
    BY <1>1, <1>7 DEF Alone, Extends, Moving, Go, Kept, IncludesRead
  <2> QED
    BY <2>1 DEF Effect
<1>8. CASE readCache(p)
  <2>1. Moving(p)
    BY <1>1, <1>8 DEF readCache, Extends, Moving, Go, Kept, IncludesRead
  <2> QED
    BY <2>1 DEF Effect
<1>9. CASE ExtendFile(p)
  <2>1. Merging(p, Files[Top(p).doc.extends])
    BY <1>1, <1>9 DEF ExtendFile, Extends, Merging, Go, Kept, IncludesRead, Top, Opened
  <2> QED
    BY <2>1 DEF Effect
<1>10. CASE Merge(p)
  <2>1. Merging(p, RemoteDoc(entry[p].body))
    BY <1>1, <1>10 DEF Merge, Merging, Go, Kept, Top, Opened
  <2> QED
    BY <2>1 DEF Effect
<1>11. CASE NotModified(p)
  <2>1. Moving(p)
    <3>1. \E u : used'[p] = used[p] \cup {u} /\ u.body = entry[p].body
      BY <1>1, <1>11, UsesFacts DEF NotModified
    <3> QED
      BY <1>1, <1>11, <3>1 DEF NotModified, Moving, Go, Kept, Fetching
  <2> QED
    BY <2>1 DEF Effect
<1>12. CASE NoAnswer(p)
  <2>1. CASE Fail(p, "request", "fetching URL")
    BY <1>2, <2>1
  <2>2. CASE ~Fail(p, "request", "fetching URL")
    <3>1. \E u : used'[p] = used[p] \cup {u} /\ u.body = entry[p].body
      <4> DEFINE u == [own |-> Len(stack[p]) = 1 /\ phase[p] = "main", body |-> entry[p].body,
                       current |-> TRUE]
      <4>1. used'[p] = used[p] \cup {u}
        BY <1>1, <1>12, <2>2 DEF NoAnswer, Uses
      <4>2. u.body = entry[p].body
        OBVIOUS
      <4> HIDE DEF u
      <4> QED
        BY <4>1, <4>2
    <3>2. Moving(p)
      BY <1>1, <1>12, <2>2, <3>1 DEF NoAnswer, Moving, Go, Kept, Fetching
    <3> QED
      BY <3>2 DEF Effect
  <2> QED
    BY <2>1, <2>2
<1>13. CASE Answer(p)
  <2>1. Moving(p)
    <3>1. \E u : used'[p] = used[p] \cup {u} /\ u.body = entry'[p].body
      BY <1>1, <1>13, UsesFacts DEF Answer
    <3> QED
      BY <1>1, <1>13, <3>1 DEF Answer, Moving, Go, Kept, Fetching
  <2> QED
    BY <2>1 DEF Effect
<1>14. CASE CacheTruncated(p) \/ writeCache(p) \/ CacheNotWritten(p)
  <2>1. Moving(p)
    BY <1>1, <1>14 DEF CacheTruncated, writeCache, CacheNotWritten, Moving, Go, Kept, Fetching
  <2> QED
    BY <2>1 DEF Effect
<1>15. CASE LoadEnv(p)
  <2>1. LoadingEnv(p)
    BY <1>1, <1>15 DEF LoadEnv, LoadingEnv, Go
  <2> QED
    BY <2>1 DEF Effect
<1>16. CASE Finish(p) \/ Kill(p)
  BY <1>1, <1>16 DEF Finish, Kill, Go, Kept
<1> QED
  BY <1>3, <1>4, <1>5, <1>6, <1>7, <1>8, <1>9, <1>10, <1>11, <1>12, <1>13, <1>14, <1>15, <1>16 DEF Step

(* A step of the whole is one of a process, a new version or nothing.      *)
LEMMA Cases ==
  ASSUME ProcessInv, CacheInv, [Next]_vars
  PROVE  \/ /\ order' = order /\ pc' = pc /\ stack' = stack /\ phase' = phase /\ main' = main
            /\ entry' = entry /\ cache' = cache /\ result' = result /\ used' = used
            /\ server' \in {server, server + 1} /\ server' <= Len(Remote)
         \/ \E p \in Procs : Step(p) \/ Kill(p)
<1>1. CASE Publish
  <2>1. server \in Nat /\ Len(Remote) \in Nat
    BY Published DEF CacheInv
  <2> QED
    BY <1>1, <2>1 DEF Publish
<1>2. CASE UNCHANGED vars
  BY <1>2 DEF vars, CacheInv
<1> QED
  BY <1>1, <1>2 DEF Next

\* Nothing has happened yet: no result, no entry, nothing used.
LEMMA CacheInit == Init => ProcessInv /\ CacheInv
<1> SUFFICES ASSUME Init PROVE ProcessInv /\ CacheInv
  OBVIOUS
<1>1. ProcessInv
  BY EmptyIsDocument DEF Init, ProcessInv, Stages
<1>2. Len(Remote) \in Nat /\ Len(Remote) > 0
  BY Published
<1>3. CacheInv
  BY <1>2 DEF Init, CacheInv, Fetching
<1> QED
  BY <1>1, <1>3

\* Each process starts with an unread file.
LEMMA StackInit == Init => StackInv /\ DepthInv
<1> SUFFICES ASSUME Init, NEW p \in Procs
             PROVE  IsStack(stack[p], pc[p], Root(p)) /\ Shallow(stack[p]) /\ phase[p] = "main"
  BY DEF StackInv, DepthInv
<1>1. order[p].path \in DOMAIN Files
  BY ConfigAssumption DEF Init, ConfigAssumption
<1> QED
  BY <1>1, FirstFrame DEF Init, Root

\* What a file extends is a document.
LEMMA BaseIsDocument ==
  ASSUME CacheInv, NEW p \in Procs, NEW base, Merging(p, base)
  PROVE  IsDocument(base)
<1>1. CASE pc[p] = "merge"
  <2>1. entry[p].body \in 0..server /\ server \in 1..Len(Remote)
    BY <1>1 DEF CacheInv, IsEntry, Fetching
  <2>2. entry[p].body = 0 \/ entry[p].body \in DOMAIN Remote
    BY <2>1, Published
  <2>3. IsDocument(RemoteDoc(entry[p].body))
    BY <2>2, Published, EmptyIsDocument DEF RemoteDoc
  <2> QED
    BY <1>1, <2>3 DEF Merging, IncludesRead
<1>2. CASE pc[p] # "merge"
  BY <1>2, FileFacts DEF Merging
<1> QED
  BY <1>1, <1>2

(* What is open, and how deep the includes behind it go, after a step.      *)
LEMMA StackEffect ==
  ASSUME ProcessInv, CacheInv, NEW p \in Procs, Elsewhere(p), Effect(p), pc[p] # "done",
         IsStack(stack[p], pc[p], Root(p))
  PROVE  IsStack(stack'[p], pc'[p], Root(p)') /\ (Shallow(stack[p]) => Shallow(stack'[p]))
<1>2. IsStack(stack[p], pc[p], Root(p)) /\ IsFrame(Top(p))
  BY TopFrame DEF Top
<1>3. Kept(p) => Root(p)' = Root(p)
  BY DEF Kept, Root, Elsewhere
<1>4. CASE Opening(p)
  <2> DEFINE file == Files[Top(p).path]
  <2>1. /\ IsStack(stack[p], "open", Root(p)) /\ file # Unset /\ Len(stack[p]) - 1 <= MaxDepth
        /\ stack'[p] = Opened(stack[p], file) /\ pc'[p] = "includes" /\ Kept(p)
        /\ file = Files[stack[p][Len(stack[p])].path]
    BY <1>2, <1>4 DEF Opening, Top
  <2> HIDE DEF file
  <2>2. /\ IsStack(Opened(stack[p], file), "includes", Root(p))
        /\ Shallow(stack[p]) => Shallow(Opened(stack[p], file))
    BY <2>1, StackOpened
  <2>3. IsStack(stack'[p], pc'[p], Root(p)')
    BY ONLY <1>3, <2>1, <2>2
  <2>4. Shallow(stack[p]) => Shallow(stack'[p])
    BY ONLY <2>1, <2>2
  <2> QED
    BY <2>3, <2>4
<1>5. CASE Including(p)
  <2> DEFINE s == stack[p]
             path == Top(p).doc.includes[Top(p).next]
  <2>1. /\ IsStack(s, "includes", Root(p)) /\ s[Len(s)].next <= Len(s[Len(s)].doc.includes)
        /\ path = s[Len(s)].doc.includes[s[Len(s)].next]
        /\ stack'[p] = Pushed(s, path) /\ pc'[p] = "open" /\ Kept(p)
    BY <1>2, <1>5 DEF Including, Top
  <2> HIDE DEF path
  <2>2. /\ IsStack(Pushed(s, path), "open", Root(p))
        /\ Shallow(s) => Shallow(Pushed(s, path))
    BY <2>1, StackPushed
  <2>3. IsStack(stack'[p], pc'[p], Root(p)')
    BY ONLY <1>3, <2>1, <2>2
  <2>4. Shallow(stack[p]) => Shallow(stack'[p])
    BY ONLY <2>1, <2>2
  <2> QED
    BY <2>3, <2>4
<1>6. CASE Returning(p)
  <2> DEFINE s == stack[p]
  <2>0. PICK parent : parent = s[Len(s) - 1]
    OBVIOUS
  <2> DEFINE joined == Included(parent.doc, Top(p).doc, Files[parent.path])
  <2>1. Len(s) > 1 /\ stack'[p] = Popped(s, joined)
    BY <1>6, <2>0 DEF Returning
  <2>2. IsDocument(parent.doc)
    <3>1. Len(s) \in Nat
      BY <1>2, SequenceFacts DEF IsStack
    <3>2. Len(s) - 1 \in 1..Len(s)
      BY <2>1, <3>1
    <3> QED
      BY <1>2, <2>0, <3>2 DEF IsStack, FrameInv, IsFrame
  <2>3. IsDocument(joined) /\ joined.includes = parent.doc.includes /\ joined.extends = parent.doc.extends
    <3>1. IsDocument(Top(p).doc)
      BY <1>2 DEF IsFrame
    <3> QED
      BY <2>2, <3>1, IncludedDocument
  <2>4. pc[p] = "return" /\ pc'[p] = "includes" /\ Kept(p)
    BY <1>6 DEF Returning
  <2> HIDE DEF joined
  <2>5. /\ IsStack(Popped(s, joined), "includes", Root(p))
        /\ Shallow(s) => Shallow(Popped(s, joined))
    BY <1>2, <2>0, <2>1, <2>3, <2>4, StackPopped
  <2>6. IsStack(stack'[p], pc'[p], Root(p)')
    BY ONLY <1>3, <2>1, <2>4, <2>5
  <2>7. Shallow(stack[p]) => Shallow(stack'[p])
    BY ONLY <2>1, <2>5
  <2> QED
    BY <2>6, <2>7
<1>7. CASE \E base : Merging(p, base)
  <2>1. PICK base : Merging(p, base)
    BY <1>7
  <2>2. IsDocument(base)
    BY <2>1, BaseIsDocument
  <2>3. IsDocument(MergeConfigs(base, Top(p).doc))
    BY <1>2, <2>2, MergedDocument DEF IsFrame
  <2>4. IsStack(stack[p], "return", Root(p))
    BY <1>2, <2>1, StackMoved DEF Merging, IncludesRead, Top
  <2>5. /\ stack'[p] = Opened(stack[p], MergeConfigs(base, Top(p).doc))
        /\ pc'[p] = "return" /\ Kept(p)
    BY <2>1 DEF Merging
  <2> QED
    BY <1>3, <2>3, <2>4, <2>5, StackMerged
<1>8. CASE Moving(p)
  <2>1. /\ Kept(p) /\ stack'[p] = stack[p] /\ pc'[p] # "open" /\ pc[p] \notin {"open", "return"}
        /\ pc[p] = "includes" => Top(p).next > Len(Top(p).doc.includes)
    BY <1>8 DEF Moving, IncludesRead, Fetching
  <2> QED
    BY <1>2, <1>3, <2>1, StackMoved DEF Top
<1>9. CASE LoadingEnv(p)
  <2>1. order[p].env \in DOMAIN Files
    BY <1>9, ConfigAssumption DEF ProcessInv, ConfigAssumption, LoadingEnv
  <2>2. IsStack(<<Frame(order[p].env)>>, "open", order[p].env) /\ Shallow(<<Frame(order[p].env)>>)
    BY <2>1, FirstFrame
  <2>3. Root(p)' = order[p].env
    BY <1>9 DEF Root, LoadingEnv, Elsewhere
  <2>4. stack'[p] = <<Frame(order[p].env)>> /\ pc'[p] = "open"
    BY <1>9 DEF LoadingEnv
  <2> QED
    BY ONLY <2>2, <2>3, <2>4
<1> QED
  BY <1>4, <1>5, <1>6, <1>7, <1>8, <1>9 DEF Effect

\* Every step keeps the files that are open a chain of includes.
LEMMA StackStep == ProcessInv /\ CacheInv /\ StackInv /\ [Next]_vars => StackInv'
<1> SUFFICES ASSUME ProcessInv, CacheInv, StackInv, [Next]_vars,
                    NEW q \in Procs, pc'[q] # "done"
             PROVE  IsStack(stack'[q], pc'[q], Root(q)')
  BY DEF StackInv, Loading
<1>1. ASSUME stack'[q] = stack[q], pc'[q] = pc[q], phase'[q] = phase[q], order' = order
      PROVE  IsStack(stack'[q], pc'[q], Root(q)')
  BY <1>1 DEF StackInv, Loading, Root
<1>2. CASE order' = order /\ pc' = pc /\ stack' = stack /\ phase' = phase
  BY <1>1, <1>2
<1>3. ASSUME NEW p \in Procs, Step(p) \/ Kill(p) PROVE IsStack(stack'[q], pc'[q], Root(q)')
  <2>1. Elsewhere(p) /\ pc[p] # "done"
    BY <1>3, Bystanders
  <2>2. CASE q # p
    BY <1>1, <2>1, <2>2 DEF Elsewhere
  <2>3. CASE q = p
    <3>1. Effect(p)
      BY <1>3, <2>3, Effects
    <3>2. IsStack(stack[p], pc[p], Root(p))
      BY <2>1 DEF StackInv, Loading
    <3> QED
      BY <2>1, <2>3, <3>1, <3>2, StackEffect
  <2> QED
    BY <2>2, <2>3
<1> QED
  BY <1>2, <1>3, Cases

(* A file that is done includes nothing that is too deep.                  *)
LEMMA RootIsShallow ==
  ASSUME StackInv, DepthInv, NEW p \in Procs, pc[p] = "return", Len(stack[p]) = 1
  PROVE  ~Deep(Root(p))
<1>1. IsStack(stack[p], "return", Root(p)) /\ Shallow(stack[p])
  BY DEF StackInv, DepthInv, Loading
<1>2. Level(stack[p][1].path)[MaxDepth + 2 - 1] = {}
  BY <1>1, DoneIsShallow
<1>3. stack[p][1].path = Root(p)
  BY <1>1, TopFrame DEF FrameInv
<1>4. MaxDepth + 2 - 1 = MaxDepth + 1
  BY MaxDepthIsNat
<1> QED
  BY <1>2, <1>3, <1>4 DEF Deep

\* What lies behind stays shallow: nothing that is too deep is read to its end.
LEMMA DepthStep == ProcessInv /\ CacheInv /\ StackInv /\ DepthInv /\ [Next]_vars => DepthInv'
<1> SUFFICES ASSUME ProcessInv, CacheInv, StackInv, DepthInv, [Next]_vars,
                    NEW q \in Procs, pc'[q] # "done"
             PROVE  Shallow(stack'[q]) /\ (phase'[q] = "env" => ~Deep(order'[q].path))
  BY DEF DepthInv, Loading, Deep
<1>1. ASSUME stack'[q] = stack[q], pc'[q] = pc[q], phase'[q] = phase[q], order' = order
      PROVE  Shallow(stack'[q]) /\ (phase'[q] = "env" => ~Deep(order'[q].path))
  BY <1>1 DEF DepthInv, Loading
<1>2. CASE order' = order /\ pc' = pc /\ stack' = stack /\ phase' = phase
  BY <1>1, <1>2
<1>3. ASSUME NEW p \in Procs, Step(p) \/ Kill(p)
      PROVE  Shallow(stack'[q]) /\ (phase'[q] = "env" => ~Deep(order'[q].path))
  <2>1. Elsewhere(p) /\ pc[p] # "done"
    BY <1>3, Bystanders
  <2>2. CASE q # p
    BY <1>1, <2>1, <2>2 DEF Elsewhere
  <2>3. CASE q = p
    <3>1. Effect(p)
      BY <1>3, <2>3, Effects
    <3>2. IsStack(stack[p], pc[p], Root(p)) /\ Shallow(stack[p])
      BY <2>1 DEF StackInv, DepthInv, Loading
    <3>3. Shallow(stack'[p])
      BY <2>1, <3>1, <3>2, StackEffect
    <3>4. ASSUME phase'[p] = "env" PROVE ~Deep(order[p].path)
      <4>1. CASE LoadingEnv(p)
        <5>1. pc[p] = "return" /\ Len(stack[p]) = 1 /\ phase[p] = "main"
          BY <4>1 DEF LoadingEnv
        <5> QED
          BY <5>1, RootIsShallow DEF Root
      <4>2. CASE Kept(p)
        BY <2>1, <3>4, <4>2 DEF DepthInv, Loading, Kept
      <4> QED
        BY <3>1, <4>1, <4>2 DEF Effect, Opening, Including, Returning, Merging, Moving
    <3> QED
      BY <2>1, <2>3, <3>3, <3>4 DEF Elsewhere
  <2> QED
    BY <2>2, <2>3
<1> QED
  BY <1>2, <1>3, Cases

-----------------------------------------------------------------------------
(* Results, and the cache.                                                 *)

(* What a step does to the result.                                         *)
LEMMA Results ==
  ASSUME ProcessInv, CacheInv, NEW p \in Procs, Step(p) \/ Kill(p)
  PROVE  \/ pc'[p] # "done" /\ result'[p] = result[p]
         \/ /\ pc[p] = "open" /\ TooDeep(p) /\ pc'[p] = "done"
            /\ result'[p].error = "include depth exceeded"
         \/ pc'[p] = "done" /\ result'[p].error \notin {"", "include depth exceeded"}
         \/ Finish(p)
<1>1. DOMAIN pc = Procs /\ DOMAIN result = Procs
  BY DEF ProcessInv
<1>2. \A error : Error(error).error = error
  BY DEF Error
<1>3. \A from, error : Fail(p, from, error) => pc[p] = from /\ pc'[p] = "done" /\ result'[p] = Error(error)
  BY <1>1 DEF Fail, Go
<1>4. CASE OpenFails(p) \/ ResolveFails(p) \/ NotYAML(p) \/ MergeFails(p)
  <2>1. CASE OpenFails(p)
    <3>1. CASE TooDeep(p) /\ Fail(p, "open", "include depth exceeded")
      BY <1>2, <1>3, <3>1
    <3>2. CASE Fail(p, "open", "reading config")
      BY <1>2, <1>3, <3>2
    <3>3. CASE Fail(p, "open", "parsing config")
      BY <1>2, <1>3, <3>3
    <3>4. \/ TooDeep(p) /\ Fail(p, "open", "include depth exceeded")
          \/ Fail(p, "open", "reading config") \/ Fail(p, "open", "parsing config")
      BY <2>1 DEF OpenFails
    <3> QED
      BY <3>1, <3>2, <3>3, <3>4
  <2>2. CASE ResolveFails(p)
    <3>1. Fail(p, "includes", "resolving extends")
      BY <2>2 DEF ResolveFails
    <3> QED
      BY <1>2, <1>3, <3>1
  <2>3. CASE NotYAML(p) \/ MergeFails(p)
    BY <1>2, <1>3, <2>3 DEF NotYAML, MergeFails
  <2> QED
    BY <1>4, <2>1, <2>2, <2>3
<1>5. CASE Open(p) \/ Include(p) \/ Return(p) \/ Alone(p) \/ ExtendFile(p) \/ readCache(p)
  BY <1>1, <1>5 DEF Open, Include, Return, Alone, ExtendFile, readCache, Extends, Go
<1>6. CASE NotModified(p) \/ Answer(p)
  BY <1>1, <1>6 DEF NotModified, Answer, Go
<1>7. CASE NoAnswer(p)
  <2>1. CASE Fail(p, "request", "fetching URL")
    BY <1>2, <1>3, <2>1
  <2>2. CASE ~Fail(p, "request", "fetching URL")
    BY <1>1, <1>7, <2>2 DEF NoAnswer, Go
  <2> QED
    BY <2>1, <2>2
<1>8. CASE CacheTruncated(p) \/ writeCache(p) \/ CacheNotWritten(p) \/ Merge(p) \/ LoadEnv(p)
  BY <1>1, <1>8 DEF CacheTruncated, writeCache, CacheNotWritten, Merge, LoadEnv, Go
<1>9. CASE Kill(p)
  BY <1>1, <1>2, <1>9 DEF Kill
<1> QED
  BY <1>4, <1>5, <1>6, <1>7, <1>8, <1>9 DEF Step

\* Every step leaves the processes in a stage with what belongs to it.
LEMMA ProcessStep == ProcessInv /\ CacheInv /\ StackInv /\ [Next]_vars => ProcessInv'
<1> SUFFICES ASSUME ProcessInv, CacheInv, StackInv, [Next]_vars PROVE ProcessInv'
  OBVIOUS
<1>1. CASE order' = order /\ pc' = pc /\ stack' = stack /\ phase' = phase /\ main' = main /\ result' = result
  BY <1>1 DEF ProcessInv, Loading
<1>2. ASSUME NEW p \in Procs, Step(p) \/ Kill(p) PROVE ProcessInv'
  <2>1. Elsewhere(p) /\ pc[p] # "done"
    BY <1>2, Bystanders
  <2>2. Effect(p) \/ (pc'[p] = "done" /\ stack'[p] = stack[p] /\ Kept(p))
    BY <1>2, Effects
  <2>3. pc'[p] # "done" => result'[p] = result[p]
    BY <1>2, <2>1, Results DEF Finish, Go, ProcessInv
  <2>4. pc'[p] \in Stages
    BY <2>2 DEF Effect, Opening, Including, Returning, Merging, Moving, LoadingEnv, Stages
  <2>5. IsDocument(Top(p).doc)
    BY <2>1, TopFrame DEF StackInv, Loading, Top, IsFrame
  <2>6. Kept(p) \/ LoadingEnv(p)
    BY <2>2 DEF Effect, Opening, Including, Returning, Merging, Moving
  <2>7. phase'[p] \in {"main", "env"} /\ (phase'[p] = "env" => order'[p].env # "")
    BY <2>1, <2>6 DEF ProcessInv, Kept, LoadingEnv, Elsewhere
  <2>8. IsDocument(main'[p]) /\ (phase'[p] = "main" => main'[p] = EmptyDoc)
    BY <2>1, <2>5, <2>6 DEF ProcessInv, Kept, LoadingEnv
  <2>9. pc'[p] # "done" => result'[p] = Unset
    BY <2>1, <2>3 DEF ProcessInv, Loading
  <2>10. ASSUME NEW q \in Procs, q # p
         PROVE  /\ pc'[q] \in Stages /\ (pc'[q] # "done" => result'[q] = Unset)
                /\ phase'[q] \in {"main", "env"} /\ (phase'[q] = "env" => order'[q].env # "")
                /\ IsDocument(main'[q]) /\ (phase'[q] = "main" => main'[q] = EmptyDoc)
    BY <2>1, <2>10 DEF ProcessInv, Loading, Elsewhere
  <2>11. /\ order' \in Orders /\ DOMAIN pc' = Procs /\ DOMAIN stack' = Procs /\ DOMAIN phase' = Procs
         /\ DOMAIN main' = Procs /\ DOMAIN result' = Procs
    BY <2>1 DEF ProcessInv, Elsewhere
  <2>12. \A q \in Procs :
            /\ pc'[q] \in Stages /\ (pc'[q] # "done" => result'[q] = Unset)
            /\ phase'[q] \in {"main", "env"} /\ (phase'[q] = "env" => order'[q].env # "")
            /\ IsDocument(main'[q]) /\ (phase'[q] = "main" => main'[q] = EmptyDoc)
    BY <2>4, <2>7, <2>8, <2>9, <2>10
  <2> QED
    BY <2>11, <2>12 DEF ProcessInv, Loading
<1> QED
  BY <1>1, <1>2, Cases

(* What a step does to the cache and to what is read of it.                *)
LEMMA Older ==
  ASSUME NEW e, NEW m \in Nat, NEW n \in Nat, m <= n, IsEntry(e, m)
  PROVE  IsEntry(e, n)
BY DEF IsEntry

\* A process reads, notes and writes versions that have been published.
LEMMA CacheEffects ==
  ASSUME ProcessInv, CacheInv, NEW p \in Procs, Step(p) \/ Kill(p)
  PROVE  /\ cache' # Unset => IsEntry(cache', server)
         /\ entry'[p] # Unset => IsEntry(entry'[p], server)
         /\ pc'[p] \in Fetching => IsEntry(entry'[p], server)
         /\ \/ used'[p] = used[p] /\ (pc'[p] \in Fetching => entry'[p] = entry[p] /\ pc[p] \in Fetching)
            \/ /\ pc[p] = "request" /\ pc'[p] \in Fetching /\ Kept(p) /\ stack'[p] = stack[p]
               /\ \E u : /\ used'[p] = used[p] \cup {u} /\ u.body = entry'[p].body /\ u.current = TRUE
                         /\ u.own = (Len(stack[p]) = 1 /\ phase[p] = "main")
                         /\ u.body = 0 => pc'[p] = "merge"
<1> DEFINE Same == entry'[p] = entry[p] /\ used'[p] = used[p] /\ cache' = cache /\ pc'[p] \notin Fetching
<1>1. /\ DOMAIN pc = Procs /\ DOMAIN stack = Procs /\ DOMAIN phase = Procs /\ DOMAIN main = Procs
      /\ DOMAIN entry = Procs /\ DOMAIN result = Procs /\ DOMAIN used = Procs
      /\ (cache # Unset => IsEntry(cache, server)) /\ (entry[p] # Unset => IsEntry(entry[p], server))
      /\ (pc[p] \in Fetching => IsEntry(entry[p], server))
  BY DEF ProcessInv, CacheInv
<1>12. server \in Nat /\ server > 0
  BY Published DEF CacheInv
<1>2. \A from, error : Fail(p, from, error) => Same
  BY <1>1 DEF Fail, Go, Fetching
<1>3. CASE OpenFails(p) \/ ResolveFails(p) \/ NotYAML(p) \/ MergeFails(p)
  <2>1. Same
    BY <1>2, <1>3 DEF OpenFails, ResolveFails, NotYAML, MergeFails
  <2> QED
    BY <1>1, <2>1
<1>4. CASE Open(p) \/ Include(p) \/ Return(p) \/ Alone(p) \/ ExtendFile(p) \/ LoadEnv(p) \/ Finish(p) \/ Kill(p)
  <2>1. Same
    BY <1>1, <1>4 DEF Open, Include, Return, Alone, ExtendFile, LoadEnv, Finish, Kill, Extends, Go, Fetching
  <2> QED
    BY <1>1, <2>1
<1>5. CASE readCache(p)
  <2>1. entry'[p] = cache /\ used'[p] = used[p] /\ cache' = cache /\ pc'[p] \notin Fetching
    BY <1>1, <1>5 DEF readCache, Extends, Go, Fetching
  <2> QED
    BY <1>1, <2>1
<1>6. CASE NotModified(p)
  <2>1. /\ entry[p] # Unset /\ entry[p].etag = server /\ pc[p] = "request" /\ pc'[p] = "merge"
        /\ Kept(p) /\ stack'[p] = stack[p] /\ entry'[p] = entry[p] /\ cache' = cache
        /\ Uses(p, entry[p].body, entry[p].body = server)
    BY <1>1, <1>6 DEF NotModified, Go, Kept
  <2>2. entry[p].body = server
    BY <1>1, <1>12, <2>1 DEF IsEntry
  <2>3. PICK u : /\ used'[p] = used[p] \cup {u} /\ u.body = entry[p].body
                 /\ u.current = (entry[p].body = server)
                 /\ u.own = (Len(stack[p]) = 1 /\ phase[p] = "main")
    BY <1>1, <2>1, UsesFacts
  <2>4. u.current = TRUE
    BY <2>2, <2>3
  <2> QED
    BY <1>1, <2>1, <2>3, <2>4 DEF Fetching
<1>7. CASE NoAnswer(p)
  <2>1. CASE Fail(p, "request", "fetching URL")
    <3>1. Same
      BY <1>2, <2>1
    <3> QED
      BY <1>1, <3>1
  <2>2. CASE ~Fail(p, "request", "fetching URL")
    <3>1. /\ entry[p] # Unset /\ pc[p] = "request" /\ pc'[p] = "merge"
          /\ Kept(p) /\ stack'[p] = stack[p] /\ entry'[p] = entry[p] /\ cache' = cache
          /\ Uses(p, entry[p].body, TRUE)
      BY <1>1, <1>7, <2>2 DEF NoAnswer, Go, Kept
    <3> DEFINE u == [own |-> Len(stack[p]) = 1 /\ phase[p] = "main", body |-> entry[p].body,
                     current |-> TRUE]
    <3>2. used'[p] = used[p] \cup {u}
      BY <1>1, <3>1 DEF Uses
    <3>3. u.body = entry[p].body /\ u.current = TRUE /\ u.own = (Len(stack[p]) = 1 /\ phase[p] = "main")
      OBVIOUS
    <3> HIDE DEF u
    <3> QED
      BY <1>1, <3>1, <3>2, <3>3 DEF Fetching
  <2> QED
    BY <2>1, <2>2
<1>8. CASE Answer(p)
  <2>1. PICK tagged \in BOOLEAN : entry' = [entry EXCEPT ![p] = Fetched(p, tagged)]
    BY <1>8 DEF Answer
  <2>2. entry'[p].body = server /\ entry'[p].etag \in {0, server}
    BY <1>1, <2>1 DEF Fetched
  <2>3. IsEntry(entry'[p], server)
    BY <1>1, <1>12, <2>2 DEF IsEntry
  <2>4. /\ pc[p] = "request" /\ pc'[p] = "truncate"
        /\ Kept(p) /\ stack'[p] = stack[p] /\ cache' = cache
        /\ Uses(p, entry'[p].body, entry'[p].body = server)
    BY <1>1, <1>8 DEF Answer, Go, Kept
  <2>5. PICK u : /\ used'[p] = used[p] \cup {u} /\ u.body = entry'[p].body
                 /\ u.current = (entry'[p].body = server)
                 /\ u.own = (Len(stack[p]) = 1 /\ phase[p] = "main")
    BY <1>1, <2>4, UsesFacts
  <2>6. u.current = TRUE
    BY <2>2, <2>5
  <2>7. u.body # 0
    BY <1>12, <2>2, <2>5
  <2> QED
    BY <1>1, <2>3, <2>4, <2>5, <2>6, <2>7 DEF Fetching
<1>9. CASE CacheTruncated(p)
  <2>1. /\ pc[p] \in Fetching /\ entry'[p] = entry[p] /\ used'[p] = used[p]
        /\ cache' = [etag |-> 0, body |-> 0]
    BY <1>1, <1>9 DEF CacheTruncated, Go, Fetching
  <2>2. IsEntry(cache', server)
    BY <1>1, <1>12, <2>1 DEF IsEntry
  <2> QED
    BY <1>1, <2>1, <2>2
<1>10. CASE writeCache(p) \/ CacheNotWritten(p)
  <2>1. /\ pc[p] \in Fetching /\ entry'[p] = entry[p] /\ used'[p] = used[p]
        /\ cache' \in {entry[p], cache}
    BY <1>1, <1>10 DEF writeCache, CacheNotWritten, Go, Fetching
  <2> QED
    BY <1>1, <2>1
<1>11. CASE Merge(p)
  <2>1. entry'[p] = Unset /\ used'[p] = used[p] /\ cache' = cache /\ pc'[p] \notin Fetching
    BY <1>1, <1>11 DEF Merge, Go, Fetching
  <2> QED
    BY <1>1, <2>1
<1> QED
  BY <1>3, <1>4, <1>5, <1>6, <1>7, <1>8, <1>9, <1>10, <1>11 DEF Step

\* Whoever writes it when, the cache holds a published version or nothing.
LEMMA CacheStep == ProcessInv /\ CacheInv /\ [Next]_vars => CacheInv'
<1> SUFFICES ASSUME ProcessInv, CacheInv, [Next]_vars PROVE CacheInv'
  OBVIOUS
<1>1. server \in Nat /\ Len(Remote) \in Nat
  BY Published DEF CacheInv
<1>2. CASE /\ order' = order /\ pc' = pc /\ stack' = stack /\ phase' = phase /\ main' = main
           /\ entry' = entry /\ cache' = cache /\ result' = result /\ used' = used
           /\ server' \in {server, server + 1} /\ server' <= Len(Remote)
  <2>1. /\ server' \in Nat /\ server <= server' /\ server' \in 1..Len(Remote)
        /\ \A n \in 0..server : n \in 0..server'
    BY <1>1, <1>2 DEF CacheInv
  <2>2. \A e : IsEntry(e, server) => IsEntry(e, server')
    BY <1>1, <2>1, Older
  <2> QED
    BY <1>2, <2>1, <2>2 DEF CacheInv
<1>3. ASSUME NEW p \in Procs, Step(p) \/ Kill(p) PROVE CacheInv'
  <2>1. Elsewhere(p)
    BY <1>3, Bystanders
  <2>2. /\ cache' # Unset => IsEntry(cache', server)
        /\ entry'[p] # Unset => IsEntry(entry'[p], server)
        /\ pc'[p] \in Fetching => IsEntry(entry'[p], server)
    BY <1>3, CacheEffects
  <2>3. \A u \in used'[p] : u.current = TRUE /\ u.body \in 0..server
    <3>1. CASE used'[p] = used[p]
      BY <3>1 DEF CacheInv
    <3>2. CASE used'[p] # used[p]
      <4>1. PICK u : /\ used'[p] = used[p] \cup {u} /\ u.body = entry'[p].body /\ u.current = TRUE
                     /\ pc'[p] \in Fetching
        BY <1>3, <3>2, CacheEffects
      <4>2. u.body \in 0..server
        BY <2>2, <4>1 DEF IsEntry
      <4> QED
        BY <4>1, <4>2 DEF CacheInv
    <3> QED
      BY <3>1, <3>2
  <2>4. ASSUME NEW q \in Procs, q # p
        PROVE  /\ entry'[q] # Unset => IsEntry(entry'[q], server)
               /\ pc'[q] \in Fetching => IsEntry(entry'[q], server)
               /\ \A u \in used'[q] : u.current = TRUE /\ u.body \in 0..server
    BY <2>1, <2>4 DEF CacheInv, Elsewhere
  <2>5. \A q \in Procs :
          /\ entry'[q] # Unset => IsEntry(entry'[q], server)
          /\ pc'[q] \in Fetching => IsEntry(entry'[q], server)
          /\ \A u \in used'[q] : u.current = TRUE /\ u.body \in 0..server
    BY <2>2, <2>3, <2>4
  <2>6. server' = server /\ DOMAIN entry' = Procs /\ DOMAIN used' = Procs
    BY <2>1 DEF Elsewhere
  <2> QED
    BY <2>2, <2>5, <2>6 DEF CacheInv
<1> QED
  BY <1>2, <1>3, Cases

(* A document that extends the empty entry has no version.                 *)
OwnEmpty(p) == \E u \in used[p] : u.own /\ u.body = 0
\* A file that extends the empty entry stays without a version.
LEMMA VersionStep == ProcessInv /\ CacheInv /\ StackInv /\ VersionInv /\ [Next]_vars => VersionInv'
<1> SUFFICES ASSUME ProcessInv, CacheInv, StackInv, VersionInv, [Next]_vars,
                    NEW q \in Procs, pc'[q] # "done", OwnEmpty(q)'
             PROVE  \/ phase'[q] = "env" /\ main'[q].version = 0
                    \/ /\ phase'[q] = "main" /\ Len(stack'[q]) = 1
                       /\ \/ pc'[q] = "merge" /\ entry'[q].body = 0
                          \/ pc'[q] = "return" /\ stack'[q][1].doc.version = 0
  BY DEF VersionInv, Loading, OwnEmpty
<1>1. pc[q] # "done" /\ OwnEmpty(q) =>
        \/ phase[q] = "env" /\ main[q].version = 0
        \/ /\ phase[q] = "main" /\ Len(stack[q]) = 1
           /\ \/ pc[q] = "merge" /\ entry[q].body = 0
              \/ pc[q] = "return" /\ stack[q][1].doc.version = 0
  BY DEF VersionInv, Loading, OwnEmpty
<1>2. CASE /\ order' = order /\ pc' = pc /\ stack' = stack /\ phase' = phase /\ main' = main
           /\ entry' = entry /\ used' = used
  BY <1>1, <1>2 DEF OwnEmpty
<1>3. ASSUME NEW p \in Procs, Step(p) \/ Kill(p), q # p
      PROVE  \/ phase'[q] = "env" /\ main'[q].version = 0
             \/ /\ phase'[q] = "main" /\ Len(stack'[q]) = 1
                /\ \/ pc'[q] = "merge" /\ entry'[q].body = 0
                   \/ pc'[q] = "return" /\ stack'[q][1].doc.version = 0
  <2>1. /\ pc'[q] = pc[q] /\ stack'[q] = stack[q] /\ phase'[q] = phase[q] /\ main'[q] = main[q]
        /\ entry'[q] = entry[q] /\ used'[q] = used[q]
    BY <1>3, Bystanders DEF Elsewhere
  <2> QED
    BY <1>1, <2>1 DEF OwnEmpty
<1>4. ASSUME Step(q) \/ Kill(q)
      PROVE  \/ phase'[q] = "env" /\ main'[q].version = 0
             \/ /\ phase'[q] = "main" /\ Len(stack'[q]) = 1
                /\ \/ pc'[q] = "merge" /\ entry'[q].body = 0
                   \/ pc'[q] = "return" /\ stack'[q][1].doc.version = 0
  <2>1. Elsewhere(q) /\ pc[q] # "done"
    BY <1>4, Bystanders
  <2>2. Effect(q)
    BY <1>4, Effects
  <2>3. IsStack(stack[q], pc[q], Root(q))
    BY <2>1 DEF StackInv, Loading
  <2>4. CASE used'[q] # used[q]
    <3>1. /\ Kept(q) /\ stack'[q] = stack[q] /\ pc[q] = "request"
          /\ \E u : /\ used'[q] = used[q] \cup {u} /\ u.body = entry'[q].body
                    /\ u.own = (Len(stack[q]) = 1 /\ phase[q] = "main")
                    /\ u.body = 0 => pc'[q] = "merge"
      BY <1>4, <2>4, CacheEffects
    <3>2. PICK u : /\ used'[q] = used[q] \cup {u} /\ u.body = entry'[q].body
                   /\ u.own = (Len(stack[q]) = 1 /\ phase[q] = "main")
                   /\ u.body = 0 => pc'[q] = "merge"
      BY <3>1
    <3>3. CASE OwnEmpty(q)
      BY <1>1, <2>1, <3>1, <3>3 DEF Kept
    <3>4. CASE ~OwnEmpty(q)
      <4>1. u.own /\ u.body = 0
        BY <3>2, <3>4 DEF OwnEmpty
      <4> QED
        BY <3>1, <3>2, <4>1 DEF Kept
    <3> QED
      BY <3>3, <3>4
  <2>5. CASE used'[q] = used[q]
    <3>1. OwnEmpty(q)
      BY <2>5 DEF OwnEmpty
    <3>2. CASE phase[q] = "env"
      <4>1. main[q].version = 0
        BY <1>1, <2>1, <3>1, <3>2
      <4>2. Kept(q)
        BY <2>2, <3>2 DEF Effect, Opening, Including, Returning, Merging, Moving, LoadingEnv
      <4> QED
        BY <3>2, <4>1, <4>2 DEF Kept
    <3>3. CASE phase[q] = "main" /\ Len(stack[q]) = 1 /\ pc[q] = "merge" /\ entry[q].body = 0
      <4>1. \E base : Merging(q, base)
        BY <2>2, <3>3 DEF Effect, Opening, Including, Returning, LoadingEnv, Moving, IncludesRead
      <4>2. PICK base : Merging(q, base)
        BY <4>1
      <4>3. base = EmptyDoc /\ pc'[q] = "return" /\ Kept(q)
        BY <3>3, <4>2 DEF Merging, IncludesRead, RemoteDoc
      <4>4. stack'[q] = Opened(stack[q], MergeConfigs(EmptyDoc, Top(q).doc))
        BY <4>2, <4>3 DEF Merging
      <4>5. IsDocument(Top(q).doc) /\ DOMAIN stack[q][Len(stack[q])] = {"path", "doc", "next"}
        BY <2>3, TopFrame DEF Top, IsFrame
      <4>6. MergeConfigs(EmptyDoc, Top(q).doc).version = 0
        BY <4>5, MergedDocument, EmptyIsDocument
      <4>7. IsSequence(stack[q]) /\ stack[q] # << >>
        BY <2>3 DEF IsStack
      <4>8. /\ Len(stack'[q]) = Len(stack[q])
            /\ stack'[q][Len(stack[q])].doc = MergeConfigs(EmptyDoc, Top(q).doc)
        BY <4>4, <4>5, <4>7, OpenedFrames
      <4> QED
        BY <3>3, <4>3, <4>6, <4>8 DEF Kept
    <3>4. CASE phase[q] = "main" /\ Len(stack[q]) = 1 /\ pc[q] = "return" /\ stack[q][1].doc.version = 0
      <4>1. LoadingEnv(q)
        BY <2>2, <3>4 DEF Effect, Opening, Including, Returning, Merging, Moving, IncludesRead, Fetching
      <4> QED
        BY <3>4, <4>1 DEF LoadingEnv, Top
    <3> QED
      BY <1>1, <2>1, <3>1, <3>2, <3>3, <3>4
  <2> QED
    BY <2>4, <2>5
<1> QED
  BY <1>2, <1>3, <1>4, Cases

-----------------------------------------------------------------------------
(* The depth of includes, and the version of what is extended: the first   *)
(* two properties.                                                         *)

\* The file that is being loaded is one of those of the order.
LEMMA RootIsPath ==
  ASSUME ProcessInv, StackInv, NEW p \in Procs, pc[p] # "done"
  PROVE  Root(p) \in Paths(p)
<1>1. IsStack(stack[p], pc[p], Root(p))
  BY DEF StackInv, Loading
<1>2. phase[p] = "main" \/ (phase[p] = "env" /\ order[p].env # "")
  BY DEF ProcessInv
<1> QED
  BY <1>2 DEF Root, Paths

\* No result, so none that is wrong.
LEMMA DepthInit == Init => DepthIsExact
BY DEF Init, DepthIsExact

\* A process ends well, or for the depth, only as the includes have it.
LEMMA DepthExactStep ==
  ProcessInv /\ CacheInv /\ StackInv /\ DepthInv /\ DepthIsExact /\ [Next]_vars => DepthIsExact'
<1> SUFFICES ASSUME ProcessInv, CacheInv, StackInv, DepthInv, DepthIsExact, [Next]_vars,
                    NEW q \in Procs, result'[q] # Unset
             PROVE  /\ result'[q].error = "" => \A path \in Paths(q)' : ~Deep(path)
                    /\ result'[q].error = "include depth exceeded" => \E path \in Paths(q)' : Deep(path)
  BY DEF DepthIsExact, Succeeds, Deep
<1>1. ASSUME result'[q] = result[q], order' = order
      PROVE  /\ result'[q].error = "" => \A path \in Paths(q)' : ~Deep(path)
             /\ result'[q].error = "include depth exceeded" => \E path \in Paths(q)' : Deep(path)
  BY <1>1 DEF DepthIsExact, Succeeds, Deep, Paths
<1>2. ASSUME Step(q) \/ Kill(q)
      PROVE  /\ result'[q].error = "" => \A path \in Paths(q)' : ~Deep(path)
             /\ result'[q].error = "include depth exceeded" => \E path \in Paths(q)' : Deep(path)
  <2>1. Elsewhere(q) /\ pc[q] # "done"
    BY <1>2, Bystanders
  <2>2. order' = order /\ Paths(q)' = Paths(q)
    BY <2>1 DEF Elsewhere, Paths
  <2>3. CASE result'[q] = result[q]
    BY <1>1, <2>2, <2>3
  <2>4. CASE pc[q] = "open" /\ TooDeep(q) /\ result'[q].error = "include depth exceeded"
    <3>1. IsStack(stack[q], "open", Root(q))
      BY <2>4 DEF StackInv, Loading
    <3>2. Len(stack[q]) \in Nat /\ FrameInv(stack[q], "open", Root(q), Len(stack[q]))
      BY <3>1, TopFrame
    <3>3. Len(stack[q]) <= MaxDepth + 2 /\ Top(q).path \in Level(Root(q))[Len(stack[q]) - 1]
      <4>1. ~IsRead(stack[q], "open", Len(stack[q])) \/ Len(stack[q]) <= MaxDepth + 1
        BY <3>2 DEF FrameInv
      <4>2. IsRead(stack[q], "open", Len(stack[q])) = FALSE
        BY <3>2 DEF IsRead
      <4> QED
        BY ONLY <3>2, <4>2, MaxDepthIsNat DEF FrameInv, Top
    <3>4. Len(stack[q]) - 1 = MaxDepth + 1
      <4>1. Len(stack[q]) - 1 > MaxDepth
        BY ONLY <2>4 DEF TooDeep
      <4>2. Len(stack[q]) \in Nat /\ Len(stack[q]) <= MaxDepth + 2
        BY ONLY <3>2, <3>3
      <4> QED
        BY ONLY <4>1, <4>2, MaxDepthIsNat
    <3>5. Deep(Root(q))
      BY <3>3, <3>4 DEF Deep
    <3> QED
      BY <2>1, <2>2, <2>4, <3>5, RootIsPath
  <2>5. CASE result'[q].error \notin {"", "include depth exceeded"}
    BY <2>5
  <2>6. CASE Finish(q)
    <3>1. pc[q] = "return" /\ Len(stack[q]) = 1 /\ (phase[q] = "env" \/ order[q].env = "")
      BY <2>6 DEF Finish, Go
    <3>2. result'[q].error \in {"", "validation failed"}
      BY <2>6 DEF Finish, Error, ProcessInv
    <3>3. ~Deep(Root(q))
      BY <3>1, RootIsShallow
    <3>4. phase[q] = "env" => ~Deep(order[q].path)
      BY <2>1 DEF DepthInv, Loading
    <3>5. phase[q] \in {"main", "env"} /\ (phase[q] = "env" => order[q].env # "")
      BY DEF ProcessInv
    <3>6. \A path \in Paths(q) : ~Deep(path)
      BY <3>1, <3>3, <3>4, <3>5 DEF Paths, Root
    <3> QED
      BY <2>2, <3>2, <3>6
  <2> QED
    BY <1>2, <2>3, <2>4, <2>5, <2>6, Results
<1>3. ASSUME NEW p \in Procs, Step(p) \/ Kill(p), q # p PROVE result'[q] = result[q] /\ order' = order
  BY <1>3, Bystanders DEF Elsewhere
<1> QED
  BY <1>1, <1>2, <1>3, Cases

-----------------------------------------------------------------------------
(* A validated configuration has a version.                                *)
HasVersion == \A p \in Procs :
  Succeeds(p) /\ order[p].validate => \A u \in used[p] : u.own => u.body # 0

\* Validation asks for a version.
LEMMA ValidVersion == ASSUME NEW cfg, Validate(cfg) PROVE cfg.version # 0
<1>1. cfg.version = 1
  BY DEF Validate
<1> QED
  BY ONLY <1>1

\* The version of the outermost document reaches the validation.
LEMMA FinalVersion ==
  ASSUME ProcessInv, CacheInv, StackInv, VersionInv, NEW p \in Procs, pc[p] = "return",
         Len(stack[p]) = 1, phase[p] = "env" \/ order[p].env = "", OwnEmpty(p)
  PROVE  Loaded(p).version = 0
<1>1. \/ phase[p] = "env" /\ main[p].version = 0
      \/ phase[p] = "main" /\ stack[p][1].doc.version = 0
  BY DEF VersionInv, Loading, OwnEmpty
<1>2. IsDocument(main[p]) /\ IsDocument(Top(p).doc)
  <2>1. IsStack(stack[p], pc[p], Root(p))
    BY DEF StackInv, Loading
  <2> QED
    BY <2>1, TopFrame DEF ProcessInv, IsFrame, Top
<1>3. DOMAIN main[p] = DOMAIN EmptyDoc /\ DOMAIN Top(p).doc = DOMAIN EmptyDoc
  BY <1>2 DEF IsDocument
<1>4. CASE phase[p] = "env"
  <2>1. Loaded(p) = Override(MergeEnv(main[p], Top(p).doc), order[p].flags)
    BY <1>4 DEF Loaded
  <2>2. /\ MergeEnv(main[p], Top(p).doc).version = main[p].version
        /\ DOMAIN MergeEnv(main[p], Top(p).doc) = DOMAIN EmptyDoc
    BY <1>3, FinalDocument
  <2>3. Override(MergeEnv(main[p], Top(p).doc), order[p].flags).version
          = MergeEnv(main[p], Top(p).doc).version
    BY <2>2, FinalDocument
  <2>4. main[p].version = 0
    BY <1>1, <1>4
  <2> QED
    BY ONLY <2>1, <2>2, <2>3, <2>4
<1>5. CASE phase[p] # "env"
  <2>1. Loaded(p) = Override(Top(p).doc, order[p].flags)
    BY <1>5 DEF Loaded
  <2>2. Top(p).doc.version = 0
    BY <1>1, <1>5 DEF Top
  <2>3. Override(Top(p).doc, order[p].flags).version = Top(p).doc.version
    BY ONLY <1>3, FinalDocument
  <2> QED
    BY ONLY <2>1, <2>2, <2>3
<1> QED
  BY <1>4, <1>5

\* No configuration is valid that extends the empty entry.
LEMMA HasVersionStep ==
  ProcessInv /\ CacheInv /\ StackInv /\ VersionInv /\ HasVersion /\ [Next]_vars => HasVersion'
<1> SUFFICES ASSUME ProcessInv, CacheInv, StackInv, VersionInv, HasVersion, [Next]_vars,
                    NEW q \in Procs, result'[q] # Unset, result'[q].error = "", order'[q].validate,
                    OwnEmpty(q)'
             PROVE  FALSE
  BY DEF HasVersion, Succeeds, OwnEmpty
<1>1. ASSUME result'[q] = result[q], order' = order, used'[q] = used[q] PROVE FALSE
  BY <1>1 DEF HasVersion, Succeeds, OwnEmpty
<1>2. ASSUME Step(q) \/ Kill(q) PROVE FALSE
  <2>1. Elsewhere(q) /\ pc[q] # "done"
    BY <1>2, Bystanders
  <2>2. result[q] = Unset
    BY <2>1 DEF ProcessInv, Loading
  <2>3. Finish(q)
    BY <1>2, <2>2, Results
  <2>4. /\ pc[q] = "return" /\ Len(stack[q]) = 1 /\ (phase[q] = "env" \/ order[q].env = "")
        /\ used' = used /\ order' = order
        /\ result' = [result EXCEPT ![q] = IF order[q].validate => Validate(Loaded(q))
                        THEN [error |-> "", cfg |-> Loaded(q)] ELSE Error("validation failed")]
    BY <2>3 DEF Finish, Go
  <2>5. OwnEmpty(q)
    BY <2>4 DEF OwnEmpty
  <2>6. Loaded(q).version = 0
    BY <2>4, <2>5, FinalVersion
  <2>7. ~Validate(Loaded(q))
    BY ONLY <2>6, ValidVersion
  <2>8. order[q].validate
    BY <2>4
  <2>9. result'[q].error = "validation failed"
    BY ONLY <2>4, <2>7, <2>8, q \in Procs, ProcessInv DEF Error, ProcessInv
  <2> QED
    BY <2>9
<1>3. ASSUME NEW p \in Procs, Step(p) \/ Kill(p), q # p
      PROVE  result'[q] = result[q] /\ order' = order /\ used'[q] = used[q]
  BY <1>3, Bystanders DEF Elsewhere
<1> QED
  BY <1>1, <1>2, <1>3, Cases

\* Nothing is used yet.
LEMMA VersionInit == Init => VersionInv /\ HasVersion
BY DEF Init, VersionInv, HasVersion, Succeeds

\* RemoteIsPublished, from what is used and the version it must have.
LEMMA PublishedFollows == CacheInv /\ HasVersion => RemoteIsPublished
BY DEF CacheInv, HasVersion, RemoteIsPublished

\* Nothing is being fetched yet.
LEMMA FetchInit == Init => FetchInv
BY DEF Init, FetchInv, Fetching

\* What is fetched stays noted and is what the innermost file extends.
LEMMA FetchStep == ProcessInv /\ CacheInv /\ FetchInv /\ [Next]_vars => FetchInv'
<1> SUFFICES ASSUME ProcessInv, CacheInv, FetchInv, [Next]_vars, NEW q \in Procs
             PROVE  /\ pc'[q] \in Fetching => \E u \in used'[q] : u.body = entry'[q].body
                    /\ pc'[q] \in Fetching \cup {"request"} => Top(q)'.doc.extends = "http"
  BY DEF FetchInv
<1>1. ASSUME pc'[q] = pc[q], stack'[q] = stack[q], entry'[q] = entry[q], used'[q] = used[q]
      PROVE  /\ pc'[q] \in Fetching => \E u \in used'[q] : u.body = entry'[q].body
             /\ pc'[q] \in Fetching \cup {"request"} => Top(q)'.doc.extends = "http"
  BY <1>1 DEF FetchInv, Top
<1>2. ASSUME Step(q) \/ Kill(q)
      PROVE  /\ pc'[q] \in Fetching => \E u \in used'[q] : u.body = entry'[q].body
             /\ pc'[q] \in Fetching \cup {"request"} => Top(q)'.doc.extends = "http"
  <2>1. CASE pc'[q] \notin Fetching \cup {"request"}
    BY <2>1
  <2>2. CASE pc'[q] \in Fetching \cup {"request"}
    <3>1. Effect(q)
      BY <1>2, <2>2, Effects DEF Fetching
    <3>2. Moving(q)
      BY <2>2, <3>1 DEF Effect, Opening, Including, Returning, Merging, LoadingEnv, Fetching
    <3>3. /\ stack'[q] = stack[q]
          /\ \/ Top(q).doc.extends = "http" /\ pc'[q] = "request"
             \/ /\ pc[q] = "request" /\ pc'[q] \in Fetching
                /\ \E u : used'[q] = used[q] \cup {u} /\ u.body = entry'[q].body
             \/ pc[q] \in Fetching /\ used'[q] = used[q] /\ entry'[q] = entry[q]
      BY <2>2, <3>2 DEF Moving, Fetching
    <3>4. Top(q)' = Top(q)
      BY <3>3 DEF Top
    <3>5. CASE Top(q).doc.extends = "http" /\ pc'[q] = "request"
      BY <3>4, <3>5 DEF Fetching
    <3>6. CASE /\ pc[q] = "request" /\ pc'[q] \in Fetching
               /\ \E u : used'[q] = used[q] \cup {u} /\ u.body = entry'[q].body
      BY <3>4, <3>6 DEF FetchInv
    <3>7. CASE pc[q] \in Fetching /\ used'[q] = used[q] /\ entry'[q] = entry[q]
      BY <3>4, <3>7 DEF FetchInv
    <3> QED
      BY <3>3, <3>5, <3>6, <3>7
  <2> QED
    BY <2>1, <2>2
<1>3. ASSUME NEW p \in Procs, Step(p) \/ Kill(p), q # p
      PROVE  pc'[q] = pc[q] /\ stack'[q] = stack[q] /\ entry'[q] = entry[q] /\ used'[q] = used[q]
  BY <1>3, Bystanders DEF Elsewhere
<1> QED
  BY <1>1, <1>2, <1>3, Cases

-----------------------------------------------------------------------------
(* What is gathered in the files that are open.                            *)
Below(s, m, part) == UNION {Elements(s[k].doc[part]) : k \in 1..m}

\* One file more.
LEMMA BelowNext ==
  ASSUME NEW s, NEW m \in Nat, NEW part
  PROVE  Below(s, m + 1, part) = Below(s, m, part) \cup Elements(s[m + 1].doc[part])
<1>1. 1..m + 1 = (1..m) \cup {m + 1}
  OBVIOUS
<1> QED
  BY <1>1 DEF Below

\* Only the files below count.
LEMMA BelowSame ==
  ASSUME NEW s, NEW t, NEW m, NEW part, \A k \in 1..m : t[k] = s[k]
  PROVE  Below(t, m, part) = Below(s, m, part)
BY DEF Below

\* All that is gathered: below the innermost file, in it, and in the main file.
LEMMA GatheredSplit ==
  ASSUME NEW s, IsSequence(s), s # << >>, NEW kept, NEW part
  PROVE  Gathered(s, kept, part)
           = Below(s, Len(s) - 1, part) \cup Elements(s[Len(s)].doc[part]) \cup Elements(kept[part])
<1>1. Len(s) - 1 \in Nat /\ (Len(s) - 1) + 1 = Len(s)
  BY SequenceFacts
<1>2. Below(s, (Len(s) - 1) + 1, part) = Below(s, Len(s) - 1, part) \cup Elements(s[(Len(s) - 1) + 1].doc[part])
  BY ONLY <1>1, BelowNext
<1>3. Gathered(s, kept, part) = Below(s, Len(s), part) \cup Elements(kept[part])
  BY DEF Gathered, Below
<1> QED
  BY ONLY <1>1, <1>2, <1>3

\* The document of the innermost is replaced.
LEMMA GatheredOpened ==
  ASSUME NEW s, IsSequence(s), s # << >>, DOMAIN s[Len(s)] = {"path", "doc", "next"},
         NEW d, NEW t, t = Opened(s, d), NEW kept, NEW part
  PROVE  Gathered(t, kept, part)
           = Below(s, Len(s) - 1, part) \cup Elements(d[part]) \cup Elements(kept[part])
<1>1. /\ IsSequence(t) /\ t # << >> /\ Len(t) = Len(s) /\ \A k \in 1..Len(s) - 1 : t[k] = s[k]
      /\ t[Len(s)].doc = d
  BY OpenedFrames
<1>2. Below(t, Len(s) - 1, part) = Below(s, Len(s) - 1, part)
  BY ONLY <1>1, BelowSame
<1>3. Gathered(t, kept, part)
        = Below(t, Len(t) - 1, part) \cup Elements(t[Len(t)].doc[part]) \cup Elements(kept[part])
  BY ONLY <1>1, GatheredSplit
<1> QED
  BY ONLY <1>1, <1>2, <1>3

\* Opening an include gathers nothing.
LEMMA GatheredPushed ==
  ASSUME NEW s, IsSequence(s), s # << >>, DOMAIN s[Len(s)] = {"path", "doc", "next"},
         NEW path, NEW t, t = Pushed(s, path), NEW kept, NEW part \in Parts
  PROVE  Gathered(t, kept, part) = Gathered(s, kept, part)
<1>1. /\ IsSequence(t) /\ t # << >> /\ Len(t) = Len(s) + 1 /\ \A k \in 1..Len(s) - 1 : t[k] = s[k]
      /\ t[Len(s)].doc = s[Len(s)].doc /\ t[Len(s) + 1] = Frame(path)
  BY PushedFrames
<1>2. Len(s) \in Nat /\ Len(s) - 1 \in Nat /\ (Len(s) - 1) + 1 = Len(s) /\ (Len(s) + 1) - 1 = Len(s)
  BY SequenceFacts
<1>3. Below(t, Len(s) - 1, part) = Below(s, Len(s) - 1, part)
  BY ONLY <1>1, BelowSame
<1>4. Below(t, Len(s), part) = Below(t, Len(s) - 1, part) \cup Elements(t[Len(s)].doc[part])
  BY ONLY <1>2, BelowNext
<1>5. Elements(Frame(path).doc[part]) = {}
  BY FrameFacts, EmptyIsDocument
<1>6. Gathered(t, kept, part)
        = Below(t, Len(t) - 1, part) \cup Elements(t[Len(t)].doc[part]) \cup Elements(kept[part])
  BY ONLY <1>1, GatheredSplit
<1>7. Gathered(s, kept, part)
        = Below(s, Len(s) - 1, part) \cup Elements(s[Len(s)].doc[part]) \cup Elements(kept[part])
  BY GatheredSplit
<1> QED
  BY ONLY <1>1, <1>2, <1>3, <1>4, <1>5, <1>6, <1>7

\* Nor does closing it: what it has goes to the file below.
LEMMA GatheredPopped ==
  ASSUME NEW s, IsSequence(s), Len(s) > 1, DOMAIN s[Len(s) - 1] = {"path", "doc", "next"},
         NEW d, NEW t, t = Popped(s, d), NEW kept, NEW part,
         Elements(d[part]) = Elements(s[Len(s)].doc[part]) \cup Elements(s[Len(s) - 1].doc[part])
  PROVE  Gathered(t, kept, part) = Gathered(s, kept, part)
<1>1. /\ IsSequence(t) /\ t # << >> /\ Len(t) = Len(s) - 1 /\ \A k \in 1..Len(s) - 2 : t[k] = s[k]
      /\ t[Len(s) - 1].doc = d
  BY PoppedFrames
<1>2. /\ Len(s) \in Nat /\ Len(s) - 2 \in Nat /\ (Len(s) - 2) + 1 = Len(s) - 1
      /\ (Len(s) - 1) - 1 = Len(s) - 2 /\ s # << >>
  BY SequenceFacts
<1>3. Below(t, Len(s) - 2, part) = Below(s, Len(s) - 2, part)
  BY ONLY <1>1, BelowSame
<1>4. Below(s, Len(s) - 1, part) = Below(s, Len(s) - 2, part) \cup Elements(s[Len(s) - 1].doc[part])
  <2>1. Below(s, (Len(s) - 2) + 1, part)
          = Below(s, Len(s) - 2, part) \cup Elements(s[(Len(s) - 2) + 1].doc[part])
    BY ONLY <1>2, BelowNext
  <2> QED
    BY ONLY <1>2, <2>1
<1>6. Gathered(t, kept, part)
        = Below(t, Len(t) - 1, part) \cup Elements(t[Len(t)].doc[part]) \cup Elements(kept[part])
  BY ONLY <1>1, GatheredSplit
<1>7. Gathered(s, kept, part)
        = Below(s, Len(s) - 1, part) \cup Elements(s[Len(s)].doc[part]) \cup Elements(kept[part])
  BY <1>2, GatheredSplit
<1>8. Elements(d[part]) = Elements(s[Len(s)].doc[part]) \cup Elements(s[Len(s) - 1].doc[part])
  OBVIOUS
<1> QED
  BY ONLY <1>1, <1>2, <1>3, <1>4, <1>6, <1>7, <1>8

-----------------------------------------------------------------------------
(* Nothing is missed: what lies behind a process has been gathered.        *)

\* What a file extends has been gathered for good.
LEMMA ExtendedMore ==
  ASSUME NEW all, NEW more, all \subseteq more, NEW f, NEW part, HasExtended(all, f, part)
  PROVE  HasExtended(more, f, part)
BY DEF HasExtended

\* What a path reaches has been gathered for good.
LEMMA ReachedMore ==
  ASSUME NEW all, NEW more, all \subseteq more, NEW path, NEW part, HasReached(all, path, part)
  PROVE  HasReached(more, path, part)
<1> SUFFICES ASSUME NEW f \in Reached(path)
             PROVE  Files[f] # Unset /\ Elements(Files[f][part]) \subseteq more /\ HasExtended(more, f, part)
  BY DEF HasReached
<1>1. Files[f] # Unset /\ Elements(Files[f][part]) \subseteq all /\ HasExtended(all, f, part)
  BY DEF HasReached
<1> QED
  BY <1>1, ExtendedMore

\* What has been gathered of a file with the same includes behind.
LEMMA ReadSame ==
  ASSUME NEW s, NEW at, NEW all, NEW part, NEW k, ReadInv(s, at, all, part, k),
         NEW t, NEW to, NEW more, IsRead(t, to, k) => IsRead(s, at, k), all \subseteq more,
         t[k].path = s[k].path, Behind(t, k) = Behind(s, k),
         k = Len(t) /\ to = "return" => HasExtended(more, s[k].path, part)
  PROVE  ReadInv(t, to, more, part, k)
<1> SUFFICES ASSUME IsRead(t, to, k)
             PROVE  /\ Elements(Files[s[k].path][part]) \subseteq more
                    /\ \A i \in 1..Behind(s, k) : HasReached(more, Files[s[k].path].includes[i], part)
  BY DEF ReadInv
<1>1. /\ Elements(Files[s[k].path][part]) \subseteq all
      /\ \A i \in 1..Behind(s, k) : HasReached(all, Files[s[k].path].includes[i], part)
  BY DEF ReadInv
<1>2. \A g : HasReached(all, g, part) => HasReached(more, g, part)
  BY ReachedMore
<1> QED
  BY <1>1, <1>2

\* The innermost file has been read, and is gathered.
LEMMA ReadOpened ==
  ASSUME NEW s, NEW root, IsStack(s, "open", root),
         NEW file, file = Files[s[Len(s)].path], file # Unset,
         NEW t, t = Opened(s, file), NEW part, NEW all, NEW more, all \subseteq more,
         HasRead(s, "open", all, part), Elements(file[part]) \subseteq more
  PROVE  HasRead(t, "includes", more, part)
<1> DEFINE n == Len(s)
<1>1. /\ IsSequence(s) /\ s # << >> /\ n \in Nat \ {0} /\ n = Len(s)
      /\ FrameInv(s, "open", root, n) /\ DOMAIN s[n] = {"path", "doc", "next"}
  BY TopFrame DEF IsStack
<1>2. /\ Len(t) = n /\ \A k \in 1..n - 1 : t[k] = s[k]
      /\ t[n].path = s[n].path /\ t[n].next = s[n].next
  BY <1>1, OpenedFrames
<1> HIDE DEF n
<1>3. s[n].next = 1
  BY ONLY <1>1 DEF FrameInv, IsRead
<1>4. ReadInv(t, "includes", more, part, n)
  <2>1. Behind(t, n) = 1 - 1
    BY ONLY <1>1, <1>2, <1>3, BehindFacts
  <2> QED
    BY <1>1, <1>2, <2>1 DEF ReadInv
<1>5. ASSUME NEW k \in 1..n - 1 PROVE ReadInv(t, "includes", more, part, k)
  <2>1. /\ k \in 1..n /\ k < n /\ t[k] = s[k] /\ Behind(t, k) = t[k].next - 2
        /\ Behind(s, k) = s[k].next - 2
    BY ONLY <1>1, <1>2, <1>5, BehindFacts
  <2>2. ReadInv(s, "open", all, part, k)
    BY <1>1, <2>1 DEF HasRead
  <2>3. IsRead(s, "open", k)
    BY ONLY <1>1, <2>1 DEF IsRead
  <2>4. t[k].path = s[k].path /\ Behind(t, k) = Behind(s, k) /\ all \subseteq more
    BY <2>1
  <2> QED
    BY ONLY <2>2, <2>3, <2>4, ReadSame
<1>6. \A k \in 1..Len(t) : k = n \/ k \in 1..n - 1
  BY <1>1, <1>2
<1> QED
  BY <1>4, <1>5, <1>6 DEF HasRead

\* An include is opened; the same lies behind.
LEMMA ReadPushed ==
  ASSUME NEW s, NEW root, IsStack(s, "includes", root), NEW path, NEW t, t = Pushed(s, path),
         NEW part, NEW all, HasRead(s, "includes", all, part)
  PROVE  HasRead(t, "open", all, part)
<1> DEFINE n == Len(s)
<1>1. /\ IsSequence(s) /\ s # << >> /\ n \in Nat \ {0} /\ n = Len(s) /\ s[n].next \in Nat
      /\ DOMAIN s[n] = {"path", "doc", "next"}
  BY TopFrame DEF IsStack
<1>2. /\ Len(t) = n + 1 /\ \A k \in 1..n - 1 : t[k] = s[k]
      /\ t[n].path = s[n].path /\ t[n].next = s[n].next + 1
  BY <1>1, PushedFrames
<1> HIDE DEF n
<1>3. ReadInv(t, "open", all, part, n + 1)
  <2>1. ~IsRead(t, "open", n + 1)
    BY ONLY <1>1, <1>2 DEF IsRead
  <2> QED
    BY ONLY <2>1 DEF ReadInv
<1>4. ASSUME NEW k \in 1..n PROVE ReadInv(t, "open", all, part, k)
  <2>1. t[k].path = s[k].path /\ Behind(t, k) = Behind(s, k) /\ k # Len(t)
    <3>1. CASE k = n
      <4>1. n \in 1..Len(t) - 1 /\ Len(t) \in Nat /\ Len(s) \in Nat
        BY ONLY <1>1, <1>2
      <4>2. Behind(t, n) = t[n].next - 2
        BY ONLY <4>1, BehindFacts
      <4>3. Behind(s, n) = s[n].next - 1
        BY ONLY <1>1, <4>1, BehindFacts
      <4>4. t[n].path = s[n].path /\ Behind(t, n) = Behind(s, n) /\ n # Len(t)
        BY ONLY <1>1, <1>2, <4>2, <4>3
      <4> QED
        BY ONLY <3>1, <4>4
    <3>2. CASE k # n
      <4>1. k \in 1..n - 1 /\ k \in 1..(n + 1) - 1
        BY ONLY <1>1, <1>4, <3>2
      <4>2. Behind(t, k) = t[k].next - 2 /\ Behind(s, k) = s[k].next - 2
        BY ONLY <1>1, <1>2, <4>1, BehindFacts
      <4> QED
        BY ONLY <1>1, <1>2, <4>1, <4>2
    <3> QED
      BY <3>1, <3>2
  <2>2. ReadInv(s, "includes", all, part, k) /\ IsRead(s, "includes", k)
    BY <1>1, <1>4 DEF HasRead, IsRead
  <2> QED
    BY ONLY <2>1, <2>2, ReadSame
<1>5. \A k \in 1..Len(t) : k = n + 1 \/ k \in 1..n
  BY ONLY <1>1, <1>2
<1> QED
  BY <1>3, <1>4, <1>5 DEF HasRead

(* When a file is done, all that it includes has been gathered.            *)
LEMMA ReachedWhole ==
  ASSUME NEW s, NEW root, IsStack(s, "return", root), NEW part, NEW all,
         HasRead(s, "return", all, part)
  PROVE  HasReached(all, s[Len(s)].path, part)
<1> DEFINE n == Len(s)
           path == s[n].path
<1>1. /\ n \in Nat \ {0} /\ n \in 1..n /\ n = Len(s) /\ path = s[n].path /\ Files[path] # Unset
      /\ \A g \in Includes(path) : \E i \in 1..Behind(s, n) : g = Files[path].includes[i]
  BY TopFrame, TopDone
<1>2. ReadInv(s, "return", all, part, n)
  BY <1>1 DEF HasRead
<1> HIDE DEF n, path
<1>3. IsRead(s, "return", n)
  BY DEF IsRead
<1>4. /\ Elements(Files[path][part]) \subseteq all
      /\ \A i \in 1..Behind(s, n) : HasReached(all, Files[path].includes[i], part)
      /\ HasExtended(all, path, part)
  BY ONLY <1>1, <1>2, <1>3 DEF ReadInv
<1>5. \A g \in Includes(path) : HasReached(all, g, part)
  BY ONLY <1>1, <1>4
<1>6. HasReached(all, path, part)
  <2> SUFFICES ASSUME NEW f \in Reached(path)
               PROVE  Files[f] # Unset /\ Elements(Files[f][part]) \subseteq all /\ HasExtended(all, f, part)
    BY DEF HasReached
  <2>1. CASE f = path
    BY ONLY <1>1, <1>4, <2>1
  <2>2. CASE f # path
    <3>1. PICK g \in Includes(path) : f \in Reached(g)
      BY ONLY <2>2, f \in Reached(path), ReachedByIncludes
    <3> QED
      BY ONLY <1>5, <3>1 DEF HasReached
  <2> QED
    BY <2>1, <2>2
<1> QED
  BY ONLY <1>1, <1>6

\* The file that is done lies behind the one that includes it.
LEMMA ReadPopped ==
  ASSUME NEW s, NEW root, IsStack(s, "return", root), Len(s) > 1, NEW doc,
         NEW t, t = Popped(s, doc), NEW part, NEW all, HasRead(s, "return", all, part)
  PROVE  HasRead(t, "includes", all, part)
<1> DEFINE n == Len(s)
           m == n - 1
           next == s[m].next
<1>1. /\ IsSequence(s) /\ n \in Nat /\ m \in Nat \ {0} /\ m \in 1..n /\ m < n /\ n = m + 1 /\ m = n - 1
      /\ n = Len(s) /\ next = s[m].next /\ FrameInv(s, "return", root, m)
  BY SequenceFacts DEF IsStack
<1>2. /\ next \in Nat /\ next > 1 /\ DOMAIN s[m] = {"path", "doc", "next"}
      /\ s[n].path = Files[s[m].path].includes[next - 1]
  BY ONLY <1>1 DEF FrameInv, IsFrame
<1>3. /\ Len(t) = m /\ \A k \in 1..m - 1 : t[k] = s[k]
      /\ t[m].path = s[m].path /\ t[m].next = next
  <2>1. /\ Len(t) = Len(s) - 1 /\ \A k \in 1..Len(s) - 2 : t[k] = s[k]
        /\ t[Len(s) - 1].path = s[Len(s) - 1].path /\ t[Len(s) - 1].next = s[Len(s) - 1].next
    <3>1. IsSequence(s) /\ Len(s) > 1 /\ DOMAIN s[Len(s) - 1] = {"path", "doc", "next"}
      BY <1>1, <1>2
    <3>2. t = Popped(s, doc)
      OBVIOUS
    <3> QED
      BY ONLY <3>1, <3>2, PoppedFrames
  <2>2. Len(s) - 2 = m - 1
    BY <1>1
  <2> QED
    BY <2>1, <2>2
<1>4. HasReached(all, s[n].path, part)
  BY ReachedWhole
<1> HIDE DEF n, m, next
<1>5. ReadInv(t, "includes", all, part, m)
  <2>1. m \in 1..Len(s) - 1
    BY ONLY <1>1
  <2>2. Behind(t, m) = next - 1 /\ Behind(s, m) = next - 2
    BY ONLY <1>1, <1>3, <2>1, BehindFacts
  <2>3. ReadInv(s, "return", all, part, m) /\ IsRead(s, "return", m)
    BY <1>1 DEF HasRead, IsRead
  <2>4. /\ Elements(Files[s[m].path][part]) \subseteq all
        /\ \A i \in 1..next - 2 : HasReached(all, Files[s[m].path].includes[i], part)
    BY ONLY <2>2, <2>3 DEF ReadInv
  <2>5. \A i \in 1..next - 1 : HasReached(all, Files[s[m].path].includes[i], part)
    <3>1. \A i \in 1..next - 1 : i = next - 1 \/ i \in 1..next - 2
      BY ONLY <1>2
    <3> QED
      BY ONLY <1>2, <1>4, <2>4, <3>1
  <2> QED
    BY ONLY <1>1, <1>3, <2>2, <2>4, <2>5 DEF ReadInv
<1>6. ASSUME NEW k \in 1..m - 1 PROVE ReadInv(t, "includes", all, part, k)
  <2>1. k \in 1..n /\ k < n /\ k \in 1..n - 1
    BY ONLY <1>1, <1>6
  <2>2. ReadInv(s, "return", all, part, k) /\ IsRead(s, "return", k)
    BY <1>1, <2>1 DEF HasRead, IsRead
  <2>3. t[k] = s[k] /\ Behind(t, k) = t[k].next - 2 /\ Behind(s, k) = s[k].next - 2
    BY ONLY <1>1, <1>3, <1>6, <2>1, BehindFacts
  <2>4. t[k].path = s[k].path /\ Behind(t, k) = Behind(s, k)
    BY ONLY <2>3
  <2> QED
    BY ONLY <2>2, <2>4, ReadSame
<1>7. \A k \in 1..m : k = m \/ k \in 1..m - 1
  BY ONLY <1>1
<1> QED
  BY <1>3, <1>5, <1>6, <1>7 DEF HasRead

\* Nothing but the innermost file is extended while the stage changes.
LEMMA ReadMoved ==
  ASSUME NEW s, NEW root, NEW at, NEW to, at # "open", IsStack(s, at, root), NEW part, NEW all,
         HasRead(s, at, all, part), NEW t, Len(t) = Len(s),
         \A k \in 1..Len(s) : t[k].path = s[k].path /\ t[k].next = s[k].next,
         NEW more, all \subseteq more, to = "return" => HasExtended(more, s[Len(s)].path, part)
  PROVE  HasRead(t, to, more, part)
<1> SUFFICES ASSUME NEW k \in 1..Len(s) PROVE ReadInv(t, to, more, part, k)
  BY DEF HasRead
<1>1. ReadInv(s, at, all, part, k) /\ IsRead(s, at, k)
  BY DEF HasRead, IsRead
<1>2. t[k].path = s[k].path /\ Behind(t, k) = Behind(s, k)
  BY DEF Behind
<1>3. k = Len(t) /\ to = "return" => HasExtended(more, s[k].path, part)
  OBVIOUS
<1>4. all \subseteq more
  OBVIOUS
<1> QED
  BY ONLY <1>1, <1>2, <1>3, <1>4, ReadSame

\* A merge changes neither paths nor positions.
LEMMA SameFrames ==
  ASSUME NEW s, NEW root, NEW at, IsStack(s, at, root), NEW doc, NEW t, t = Opened(s, doc)
  PROVE  Len(t) = Len(s) /\ \A k \in 1..Len(s) : t[k].path = s[k].path /\ t[k].next = s[k].next
<1>1. /\ IsSequence(s) /\ s # << >> /\ Len(s) \in Nat \ {0}
      /\ DOMAIN s[Len(s)] = {"path", "doc", "next"}
  BY TopFrame DEF IsStack
<1>2. /\ Len(t) = Len(s) /\ \A k \in 1..Len(s) - 1 : t[k] = s[k]
      /\ t[Len(s)].path = s[Len(s)].path /\ t[Len(s)].next = s[Len(s)].next
  BY <1>1, OpenedFrames
<1>3. \A k \in 1..Len(s) : k = Len(s) \/ k \in 1..Len(s) - 1
  BY ONLY <1>1
<1> QED
  BY ONLY <1>2, <1>3

-----------------------------------------------------------------------------
(* What each step gathers, and that it is known.                           *)

\* Reading a file gathers what it has.
LEMMA OpeningGathers ==
  ASSUME NEW p \in Procs, IsStack(stack[p], pc[p], Root(p)), Opening(p), NEW part \in Parts
  PROVE  Gathered(stack'[p], main'[p], part)
           = Gathered(stack[p], main[p], part) \cup Elements(Files[Top(p).path][part])
<1> DEFINE s == stack[p]
           file == Files[Top(p).path]
<1>1. IsStack(s, "open", Root(p)) /\ stack'[p] = Opened(s, file) /\ main'[p] = main[p]
  BY DEF Opening, Kept
<1>2. /\ IsSequence(s) /\ s # << >> /\ DOMAIN s[Len(s)] = {"path", "doc", "next"}
      /\ FrameInv(s, "open", Root(p), Len(s))
  BY <1>1, TopFrame DEF IsStack
<1> HIDE DEF file
<1>3. s[Len(s)].doc = EmptyDoc
  BY ONLY <1>2 DEF FrameInv, IsRead
<1>4. Elements(s[Len(s)].doc[part]) = {}
  BY <1>3, EmptyIsDocument
<1>5. Gathered(stack'[p], main[p], part)
        = Below(s, Len(s) - 1, part) \cup Elements(file[part]) \cup Elements(main[p][part])
  BY ONLY <1>1, <1>2, GatheredOpened
<1>6. Gathered(s, main[p], part)
        = Below(s, Len(s) - 1, part) \cup Elements(s[Len(s)].doc[part]) \cup Elements(main[p][part])
  BY ONLY <1>2, GatheredSplit
<1>7. Gathered(stack'[p], main'[p], part) = Gathered(s, main[p], part) \cup Elements(file[part])
  BY ONLY <1>1, <1>4, <1>5, <1>6
<1> QED
  BY <1>7 DEF file

\* Merging a document gathers what it has.
LEMMA MergingGathers ==
  ASSUME CacheInv, NEW p \in Procs, NEW at, IsStack(stack[p], at, Root(p)), NEW base, Merging(p, base),
         NEW part \in Parts
  PROVE  Gathered(stack'[p], main'[p], part)
           = Gathered(stack[p], main[p], part) \cup Elements(base[part])
<1> DEFINE s == stack[p]
           top == s[Len(s)].doc
           doc == MergeConfigs(base, top)
<1>1. stack'[p] = Opened(s, doc) /\ main'[p] = main[p]
  BY DEF Merging, Kept, Top
<1>2. /\ IsSequence(s) /\ s # << >> /\ DOMAIN s[Len(s)] = {"path", "doc", "next"} /\ IsDocument(top)
  BY TopFrame DEF IsStack, IsFrame
<1>3. IsDocument(base)
  BY BaseIsDocument
<1>4. doc[part] = base[part] \o top[part]
  BY ONLY <1>3, part \in Parts, MergedParts
<1>5. IsSequence(base[part]) /\ IsSequence(top[part])
  BY <1>2, <1>3, PartsAreSequences
<1> HIDE DEF doc
<1>6. Elements(doc[part]) = Elements(base[part]) \cup Elements(top[part])
  BY ONLY <1>4, <1>5, Joined
<1>7. Gathered(stack'[p], main[p], part)
        = Below(s, Len(s) - 1, part) \cup Elements(doc[part]) \cup Elements(main[p][part])
  BY ONLY <1>1, <1>2, GatheredOpened
<1>8. Gathered(s, main[p], part)
        = Below(s, Len(s) - 1, part) \cup Elements(top[part]) \cup Elements(main[p][part])
  BY ONLY <1>2, GatheredSplit
<1> QED
  BY ONLY <1>1, <1>6, <1>7, <1>8

\* No other step gathers or drops anything.
LEMMA OthersGather ==
  ASSUME ProcessInv, NEW p \in Procs, IsStack(stack[p], pc[p], Root(p)), NEW part \in Parts,
         Including(p) \/ Returning(p) \/ Moving(p) \/ LoadingEnv(p)
  PROVE  Gathered(stack'[p], main'[p], part) = Gathered(stack[p], main[p], part)
<1> DEFINE s == stack[p]
<1>1. /\ IsSequence(s) /\ s # << >> /\ Len(s) \in Nat \ {0} /\ DOMAIN s[Len(s)] = {"path", "doc", "next"}
      /\ IsFrame(s[Len(s)])
  BY TopFrame DEF IsStack
<1>2. CASE Moving(p)
  BY <1>2 DEF Moving, Kept
<1>3. CASE Including(p)
  <2> DEFINE path == Top(p).doc.includes[Top(p).next]
  <2>1. stack'[p] = Pushed(s, path) /\ main'[p] = main[p]
    BY <1>3 DEF Including, Kept
  <2> HIDE DEF path
  <2>2. Gathered(stack'[p], main[p], part) = Gathered(s, main[p], part)
    BY ONLY <1>1, <2>1, part \in Parts, GatheredPushed
  <2> QED
    BY ONLY <2>1, <2>2
<1>4. CASE Returning(p)
  <2>0. PICK parent : parent = s[Len(s) - 1]
    OBVIOUS
  <2> DEFINE doc == Included(parent.doc, Top(p).doc, Files[parent.path])
  <2>1. Len(s) > 1 /\ stack'[p] = Popped(s, doc) /\ main'[p] = main[p]
    BY <1>4, <2>0 DEF Returning, Kept
  <2>2. IsFrame(parent)
    <3>1. Len(s) - 1 \in 1..Len(s)
      BY <1>1, <2>1
    <3> QED
      BY <2>0, <3>1 DEF IsStack, FrameInv
  <2>3. /\ IsDocument(parent.doc) /\ IsDocument(Top(p).doc) /\ DOMAIN parent = {"path", "doc", "next"}
        /\ Top(p).doc = s[Len(s)].doc
    BY <1>1, <2>2 DEF IsFrame, Top
  <2>4. doc[part] = Top(p).doc[part] \o parent.doc[part]
    BY ONLY <2>3, part \in Parts, IncludedParts
  <2>5. IsSequence(parent.doc[part]) /\ IsSequence(Top(p).doc[part])
    BY <2>3, PartsAreSequences
  <2> HIDE DEF doc
  <2>6. Elements(doc[part]) = Elements(s[Len(s)].doc[part]) \cup Elements(s[Len(s) - 1].doc[part])
    BY ONLY <2>0, <2>3, <2>4, <2>5, Joined
  <2>7. DOMAIN s[Len(s) - 1] = {"path", "doc", "next"}
    BY ONLY <2>0, <2>3
  <2>8. Gathered(stack'[p], main[p], part) = Gathered(s, main[p], part)
    BY ONLY <1>1, <2>1, <2>6, <2>7, GatheredPopped
  <2> QED
    BY ONLY <2>1, <2>8
<1>5. CASE LoadingEnv(p)
  <2>1. /\ Len(s) = 1 /\ stack'[p] = <<Frame(order[p].env)>> /\ main'[p] = s[1].doc /\ main[p] = EmptyDoc
    BY <1>5 DEF LoadingEnv, ProcessInv, Top
  <2>2. Elements(EmptyDoc[part]) = {}
    BY EmptyIsDocument
  <2>3. Below(s, 0, part) = {} /\ Below(stack'[p], 0, part) = {}
    BY DEF Below
  <2>4. Gathered(s, main[p], part) = Elements(s[1].doc[part])
    <3>1. Gathered(s, main[p], part)
            = Below(s, Len(s) - 1, part) \cup Elements(s[Len(s)].doc[part]) \cup Elements(main[p][part])
      BY ONLY <1>1, GatheredSplit
    <3> QED
      BY ONLY <2>1, <2>2, <2>3, <3>1
  <2>5. Gathered(stack'[p], main'[p], part) = Elements(main'[p][part])
    <3>1. IsSequence(stack'[p]) /\ Len(stack'[p]) = 1 /\ stack'[p][1].doc = EmptyDoc /\ stack'[p] # << >>
      BY <2>1, Single, FrameFacts
    <3>2. Gathered(stack'[p], main'[p], part)
            = Below(stack'[p], Len(stack'[p]) - 1, part) \cup Elements(stack'[p][Len(stack'[p])].doc[part])
                \cup Elements(main'[p][part])
      BY ONLY <3>1, GatheredSplit
    <3> QED
      BY ONLY <2>2, <2>3, <3>1, <3>2
  <2> QED
    BY ONLY <2>1, <2>4, <2>5
<1> QED
  BY <1>2, <1>3, <1>4, <1>5

\* What is known stays known.
LEMMA KnownGrows ==
  ASSUME NEW p \in Procs, order' = order, used[p] \subseteq used'[p], NEW part
  PROVE  Known(p, part) \subseteq Known(p, part)'
<1>1. Paths(p)' = Paths(p)
  BY DEF Paths
<1>2. Reachable(p)' = Reachable(p)
  BY <1>1 DEF Reachable, Reached, Level
<1>3. Extended(p)' = Extended(p)
  BY <1>2 DEF Extended
<1>4. \A x : x \in Known(p, part) <=>
        \/ \E f \in Reachable(p) \cup Extended(p) : x \in Elements(Files[f][part])
        \/ \E u \in used[p] : x \in Elements(RemoteDoc(u.body)[part])
  BY DEF Known
<1>5. \A x : x \in Known(p, part)' <=>
        \/ \E f \in Reachable(p)' \cup Extended(p)' : x \in Elements(Files[f][part])
        \/ \E u \in used'[p] : x \in Elements(RemoteDoc(u.body)[part])
  BY DEF Known, Elements, RemoteDoc
<1> QED
  BY <1>2, <1>3, <1>4, <1>5

\* What is known: files that are included or extended, and documents used.
LEMMA KnownParts ==
  ASSUME NEW p \in Procs, NEW part
  PROVE  /\ \A f \in Reachable(p) \cup Extended(p) : Elements(Files[f][part]) \subseteq Known(p, part)
         /\ \A u \in used[p] : Elements(RemoteDoc(u.body)[part]) \subseteq Known(p, part)
BY DEF Known

\* A file that has been read is one that is included.
LEMMA TopReachable ==
  ASSUME ProcessInv, NEW p \in Procs, NEW at, IsStack(stack[p], at, Root(p)), Files[Top(p).path] # Unset,
         Len(stack[p]) <= MaxDepth + 1
  PROVE  Top(p).path \in Reachable(p)
<1>1. /\ Len(stack[p]) \in Nat \ {0} /\ FrameInv(stack[p], at, Root(p), Len(stack[p]))
  BY TopFrame
<1>2. Len(stack[p]) - 1 \in 0..MaxDepth
  BY <1>1, MaxDepthIsNat
<1>3. Top(p).path \in Level(Root(p))[Len(stack[p]) - 1]
  BY <1>1 DEF FrameInv, Top
<1>4. Top(p).path \in Reached(Root(p))
  BY <1>2, <1>3 DEF Reached
<1>5. Root(p) \in Paths(p)
  BY DEF ProcessInv, Root, Paths
<1> QED
  BY <1>4, <1>5 DEF Reachable

(* While the top is extended, its includes have been read.                 *)
LEMMA TopRead ==
  ASSUME NEW s, NEW at, NEW root, IsStack(s, at, root), at \notin {"open", "return"}
  PROVE  /\ s[Len(s)].path \in DOMAIN Files /\ Files[s[Len(s)].path] # Unset
         /\ Len(s) <= MaxDepth + 1 /\ s[Len(s)].doc.extends = Files[s[Len(s)].path].extends
<1>1. Len(s) \in Nat /\ FrameInv(s, at, root, Len(s)) /\ IsFrame(s[Len(s)])
  BY TopFrame
<1>2. IsRead(s, at, Len(s))
  BY DEF IsRead
<1> QED
  BY <1>1, <1>2 DEF FrameInv, IsFrame

\* What a step gathers is known.
LEMMA InventedEffect ==
  ASSUME ProcessInv, CacheInv, FetchInv, NEW p \in Procs, pc[p] # "done", Elsewhere(p), Effect(p),
         IsStack(stack[p], pc[p], Root(p)), NEW part \in Parts,
         Gathered(stack[p], main[p], part) \subseteq Known(p, part)
  PROVE  Gathered(stack'[p], main'[p], part) \subseteq Known(p, part)'
<1>1. order' = order
  BY DEF Elsewhere
<1>2. used[p] \subseteq used'[p]
  BY DEF Effect, Opening, Including, Returning, Merging, Moving, LoadingEnv
<1>3. Known(p, part) \subseteq Known(p, part)'
  BY <1>1, <1>2, KnownGrows
<1>4. CASE Opening(p)
  <2>1. Files[Top(p).path] # Unset /\ Len(stack[p]) <= MaxDepth + 1
    <3>1. Files[Top(p).path] # Unset /\ Len(stack[p]) - 1 <= MaxDepth
      BY <1>4 DEF Opening
    <3>2. Len(stack[p]) \in Nat
      BY TopFrame
    <3> QED
      BY ONLY <3>1, <3>2, MaxDepthIsNat
  <2>2. Top(p).path \in Reachable(p)
    BY <2>1, TopReachable
  <2>3. Elements(Files[Top(p).path][part]) \subseteq Known(p, part)
    BY <2>2, KnownParts
  <2>4. Gathered(stack'[p], main'[p], part)
          = Gathered(stack[p], main[p], part) \cup Elements(Files[Top(p).path][part])
    BY <1>4, OpeningGathers
  <2> QED
    BY <1>3, <2>3, <2>4
<1>5. CASE \E base : Merging(p, base)
  <2>1. PICK base : Merging(p, base)
    BY <1>5
  <2>2. Elements(base[part]) \subseteq Known(p, part)
    <3>1. CASE pc[p] = "merge"
      <4>1. base = RemoteDoc(entry[p].body) /\ \E u \in used[p] : u.body = entry[p].body
        BY <2>1, <3>1 DEF Merging, IncludesRead, FetchInv, Fetching
      <4> QED
        BY <4>1, KnownParts
    <3>2. CASE pc[p] # "merge"
      <4>1. /\ pc[p] = "includes" /\ base = Files[Top(p).doc.extends] /\ Top(p).doc.extends \in DOMAIN Files
            /\ base # Unset
        BY <2>1, <3>2 DEF Merging, IncludesRead
      <4>2. /\ Files[Top(p).path] # Unset /\ Len(stack[p]) <= MaxDepth + 1
            /\ Top(p).doc.extends = Files[Top(p).path].extends
        BY <4>1, TopRead DEF Top
      <4>3. Top(p).path \in Reachable(p)
        BY <4>2, TopReachable
      <4>4. Top(p).doc.extends \in Extended(p)
        BY <4>1, <4>2, <4>3 DEF Extended
      <4> QED
        BY <4>1, <4>4, KnownParts
    <3> QED
      BY <3>1, <3>2
  <2>3. Gathered(stack'[p], main'[p], part) = Gathered(stack[p], main[p], part) \cup Elements(base[part])
    BY <2>1, MergingGathers
  <2> QED
    BY <1>3, <2>2, <2>3
<1>6. CASE Including(p) \/ Returning(p) \/ Moving(p) \/ LoadingEnv(p)
  <2>1. Gathered(stack'[p], main'[p], part) = Gathered(stack[p], main[p], part)
    BY <1>6, OthersGather
  <2> QED
    BY <1>3, <2>1
<1> QED
  BY <1>4, <1>5, <1>6 DEF Effect

-----------------------------------------------------------------------------
\* What lies behind after a step is gathered.
LEMMA ReadEffect ==
  ASSUME ProcessInv, CacheInv, FetchInv, NEW p \in Procs, pc[p] # "done", Elsewhere(p), Effect(p),
         IsStack(stack[p], pc[p], Root(p)), NEW part \in Parts, NEW all, NEW more, all \subseteq more,
         HasRead(stack[p], pc[p], all, part), more = Gathered(stack'[p], main'[p], part),
         all = Gathered(stack[p], main[p], part)
  PROVE  HasRead(stack'[p], pc'[p], more, part)
<1> DEFINE s == stack[p]
           t == stack'[p]
<1>1. CASE Opening(p)
  <2> DEFINE file == Files[Top(p).path]
  <2>1. /\ pc[p] = "open" /\ pc'[p] = "includes" /\ file # Unset /\ t = Opened(s, file)
        /\ file = Files[s[Len(s)].path]
    BY <1>1 DEF Opening, Top
  <2>2. Elements(file[part]) \subseteq more
    BY <1>1, OpeningGathers
  <2> HIDE DEF file
  <2>3. HasRead(t, "includes", more, part)
    BY <2>1, <2>2, ReadOpened
  <2> QED
    BY <2>1, <2>3
<1>2. CASE Including(p)
  <2> DEFINE path == Top(p).doc.includes[Top(p).next]
  <2>1. pc[p] = "includes" /\ pc'[p] = "open" /\ t = Pushed(s, path) /\ more = all
    BY <1>2, OthersGather DEF Including
  <2> HIDE DEF path
  <2>2. HasRead(t, "open", all, part)
    BY <2>1, ReadPushed
  <2> QED
    BY <2>1, <2>2
<1>3. CASE Returning(p)
  <2>1. PICK doc : t = Popped(s, doc)
    BY <1>3 DEF Returning
  <2>2. pc[p] = "return" /\ pc'[p] = "includes" /\ Len(s) > 1 /\ more = all
    BY <1>3, OthersGather DEF Returning
  <2>3. HasRead(t, "includes", all, part)
    BY <2>1, <2>2, ReadPopped
  <2> QED
    BY <2>2, <2>3
<1>4. CASE \E base : Merging(p, base)
  <2>1. PICK base : Merging(p, base)
    BY <1>4
  <2>2. /\ pc[p] \in {"includes", "merge"} /\ pc'[p] = "return"
        /\ t = Opened(s, MergeConfigs(base, Top(p).doc))
    BY <2>1 DEF Merging, IncludesRead
  <2>3. Elements(base[part]) \subseteq more
    BY <2>1, MergingGathers
  <2>4. HasExtended(more, s[Len(s)].path, part)
    <3>1. Top(p).doc.extends = Files[s[Len(s)].path].extends
      BY <2>2, TopRead DEF Top
    <3>2. CASE pc[p] = "merge"
      <4>1. Top(p).doc.extends = "http"
        BY <3>2 DEF FetchInv, Fetching
      <4>2. "http" \notin DOMAIN Files
        BY ConfigAssumption DEF ConfigAssumption
      <4> QED
        BY <3>1, <4>1, <4>2 DEF HasExtended
    <3>3. CASE pc[p] = "includes"
      <4>1. base = Files[Top(p).doc.extends] /\ base # Unset
        BY <2>1, <3>3 DEF Merging
      <4> QED
        BY <2>3, <3>1, <4>1 DEF HasExtended
    <3> QED
      BY <2>2, <3>2, <3>3
  <2>5. Len(t) = Len(s) /\ \A k \in 1..Len(s) : t[k].path = s[k].path /\ t[k].next = s[k].next
    BY <2>2, SameFrames
  <2>6. HasRead(t, "return", more, part)
    <3>1. pc[p] # "open"
      BY <2>2
    <3> QED
      BY <2>4, <2>5, <3>1, ReadMoved
  <2> QED
    BY <2>2, <2>6
<1>5. CASE Moving(p)
  <2>1. t = s /\ pc[p] # "open"
    BY <1>5 DEF Moving, IncludesRead
  <2>2. pc'[p] = "return" => HasExtended(more, s[Len(s)].path, part)
    <3> SUFFICES ASSUME pc'[p] = "return" PROVE HasExtended(more, s[Len(s)].path, part)
      OBVIOUS
    <3>1. pc[p] = "includes" /\ Top(p).doc.extends = ""
      BY <1>5 DEF Moving, IncludesRead, Fetching
    <3>2. Files[s[Len(s)].path].extends = ""
      BY <3>1, TopRead DEF Top
    <3>3. "" \notin DOMAIN Files
      BY ConfigAssumption DEF ConfigAssumption
    <3> QED
      BY <3>2, <3>3 DEF HasExtended
  <2> QED
    BY <2>1, <2>2, ReadMoved
<1>6. CASE LoadingEnv(p)
  <2>1. t = <<Frame(order[p].env)>> /\ pc'[p] = "open"
    BY <1>6 DEF LoadingEnv
  <2>2. Len(t) = 1
    BY <2>1, Single
  <2>3. \A k \in 1..1 : ~IsRead(t, "open", k)
    BY <2>2 DEF IsRead
  <2> QED
    BY <2>1, <2>2, <2>3 DEF HasRead, ReadInv
<1> QED
  BY <1>1, <1>2, <1>3, <1>4, <1>5, <1>6 DEF Effect

-----------------------------------------------------------------------------
(* Every step gathers what it must and no more.                            *)

\* So are the main file and the documents that have been used.
LEMMA MissedEffect ==
  ASSUME ProcessInv, CacheInv, FetchInv, NEW p \in Procs, pc[p] # "done", Elsewhere(p), Effect(p),
         IsStack(stack[p], pc[p], Root(p)), NEW part \in Parts,
         HasAll(p, Gathered(stack[p], main[p], part), part)
  PROVE  /\ HasRead(stack'[p], pc'[p], Gathered(stack'[p], main'[p], part), part)
         /\ phase'[p] = "env" => HasReached(Gathered(stack'[p], main'[p], part), order[p].path, part)
         /\ \A u \in used'[p] :
              Elements(RemoteDoc(u.body)[part]) \subseteq Gathered(stack'[p], main'[p], part) \cup Pending(p, part)'
<1> DEFINE all == Gathered(stack[p], main[p], part)
           more == Gathered(stack'[p], main'[p], part)
<1>1. /\ HasRead(stack[p], pc[p], all, part)
      /\ phase[p] = "env" => HasReached(all, order[p].path, part)
      /\ \A u \in used[p] : Elements(RemoteDoc(u.body)[part]) \subseteq all \cup Pending(p, part)
  BY DEF HasAll
<1>2. all \subseteq more
  <2>1. CASE Opening(p)
    BY <2>1, OpeningGathers
  <2>2. CASE \E base : Merging(p, base)
    BY <2>2, MergingGathers
  <2>3. CASE Including(p) \/ Returning(p) \/ Moving(p) \/ LoadingEnv(p)
    BY <2>3, OthersGather
  <2> QED
    BY <2>1, <2>2, <2>3 DEF Effect
<1>3. all = Gathered(stack[p], main[p], part) /\ more = Gathered(stack'[p], main'[p], part)
  OBVIOUS
<1> HIDE DEF all, more
<1>4. HasRead(stack'[p], pc'[p], more, part)
  BY <1>1, <1>2, <1>3, ReadEffect
<1>5. ASSUME phase'[p] = "env" PROVE HasReached(more, order[p].path, part)
  <2>1. CASE phase[p] = "env"
    BY <1>1, <1>2, <2>1, ReachedMore
  <2>2. CASE phase[p] # "env"
    <3>1. LoadingEnv(p)
      BY <1>5, <2>2 DEF Effect, Opening, Including, Returning, Merging, Moving, Kept
    <3>2. pc[p] = "return" /\ Len(stack[p]) = 1 /\ phase[p] = "main"
      BY <3>1 DEF LoadingEnv
    <3>3. IsStack(stack[p], "return", order[p].path)
      BY <3>2 DEF Root
    <3>4. stack[p][1].path = order[p].path
      BY <3>2, <3>3, TopFrame DEF FrameInv
    <3>5. HasReached(all, stack[p][Len(stack[p])].path, part)
      BY <1>1, <3>2, <3>3, ReachedWhole
    <3> QED
      BY <1>2, <3>2, <3>4, <3>5, ReachedMore
  <2> QED
    BY <2>1, <2>2
<1>6. \A u \in used'[p] : Elements(RemoteDoc(u.body)[part]) \subseteq more \cup Pending(p, part)'
  <2>1. CASE used'[p] = used[p] /\ Pending(p, part) \subseteq more \cup Pending(p, part)'
    BY <1>1, <1>2, <2>1
  <2>2. CASE Opening(p) \/ Including(p) \/ Returning(p) \/ LoadingEnv(p)
    <3>1. used'[p] = used[p] /\ Pending(p, part) = {}
      BY <2>2 DEF Opening, Including, Returning, LoadingEnv, Pending, Fetching
    <3> QED
      BY <2>1, <3>1
  <2>3. CASE \E base : Merging(p, base)
    <3>1. PICK base : Merging(p, base)
      BY <2>3
    <3>2. Elements(base[part]) \subseteq more
      BY <1>3, <3>1, MergingGathers
    <3>3. Pending(p, part) \subseteq Elements(base[part])
      BY <3>1 DEF Merging, IncludesRead, Pending, Fetching
    <3>4. used'[p] = used[p]
      BY <3>1 DEF Merging
    <3> QED
      BY <2>1, <3>2, <3>3, <3>4
  <2>4. CASE Moving(p)
    <3>1. CASE IncludesRead(p) /\ used'[p] = used[p]
      <4>1. Pending(p, part) = {}
        BY <3>1 DEF IncludesRead, Pending, Fetching
      <4> QED
        BY <2>1, <3>1, <4>1
    <3>2. CASE /\ pc[p] = "request" /\ pc'[p] \in Fetching
               /\ \E u : used'[p] = used[p] \cup {u} /\ u.body = entry'[p].body
      <4>1. PICK u : used'[p] = used[p] \cup {u} /\ u.body = entry'[p].body
        BY <3>2
      <4>2. Pending(p, part) = {}
        BY <3>2 DEF Pending, Fetching
      <4>3. Pending(p, part)' = Elements(RemoteDoc(entry'[p].body)[part])
        BY <3>2 DEF Pending, RemoteDoc, Elements
      <4> QED
        BY <1>1, <1>2, <4>1, <4>2, <4>3
    <3>3. CASE pc[p] \in Fetching /\ pc'[p] \in Fetching /\ used'[p] = used[p] /\ entry'[p] = entry[p]
      <4>1. Pending(p, part)' = Pending(p, part)
        BY <3>3 DEF Pending, RemoteDoc, Elements
      <4> QED
        BY <2>1, <3>3, <4>1
    <3> QED
      BY <2>4, <3>1, <3>2, <3>3 DEF Moving, Fetching
  <2> QED
    BY <2>2, <2>3, <2>4 DEF Effect
<1> QED
  BY <1>3, <1>4, <1>5, <1>6

\* Nothing is gathered yet, and nothing lies behind.
LEMMA GatheredInit == Init => FetchInv /\ NothingInvented /\ NothingMissed /\ OwnLast
<1> SUFFICES ASSUME Init PROVE NothingInvented /\ NothingMissed /\ OwnLast
  BY FetchInit
<1>1. ASSUME NEW p \in Procs
      PROVE  /\ stack[p] = <<Frame(order[p].path)>> /\ pc[p] = "open" /\ main[p] = EmptyDoc
             /\ used[p] = {} /\ phase[p] = "main" /\ Len(stack[p]) = 1
             /\ \A k \in 1..1 : ~IsRead(stack[p], pc[p], k)
  <2>1. /\ stack[p] = <<Frame(order[p].path)>> /\ pc[p] = "open" /\ main[p] = EmptyDoc
        /\ used[p] = {} /\ phase[p] = "main"
    BY DEF Init
  <2>2. Len(stack[p]) = 1
    BY <2>1, Single
  <2> QED
    BY <2>1, <2>2 DEF IsRead
<1>2. ASSUME NEW p \in Procs, NEW part \in Parts PROVE Gathered(stack[p], main[p], part) = {}
  <2>1. /\ IsSequence(stack[p]) /\ stack[p] # << >> /\ Len(stack[p]) = 1 /\ stack[p][1].doc = EmptyDoc
        /\ main[p] = EmptyDoc
    BY <1>1, Single, FrameFacts
  <2>2. Elements(EmptyDoc[part]) = {} /\ Below(stack[p], 0, part) = {}
    BY EmptyIsDocument DEF Below
  <2>3. Gathered(stack[p], main[p], part)
          = Below(stack[p], Len(stack[p]) - 1, part) \cup Elements(stack[p][Len(stack[p])].doc[part])
              \cup Elements(main[p][part])
    BY ONLY <2>1, GatheredSplit
  <2> QED
    BY ONLY <2>1, <2>2, <2>3
<1>3. NothingInvented
  BY <1>2 DEF NothingInvented
<1>4. NothingMissed
  BY <1>1 DEF NothingMissed, HasAll, HasRead, ReadInv
<1>5. OwnLast
  BY <1>1 DEF OwnLast
<1> QED
  BY <1>3, <1>4, <1>5

\* Nothing is invented by any step.
LEMMA InventedStep ==
  ProcessInv /\ CacheInv /\ StackInv /\ FetchInv /\ NothingInvented /\ [Next]_vars => NothingInvented'
<1> SUFFICES ASSUME ProcessInv, CacheInv, StackInv, FetchInv, NothingInvented, [Next]_vars,
                    NEW q \in Procs, NEW part \in Parts, pc'[q] # "done"
             PROVE  Gathered(stack'[q], main'[q], part) \subseteq Known(q, part)'
  BY DEF NothingInvented, Loading, Gathered, Elements
<1>1. ASSUME stack'[q] = stack[q], main'[q] = main[q], pc'[q] = pc[q], order' = order, used'[q] = used[q]
      PROVE  Gathered(stack'[q], main'[q], part) \subseteq Known(q, part)'
  <2>1. Gathered(stack[q], main[q], part) \subseteq Known(q, part)
    BY <1>1 DEF NothingInvented, Loading
  <2>2. Known(q, part) \subseteq Known(q, part)'
    BY <1>1, KnownGrows
  <2> QED
    BY <1>1, <2>1, <2>2
<1>2. ASSUME Step(q) \/ Kill(q) PROVE Gathered(stack'[q], main'[q], part) \subseteq Known(q, part)'
  <2>1. Elsewhere(q) /\ pc[q] # "done" /\ Effect(q)
    BY <1>2, Bystanders, Effects
  <2>2. IsStack(stack[q], pc[q], Root(q)) /\ Gathered(stack[q], main[q], part) \subseteq Known(q, part)
    BY <2>1 DEF StackInv, NothingInvented, Loading
  <2> QED
    BY <2>1, <2>2, InventedEffect
<1>3. ASSUME NEW p \in Procs, Step(p) \/ Kill(p), q # p
      PROVE  /\ stack'[q] = stack[q] /\ main'[q] = main[q] /\ pc'[q] = pc[q] /\ order' = order
             /\ used'[q] = used[q]
  BY <1>3, Bystanders DEF Elsewhere
<1> QED
  BY <1>1, <1>2, <1>3, Cases

\* Nothing is missed by any step.
LEMMA MissedStep ==
  ProcessInv /\ CacheInv /\ StackInv /\ FetchInv /\ NothingMissed /\ [Next]_vars => NothingMissed'
<1> DEFINE AllOf(q, part) ==
      /\ HasRead(stack'[q], pc'[q], Gathered(stack'[q], main'[q], part), part)
      /\ phase'[q] = "env" => HasReached(Gathered(stack'[q], main'[q], part), order'[q].path, part)
      /\ \A u \in used'[q] :
           Elements(RemoteDoc(u.body)[part]) \subseteq Gathered(stack'[q], main'[q], part) \cup Pending(q, part)'
<1> SUFFICES ASSUME ProcessInv, CacheInv, StackInv, FetchInv, NothingMissed, [Next]_vars,
                    NEW q \in Procs, NEW part \in Parts, pc'[q] # "done"
             PROVE  AllOf(q, part)
  BY DEF NothingMissed, HasAll, Loading
<1>1. ASSUME /\ stack'[q] = stack[q] /\ main'[q] = main[q] /\ pc'[q] = pc[q] /\ order' = order
             /\ used'[q] = used[q] /\ entry'[q] = entry[q] /\ phase'[q] = phase[q]
      PROVE  AllOf(q, part)
  <2>1. HasAll(q, Gathered(stack[q], main[q], part), part)
    BY <1>1 DEF NothingMissed, Loading
  <2>2. Pending(q, part)' = Pending(q, part)
    BY <1>1 DEF Pending
  <2> QED
    BY <1>1, <2>1, <2>2 DEF HasAll
<1>2. ASSUME Step(q) \/ Kill(q) PROVE AllOf(q, part)
  <2>1. Elsewhere(q) /\ pc[q] # "done" /\ Effect(q) /\ order' = order
    BY <1>2, Bystanders, Effects DEF Elsewhere
  <2>2. IsStack(stack[q], pc[q], Root(q)) /\ HasAll(q, Gathered(stack[q], main[q], part), part)
    BY <2>1 DEF StackInv, NothingMissed, Loading
  <2> QED
    BY <2>1, <2>2, MissedEffect
<1>3. ASSUME NEW p \in Procs, Step(p) \/ Kill(p), q # p
      PROVE  /\ stack'[q] = stack[q] /\ main'[q] = main[q] /\ pc'[q] = pc[q] /\ order' = order
             /\ used'[q] = used[q] /\ entry'[q] = entry[q] /\ phase'[q] = phase[q]
  BY <1>3, Bystanders DEF Elsewhere
<1> QED
  BY <1>1, <1>2, <1>3, Cases

-----------------------------------------------------------------------------
(* A file's own tests are the last of its document.                        *)

\* A file's tests are the last of themselves.
LEMMA LastOfItself ==
  ASSUME NEW own, IsSequence(own) PROVE IsLast(own, own)
<1>1. Len(own) \in Nat
  BY SequenceFacts
<1> QED
  BY <1>1 DEF IsLast

\* They stay the last when others come first.
LEMMA LastOfJoined ==
  ASSUME NEW own, NEW pre, NEW seq, IsSequence(own), IsSequence(pre), IsSequence(seq), IsLast(own, seq)
  PROVE  IsLast(own, pre \o seq)
<1>1. /\ Len(own) \in Nat /\ Len(pre) \in Nat /\ Len(seq) \in Nat
      /\ Len(pre \o seq) = Len(pre) + Len(seq)
      /\ \A i \in 1..Len(seq) : (pre \o seq)[Len(pre) + i] = seq[i]
  BY SequenceFacts, Joined
<1>2. Len(own) <= Len(seq) /\ \A i \in 1..Len(own) : seq[Len(seq) - Len(own) + i] = own[i]
  BY DEF IsLast
<1> DEFINE whole == pre \o seq
<1>3. Len(whole) = Len(pre) + Len(seq) /\ \A i \in 1..Len(seq) : whole[Len(pre) + i] = seq[i]
  BY <1>1
<1> HIDE DEF whole
<1>4. ASSUME NEW i \in 1..Len(own) PROVE whole[Len(whole) - Len(own) + i] = own[i]
  <2> DEFINE j == Len(seq) - Len(own) + i
  <2>1. j \in 1..Len(seq) /\ Len(whole) - Len(own) + i = Len(pre) + j /\ seq[j] = own[i]
    BY ONLY <1>1, <1>2, <1>3, <1>4
  <2> HIDE DEF j
  <2> QED
    BY ONLY <1>3, <2>1
<1>5. IsLast(own, whole)
  BY ONLY <1>1, <1>2, <1>3, <1>4 DEF IsLast
<1> QED
  BY <1>5 DEF whole

\* Which files are below the one that counts.
LEMMA SmallNumbers ==
  ASSUME NEW n \in Nat \ {0}
  PROVE  /\ n # 1 => n > 1 /\ 1 < n /\ 1 \in 1..n - 1
         /\ n = 2 => n - 1 = 1
         /\ n > 1 /\ n # 2 => 1 \in 1..n - 2
OBVIOUS

\* They are the last of its document in every stage.
LEMMA OwnEffect ==
  ASSUME ProcessInv, CacheInv, NEW p \in Procs, pc[p] # "done", Effect(p),
         IsStack(stack[p], pc[p], Root(p)), NEW own, own = Files[order[p].path].tests,
         IF phase[p] = "env" THEN Files[order[p].path] # Unset /\ IsLast(own, main[p].tests)
         ELSE IsRead(stack[p], pc[p], 1) => IsLast(own, stack[p][1].doc.tests)
  PROVE  IF phase'[p] = "env" THEN Files[order[p].path] # Unset /\ IsLast(own, main'[p].tests)
         ELSE IsRead(stack'[p], pc'[p], 1) => IsLast(own, stack'[p][1].doc.tests)
<1> DEFINE s == stack[p]
           t == stack'[p]
<1>1. CASE phase[p] = "env"
  <2>1. Kept(p)
    BY <1>1 DEF Effect, Opening, Including, Returning, Merging, Moving, LoadingEnv
  <2> QED
    BY <1>1, <2>1 DEF Kept
<1>2. CASE phase[p] # "env"
  <2>1. /\ IsSequence(s) /\ s # << >> /\ Len(s) \in Nat \ {0} /\ DOMAIN s[Len(s)] = {"path", "doc", "next"}
        /\ IsFrame(s[Len(s)]) /\ 1 \in 1..Len(s) /\ FrameInv(s, pc[p], Root(p), 1)
    <3>1. /\ IsSequence(s) /\ s # << >> /\ Len(s) \in Nat \ {0} /\ DOMAIN s[Len(s)] = {"path", "doc", "next"}
          /\ IsFrame(s[Len(s)])
      BY TopFrame DEF IsStack
    <3>2. 1 \in 1..Len(s)
      BY ONLY <3>1
    <3> QED
      BY <3>1, <3>2 DEF IsStack
  <2>2. /\ s[1].path = order[p].path /\ phase[p] = "main" /\ IsFrame(s[1])
        /\ s[1].path \in DOMAIN Files /\ IsDocument(s[1].doc)
    BY <1>2, <2>1 DEF Root, FrameInv, IsFrame, ProcessInv
  <2>3. IsRead(s, pc[p], 1) => IsLast(own, s[1].doc.tests)
    BY <1>2
  <2>4. IsRead(s, pc[p], 1) => Files[order[p].path] # Unset
    BY <2>1, <2>2 DEF FrameInv
  <2>5. Files[order[p].path] # Unset => IsSequence(own) /\ IsDocument(Files[order[p].path])
    BY <2>2, FileFacts DEF IsDocument
  <2>6. Len(s) # 1 => Len(s) > 1 /\ 1 \in 1..Len(s) - 1 /\ IsRead(s, pc[p], 1)
    BY ONLY <2>1, SmallNumbers DEF IsRead
  <2>7. IsSequence(s[1].doc.tests)
    BY <2>2 DEF IsDocument
  <2>8. CASE Opening(p)
    <3> DEFINE file == Files[Top(p).path]
    <3>1. t = Opened(s, file) /\ phase'[p] = "main" /\ file # Unset /\ file = Files[s[Len(s)].path]
      BY <2>2, <2>8 DEF Opening, Kept, Top
    <3> HIDE DEF file
    <3>2. t[Len(s)].doc = file /\ \A k \in 1..Len(s) - 1 : t[k] = s[k]
      BY ONLY <2>1, <3>1, OpenedFrames
    <3>3. CASE Len(s) = 1
      <4>1. t[1].doc.tests = own /\ IsSequence(own)
        BY <2>2, <2>5, <3>1, <3>2, <3>3
      <4> QED
        BY <3>1, <4>1, LastOfItself
    <3>4. CASE Len(s) # 1
      BY <2>3, <2>6, <3>1, <3>2, <3>4
    <3> QED
      BY <3>3, <3>4
  <2>9. CASE Including(p)
    <3>1. PICK path : t = Pushed(s, path)
      BY <2>9 DEF Including
    <3>2. t[Len(s)].doc = s[Len(s)].doc /\ \A k \in 1..Len(s) - 1 : t[k] = s[k]
      BY ONLY <2>1, <3>1, PushedFrames
    <3>3. t[1].doc = s[1].doc
      BY <2>6, <3>2
    <3>4. phase'[p] = "main" /\ IsRead(s, pc[p], 1)
      BY <2>2, <2>9 DEF Including, Kept, IsRead
    <3> QED
      BY <2>3, <3>3, <3>4
  <2>10. CASE Returning(p)
    <3>1. PICK parent : parent = s[Len(s) - 1]
      OBVIOUS
    <3> DEFINE doc == Included(parent.doc, Top(p).doc, Files[parent.path])
    <3>2. Len(s) > 1 /\ t = Popped(s, doc) /\ phase'[p] = "main" /\ IsRead(s, pc[p], 1)
      BY <2>2, <2>10, <3>1 DEF Returning, Kept, IsRead
    <3>3. DOMAIN s[Len(s) - 1] = {"path", "doc", "next"} /\ IsDocument(parent.doc)
      <4>1. Len(s) - 1 \in 1..Len(s)
        BY <2>1, <3>2
      <4> QED
        BY <3>1, <4>1 DEF IsStack, FrameInv, IsFrame
    <3>4. IsDocument(Top(p).doc)
      BY <2>1 DEF IsFrame, Top
    <3>5. doc.tests = Top(p).doc.tests \o parent.doc.tests
      <4>1. "tests" \in Parts
        BY DEF Parts
      <4>2. doc["tests"] = Top(p).doc["tests"] \o parent.doc["tests"]
        BY <3>3, <4>1, IncludedParts
      <4> QED
        BY ONLY <4>2
    <3> HIDE DEF doc
    <3>6. t[Len(s) - 1].doc = doc /\ \A k \in 1..Len(s) - 2 : t[k] = s[k]
      BY ONLY <2>1, <3>2, <3>3, PoppedFrames
    <3>7. CASE Len(s) = 2
      <4>1. t[1].doc.tests = Top(p).doc.tests \o s[1].doc.tests
        <5>1. Len(s) - 1 = 1
          BY ONLY <3>7
        <5> QED
          BY ONLY <3>1, <3>5, <3>6, <5>1
      <4>2. IsSequence(Top(p).doc.tests)
        BY <3>4 DEF IsDocument
      <4>3. IsSequence(own) /\ IsLast(own, s[1].doc.tests)
        BY <2>3, <2>4, <2>5, <3>2
      <4>4. IsLast(own, t[1].doc.tests)
        BY ONLY <2>7, <4>1, <4>2, <4>3, LastOfJoined
      <4> QED
        BY <3>2, <4>4
    <3>8. CASE Len(s) # 2
      <4>1. 1 \in 1..Len(s) - 2
        BY ONLY <2>1, <3>2, <3>8, SmallNumbers
      <4> QED
        BY <2>3, <3>2, <3>6, <4>1
    <3> QED
      BY <3>7, <3>8
  <2>11. CASE \E base : Merging(p, base)
    <3>1. PICK base : Merging(p, base)
      BY <2>11
    <3> DEFINE doc == MergeConfigs(base, Top(p).doc)
    <3>2. t = Opened(s, doc) /\ phase'[p] = "main" /\ IsRead(s, pc[p], 1)
      BY <2>2, <3>1 DEF Merging, Kept, IncludesRead, IsRead
    <3>3. IsDocument(base)
      BY <3>1, BaseIsDocument
    <3>4. doc.tests = base.tests \o Top(p).doc.tests
      <4>1. "tests" \in Parts
        BY DEF Parts
      <4>2. doc["tests"] = base["tests"] \o Top(p).doc["tests"]
        BY <3>3, <4>1, MergedParts
      <4> QED
        BY ONLY <4>2
    <3> HIDE DEF doc
    <3>5. t[Len(s)].doc = doc /\ \A k \in 1..Len(s) - 1 : t[k] = s[k]
      BY ONLY <2>1, <3>2, OpenedFrames
    <3>6. CASE Len(s) = 1
      <4>1. t[1].doc.tests = base.tests \o s[1].doc.tests
        BY <3>4, <3>5, <3>6 DEF Top
      <4>2. IsSequence(base.tests)
        BY <3>3 DEF IsDocument
      <4>3. IsSequence(own) /\ IsLast(own, s[1].doc.tests)
        BY <2>3, <2>4, <2>5, <3>2
      <4>4. IsLast(own, t[1].doc.tests)
        BY ONLY <2>7, <4>1, <4>2, <4>3, LastOfJoined
      <4> QED
        BY <3>2, <4>4
    <3>7. CASE Len(s) # 1
      BY <2>3, <2>6, <3>2, <3>5, <3>7
    <3> QED
      BY <3>6, <3>7
  <2>12. CASE Moving(p)
    <3>1. t = s /\ phase'[p] = "main" /\ IsRead(s, pc[p], 1)
      BY <2>2, <2>12 DEF Moving, Kept, IncludesRead, IsRead
    <3> QED
      BY <2>3, <3>1
  <2>13. CASE LoadingEnv(p)
    <3>1. Len(s) = 1 /\ phase'[p] = "env" /\ main'[p] = s[1].doc /\ IsRead(s, pc[p], 1)
      BY <2>13 DEF LoadingEnv, Top, IsRead
    <3> QED
      BY <2>3, <2>4, <3>1
  <2> QED
    BY <2>8, <2>9, <2>10, <2>11, <2>12, <2>13 DEF Effect
<1> QED
  BY <1>1, <1>2

\* Every step keeps them the last.
LEMMA OwnStep == ProcessInv /\ CacheInv /\ StackInv /\ OwnLast /\ [Next]_vars => OwnLast'
<1> SUFFICES ASSUME ProcessInv, CacheInv, StackInv, OwnLast, [Next]_vars PROVE OwnLast'
  OBVIOUS
<1> DEFINE Own(q) == Files[order[q].path].tests
           Before(q) == IF phase[q] = "env" THEN Files[order[q].path] # Unset /\ IsLast(Own(q), main[q].tests)
                        ELSE IsRead(stack[q], pc[q], 1) => IsLast(Own(q), stack[q][1].doc.tests)
           After(q) == IF phase'[q] = "env" THEN Files[order[q].path] # Unset /\ IsLast(Own(q), main'[q].tests)
                       ELSE IsRead(stack'[q], pc'[q], 1) => IsLast(Own(q), stack'[q][1].doc.tests)
<1>1. order' = order
  BY Cases, Bystanders DEF Elsewhere
<1>2. ASSUME NEW q \in Procs, pc[q] # "done" PROVE Before(q)
  BY <1>2 DEF OwnLast, Loading
<1>3. ASSUME NEW q \in Procs, pc'[q] # "done" PROVE After(q)
  <2>1. CASE stack'[q] = stack[q] /\ main'[q] = main[q] /\ pc'[q] = pc[q] /\ phase'[q] = phase[q]
    BY <1>2, <1>3, <2>1
  <2>2. CASE Step(q) \/ Kill(q)
    <3>1. Elsewhere(q) /\ pc[q] # "done" /\ Effect(q)
      BY <1>3, <2>2, Bystanders, Effects
    <3>2. IsStack(stack[q], pc[q], Root(q)) /\ Before(q)
      BY <1>2, <3>1 DEF StackInv, Loading
    <3> QED
      BY <3>1, <3>2, OwnEffect
  <2>3. ASSUME NEW p \in Procs, Step(p) \/ Kill(p), q # p
        PROVE  stack'[q] = stack[q] /\ main'[q] = main[q] /\ pc'[q] = pc[q] /\ phase'[q] = phase[q]
    BY <2>3, Bystanders DEF Elsewhere
  <2> QED
    BY <2>1, <2>2, <2>3, Cases
<1> QED
  BY <1>1, <1>3 DEF OwnLast, Loading

-----------------------------------------------------------------------------
(* What a process returns when it has read everything.                     *)

(* What a process is about to return.                                      *)
Finishing(p) == pc[p] = "return" /\ Len(stack[p]) = 1 /\ (phase[p] = "env" \/ order[p].env = "")

\* The one file that is left, and the main file, are documents.
LEMMA FinishingDocs ==
  ASSUME ProcessInv, StackInv, NEW p \in Procs, Finishing(p)
  PROVE  /\ IsStack(stack[p], "return", Root(p)) /\ IsDocument(Top(p).doc) /\ Top(p) = stack[p][1]
         /\ IsDocument(main[p]) /\ stack[p][1].path = Root(p)
<1>1. IsStack(stack[p], "return", Root(p)) /\ Len(stack[p]) = 1
  BY DEF StackInv, Loading, Finishing
<1>2. FrameInv(stack[p], "return", Root(p), 1) /\ IsFrame(stack[p][1])
  BY <1>1, TopFrame
<1> QED
  BY <1>1, <1>2 DEF FrameInv, IsFrame, ProcessInv, Top

\* The environment's prerequisites come first, its tests last.
LEMMA EnvParts ==
  ASSUME NEW base, NEW env, NEW flags, NEW cfg, DOMAIN base = DOMAIN EmptyDoc,
         cfg = Override(MergeEnv(base, env), flags)
  PROVE  cfg.tests = base.tests \o env.tests /\ cfg.prereqs = env.prereqs \o base.prereqs
<1>1. PICK merged : merged = MergeEnv(base, env)
  OBVIOUS
<1>2. /\ merged.tests = base.tests \o env.tests /\ merged.prereqs = env.prereqs \o base.prereqs
      /\ DOMAIN merged = DOMAIN EmptyDoc
  BY <1>1, FinalDocument
<1>3. cfg.tests = merged.tests /\ cfg.prereqs = merged.prereqs
  <2>1. cfg = Override(merged, flags)
    BY <1>1
  <2> QED
    BY ONLY <1>2, <2>1, FinalDocument
<1> QED
  BY ONLY <1>2, <1>3

\* The tests and prerequisites of what is loaded.
LEMMA LoadedTests ==
  ASSUME ProcessInv, StackInv, NEW p \in Procs, Finishing(p)
  PROVE  IF phase[p] = "env"
         THEN /\ Loaded(p).tests = main[p].tests \o Top(p).doc.tests
              /\ Loaded(p).prereqs = Top(p).doc.prereqs \o main[p].prereqs
         ELSE Loaded(p).tests = Top(p).doc.tests /\ Loaded(p).prereqs = Top(p).doc.prereqs
<1>1. DOMAIN main[p] = DOMAIN EmptyDoc /\ DOMAIN Top(p).doc = DOMAIN EmptyDoc
  BY FinishingDocs DEF IsDocument
<1>2. CASE phase[p] = "env"
  <2>1. Loaded(p) = Override(MergeEnv(main[p], Top(p).doc), order[p].flags)
    BY <1>2 DEF Loaded
  <2>2. PICK base, env, flags, cfg : base = main[p] /\ env = Top(p).doc /\ flags = order[p].flags /\ cfg = Loaded(p)
    OBVIOUS
  <2>3. DOMAIN base = DOMAIN EmptyDoc /\ cfg = Override(MergeEnv(base, env), flags)
    BY ONLY <1>1, <2>1, <2>2
  <2>4. cfg.tests = base.tests \o env.tests /\ cfg.prereqs = env.prereqs \o base.prereqs
    BY ONLY <2>3, EnvParts
  <2>5. /\ Loaded(p).tests = main[p].tests \o Top(p).doc.tests
        /\ Loaded(p).prereqs = Top(p).doc.prereqs \o main[p].prereqs
    BY ONLY <2>2, <2>4
  <2> QED
    BY ONLY <1>2, <2>5
<1>3. CASE phase[p] # "env"
  <2>1. Loaded(p) = Override(Top(p).doc, order[p].flags)
    BY <1>3 DEF Loaded
  <2>2. /\ Override(Top(p).doc, order[p].flags).tests = Top(p).doc.tests
        /\ Override(Top(p).doc, order[p].flags).prereqs = Top(p).doc.prereqs
    BY ONLY <1>1, FinalDocument
  <2> QED
    BY ONLY <1>3, <2>1, <2>2
<1> QED
  BY ONLY <1>2, <1>3

(* All that has been gathered is in what is loaded.                        *)
LEMMA LoadedParts ==
  ASSUME ProcessInv, StackInv, NEW p \in Procs, Finishing(p)
  PROVE  /\ Elements(Loaded(p).tests) = Gathered(stack[p], main[p], "tests")
         /\ Elements(Loaded(p).prereqs) = Gathered(stack[p], main[p], "prereqs")
<1>1. /\ IsSequence(stack[p]) /\ stack[p] # << >> /\ Len(stack[p]) = 1 /\ Top(p) = stack[p][1]
      /\ IsDocument(Top(p).doc) /\ IsDocument(main[p])
  BY FinishingDocs DEF IsStack, Finishing
<1>2. ASSUME NEW part
      PROVE  Gathered(stack[p], main[p], part) = Elements(Top(p).doc[part]) \cup Elements(main[p][part])
  <2>1. Gathered(stack[p], main[p], part)
          = Below(stack[p], Len(stack[p]) - 1, part) \cup Elements(stack[p][Len(stack[p])].doc[part])
              \cup Elements(main[p][part])
    BY ONLY <1>1, GatheredSplit
  <2>2. Below(stack[p], 0, part) = {}
    BY DEF Below
  <2> QED
    BY ONLY <1>1, <2>1, <2>2
<1>3. /\ IsSequence(Top(p).doc.tests) /\ IsSequence(main[p].tests)
      /\ IsSequence(Top(p).doc.prereqs) /\ IsSequence(main[p].prereqs)
  BY <1>1 DEF IsDocument
<1>4. CASE phase[p] = "env"
  <2>1. /\ Loaded(p).tests = main[p].tests \o Top(p).doc.tests
        /\ Loaded(p).prereqs = Top(p).doc.prereqs \o main[p].prereqs
    BY <1>4, LoadedTests
  <2>2. /\ Elements(Loaded(p).tests) = Elements(main[p].tests) \cup Elements(Top(p).doc.tests)
        /\ Elements(Loaded(p).prereqs) = Elements(Top(p).doc.prereqs) \cup Elements(main[p].prereqs)
    BY ONLY <1>3, <2>1, Joined
  <2> QED
    BY ONLY <1>2, <2>2
<1>5. CASE phase[p] # "env"
  <2>1. Loaded(p).tests = Top(p).doc.tests /\ Loaded(p).prereqs = Top(p).doc.prereqs
    BY <1>5, LoadedTests
  <2>2. main[p] = EmptyDoc
    BY <1>5 DEF ProcessInv
  <2>3. Elements(main[p].tests) = {} /\ Elements(main[p].prereqs) = {}
    <3>1. \A part \in {"prereqs", "tests"} : Elements(EmptyDoc[part]) = {}
      BY EmptyIsDocument DEF Parts
    <3> QED
      BY ONLY <2>2, <3>1
  <2> QED
    BY ONLY <1>2, <2>1, <2>3
<1> QED
  BY ONLY <1>4, <1>5

\* All files and documents have been gathered by then.
LEMMA GatheredWhole ==
  ASSUME ProcessInv, StackInv, NothingMissed, NEW p \in Procs, Finishing(p), NEW part \in Parts
  PROVE  LET all == Gathered(stack[p], main[p], part)
         IN  /\ \A path \in Paths(p) : HasReached(all, path, part)
             /\ \A u \in used[p] : Elements(RemoteDoc(u.body)[part]) \subseteq all
<1> DEFINE all == Gathered(stack[p], main[p], part)
<1>1. HasAll(p, all, part) /\ pc[p] = "return" /\ Len(stack[p]) = 1
  BY DEF NothingMissed, Loading, Finishing
<1> HIDE DEF all
<1>2. HasReached(all, Root(p), part)
  <2>1. IsStack(stack[p], "return", Root(p)) /\ stack[p][1].path = Root(p)
    BY FinishingDocs
  <2>2. HasRead(stack[p], "return", all, part)
    BY <1>1 DEF HasAll
  <2>3. HasReached(all, stack[p][Len(stack[p])].path, part)
    BY ONLY <2>1, <2>2, ReachedWhole
  <2> QED
    BY ONLY <1>1, <2>1, <2>3
<1>3. phase[p] = "env" => HasReached(all, order[p].path, part)
  BY <1>1 DEF HasAll
<1>4. phase[p] \in {"main", "env"} /\ (phase[p] # "env" => order[p].env = "")
  BY DEF ProcessInv, Finishing
<1>5. \A path \in Paths(p) : HasReached(all, path, part)
  BY <1>2, <1>3, <1>4 DEF Paths, Root
<1>6. Pending(p, part) = {}
  BY <1>1 DEF Pending, Fetching
<1>7. \A u \in used[p] : Elements(RemoteDoc(u.body)[part]) \subseteq all
  BY <1>1, <1>6 DEF HasAll
<1> QED
  BY <1>5, <1>7 DEF all

Docs(p) == {Files[f] : f \in FilesOf(p)} \cup {RemoteDoc(u.body) : u \in used[p]}

(* When all has been read, the files of a process are those that are known.*)
LEMMA FilesAreKnown ==
  ASSUME NEW p \in Procs, NEW all, NEW part, \A path \in Paths(p) : HasReached(all, path, part)
  PROVE  /\ FilesOf(p) = Reachable(p) \cup Extended(p)
         /\ \A f \in FilesOf(p) : Elements(Files[f][part]) \subseteq all
<1> DEFINE reached == UNION {Reached(path) : path \in Paths(p)}
<1>1. \A f \in reached :
        Files[f] # Unset /\ Elements(Files[f][part]) \subseteq all /\ HasExtended(all, f, part)
  BY DEF HasReached
<1>2. Reachable(p) = reached
  BY <1>1 DEF Reachable
<1>3. FilesOf(p) = reached \cup ({Files[f].extends : f \in reached} \cap DOMAIN Files)
  BY DEF FilesOf
<1> HIDE DEF reached
<1>4. \A g \in {Files[f].extends : f \in reached} \cap DOMAIN Files :
        Files[g] # Unset /\ Elements(Files[g][part]) \subseteq all
  BY <1>1 DEF HasExtended
<1>5. Extended(p) = {Files[f].extends : f \in reached} \cap DOMAIN Files
  BY <1>2, <1>4 DEF Extended
<1> QED
  BY <1>1, <1>2, <1>3, <1>4, <1>5

\* What is loaded is exactly what the files and documents have.
LEMMA GatheredIsAll ==
  ASSUME ProcessInv, StackInv, NothingInvented, NothingMissed, NEW p \in Procs, Finishing(p),
         NEW part \in Parts
  PROVE  Gathered(stack[p], main[p], part) = UNION {Elements(d[part]) : d \in Docs(p)}
<1> DEFINE all == Gathered(stack[p], main[p], part)
<1>1. all \subseteq Known(p, part)
  BY DEF NothingInvented, Loading, Finishing
<1>2. /\ \A path \in Paths(p) : HasReached(all, path, part)
      /\ \A u \in used[p] : Elements(RemoteDoc(u.body)[part]) \subseteq all
  BY GatheredWhole
<1> HIDE DEF all
<1>3. /\ FilesOf(p) = Reachable(p) \cup Extended(p)
      /\ \A f \in FilesOf(p) : Elements(Files[f][part]) \subseteq all
  BY ONLY <1>2, p \in Procs, FilesAreKnown
<1>4. ASSUME NEW x \in all PROVE \E d \in Docs(p) : x \in Elements(d[part])
  <2>1. \/ \E f \in Reachable(p) \cup Extended(p) : x \in Elements(Files[f][part])
        \/ \E u \in used[p] : x \in Elements(RemoteDoc(u.body)[part])
    BY ONLY <1>1, <1>4 DEF Known
  <2> QED
    BY ONLY <1>3, <2>1 DEF Docs
<1>5. ASSUME NEW d \in Docs(p) PROVE Elements(d[part]) \subseteq all
  BY ONLY <1>2, <1>3, <1>5 DEF Docs
<1>6. all = UNION {Elements(d[part]) : d \in Docs(p)}
  BY ONLY <1>4, <1>5
<1> QED
  BY <1>6 DEF all

(* A file's own tests stand together in what is loaded.                    *)
LEMMA StandsAt ==
  ASSUME NEW own, IsSequence(own), NEW seq, IsSequence(seq), NEW n \in Nat, n + Len(own) <= Len(seq),
         \A i \in 1..Len(own) : seq[n + i] = own[i]
  PROVE  SubSeq(seq, n + 1, n + Len(own)) = own /\ n \in 0..Len(seq) - Len(own)
<1>1. own \in Seq(Elements(own)) /\ seq \in Seq(Elements(seq)) /\ Len(own) \in Nat /\ Len(seq) \in Nat
  BY DEF IsSequence
<1>2. own = [i \in 1..Len(own) |-> own[i]]
  BY <1>1
<1>3. SubSeq(seq, n + 1, n + Len(own)) = [i \in 1..Len(own) |-> seq[n + i]]
  BY <1>1
<1>4. [i \in 1..Len(own) |-> seq[n + i]] = [i \in 1..Len(own) |-> own[i]]
  OBVIOUS
<1>5. SubSeq(seq, n + 1, n + Len(own)) = own
  BY ONLY <1>2, <1>3, <1>4
<1>6. n \in 0..Len(seq) - Len(own)
  BY ONLY <1>1, n \in Nat, n + Len(own) <= Len(seq)
<1> QED
  BY ONLY <1>5, <1>6

(* The last of a sequence stand at its end, and before what is appended.   *)
LEMMA LastStands ==
  ASSUME NEW own, IsSequence(own), NEW seq, IsSequence(seq), IsLast(own, seq)
  PROVE  \E n \in 0..Len(seq) - Len(own) :
           SubSeq(seq, n + 1, n + Len(own)) = own /\ n + Len(own) = Len(seq)
<1>1. Len(own) \in Nat /\ Len(seq) \in Nat
  BY SequenceFacts
<1>2. Len(own) <= Len(seq) /\ \A i \in 1..Len(own) : seq[Len(seq) - Len(own) + i] = own[i]
  BY DEF IsLast
<1>3. PICK n : n = Len(seq) - Len(own)
  OBVIOUS
<1>4. n \in Nat /\ n + Len(own) = Len(seq) /\ n + Len(own) <= Len(seq)
  BY ONLY <1>1, <1>2, <1>3
<1>5. \A i \in 1..Len(own) : seq[n + i] = own[i]
  BY ONLY <1>2, <1>3
<1>6. SubSeq(seq, n + 1, n + Len(own)) = own /\ n \in 0..Len(seq) - Len(own)
  BY <1>4, <1>5, StandsAt
<1> QED
  BY ONLY <1>4, <1>6

\* A sequence stands together somewhere in another.
Stand(own, whole) == \E n \in 0..Len(whole) - Len(own) : SubSeq(whole, n + 1, n + Len(own)) = own

\* A file's own tests do when others are appended.
LEMMA JoinedStands ==
  ASSUME NEW own, IsSequence(own), NEW seq, IsSequence(seq), IsLast(own, seq), NEW more, IsSequence(more),
         NEW whole, whole = seq \o more
  PROVE  Stand(own, whole)
<1>1. Len(own) \in Nat /\ Len(seq) \in Nat /\ Len(more) \in Nat
  BY SequenceFacts
<1>2. /\ IsSequence(whole) /\ Len(whole) = Len(seq) + Len(more)
      /\ \A i \in 1..Len(seq) : whole[i] = seq[i]
  BY Joined
<1>3. Len(own) <= Len(seq) /\ \A i \in 1..Len(own) : seq[Len(seq) - Len(own) + i] = own[i]
  BY DEF IsLast
<1>4. PICK n : n = Len(seq) - Len(own)
  OBVIOUS
<1>5. n \in Nat /\ n + Len(own) = Len(seq) /\ n + Len(own) <= Len(whole)
  BY ONLY <1>1, <1>2, <1>3, <1>4
<1>6. ASSUME NEW i \in 1..Len(own) PROVE whole[n + i] = own[i]
  <2>1. n + i \in 1..Len(seq)
    BY ONLY <1>1, <1>5, <1>6
  <2>2. seq[n + i] = own[i]
    BY ONLY <1>3, <1>4, <1>6
  <2> QED
    BY ONLY <1>2, <2>1, <2>2
<1>7. SubSeq(whole, n + 1, n + Len(own)) = own /\ n \in 0..Len(whole) - Len(own)
  BY <1>2, <1>5, <1>6, StandsAt
<1> QED
  BY ONLY <1>7 DEF Stand

\* The tests of the file itself are a sequence.
LEMMA OwnIsSequence ==
  ASSUME ProcessInv, StackInv, OwnLast, NEW p \in Procs, Finishing(p),
         NEW own, own = Files[order[p].path].tests
  PROVE  IsSequence(own)
<1>1. /\ IsStack(stack[p], "return", Root(p)) /\ Top(p) = stack[p][1] /\ stack[p][1].path = Root(p)
      /\ IsSequence(Top(p).doc.tests) /\ IsSequence(main[p].tests) /\ Len(stack[p]) = 1
  BY FinishingDocs DEF IsDocument, Finishing
<1>2. IF phase[p] = "env" THEN Files[order[p].path] # Unset /\ IsLast(own, main[p].tests)
      ELSE IsLast(own, stack[p][1].doc.tests)
  <2>1. pc[p] = "return" /\ IsRead(stack[p], pc[p], 1)
    BY DEF Finishing, IsRead
  <2> QED
    BY <2>1 DEF OwnLast, Loading
<1> QED
  <2>1. order[p].path \in DOMAIN Files
    BY ConfigAssumption DEF ConfigAssumption, ProcessInv
  <2>2. Files[order[p].path] # Unset
    <3>1. CASE phase[p] = "env"
      BY <1>2, <3>1
    <3>2. CASE phase[p] # "env"
      <4>1. Files[stack[p][1].path] # Unset
        BY <1>1, TopDone
      <4> QED
        BY <1>1, <3>2, <4>1 DEF Root, ProcessInv
    <3> QED
      BY <3>1, <3>2
  <2> QED
    BY <2>1, <2>2, FileFacts DEF IsDocument

\* They stand together, at the end unless there is an environment.
LEMMA OwnStands ==
  ASSUME ProcessInv, StackInv, OwnLast, NEW p \in Procs, Finishing(p),
         NEW own, own = Files[order[p].path].tests
  PROVE  \E n \in 0..Len(Loaded(p).tests) - Len(own) :
           /\ SubSeq(Loaded(p).tests, n + 1, n + Len(own)) = own
           /\ order[p].env = "" => n + Len(own) = Len(Loaded(p).tests)
<1>1. /\ IsStack(stack[p], "return", Root(p)) /\ Top(p) = stack[p][1] /\ stack[p][1].path = Root(p)
      /\ IsSequence(Top(p).doc.tests) /\ IsSequence(main[p].tests) /\ Len(stack[p]) = 1
  BY FinishingDocs DEF IsDocument, Finishing
<1>2. IF phase[p] = "env" THEN Files[order[p].path] # Unset /\ IsLast(own, main[p].tests)
      ELSE IsLast(own, stack[p][1].doc.tests)
  <2>1. pc[p] = "return" /\ IsRead(stack[p], pc[p], 1)
    BY DEF Finishing, IsRead
  <2> QED
    BY <2>1 DEF OwnLast, Loading
<1>3. IsSequence(own)
  BY OwnIsSequence
<1>4. CASE phase[p] = "env"
  <2>1. Loaded(p).tests = main[p].tests \o Top(p).doc.tests
    BY <1>4, LoadedTests
  <2>2. IsLast(own, main[p].tests)
    BY ONLY <1>2, <1>4
  <2>5. PICK seq, more, whole : seq = main[p].tests /\ more = Top(p).doc.tests /\ whole = Loaded(p).tests
    OBVIOUS
  <2>6. IsSequence(seq) /\ IsLast(own, seq) /\ IsSequence(more) /\ whole = seq \o more
    BY ONLY <1>1, <2>1, <2>2, <2>5
  <2>7. Stand(own, whole)
    BY ONLY <1>3, <2>6, JoinedStands
  <2>3. \E n \in 0..Len(Loaded(p).tests) - Len(own) :
          SubSeq(Loaded(p).tests, n + 1, n + Len(own)) = own
    BY ONLY <2>5, <2>7 DEF Stand
  <2>4. order[p].env # ""
    BY <1>4 DEF ProcessInv
  <2> QED
    BY ONLY <2>3, <2>4
<1>5. CASE phase[p] # "env"
  <2>1. Loaded(p).tests = Top(p).doc.tests
    BY <1>5, LoadedTests
  <2>2. IsSequence(Loaded(p).tests) /\ IsLast(own, Loaded(p).tests)
    BY ONLY <1>1, <1>2, <1>5, <2>1
  <2>3. \E n \in 0..Len(Loaded(p).tests) - Len(own) :
          /\ SubSeq(Loaded(p).tests, n + 1, n + Len(own)) = own
          /\ n + Len(own) = Len(Loaded(p).tests)
    BY ONLY <1>3, <2>2, LastStands
  <2> QED
    BY ONLY <2>3
<1> QED
  BY ONLY <1>4, <1>5

-----------------------------------------------------------------------------
(* Nothing is lost, and the theorems.                                      *)

(* NothingLost, of the configuration cfg of a process.                     *)
Whole(p, cfg) ==
  LET docs    == {Files[f] : f \in FilesOf(p)} \cup {RemoteDoc(u.body) : u \in used[p]}
      own     == Files[order[p].path].tests
      shared  == (UNION {Elements(d.tests) : d \in docs})
                   \ (UNION {Elements(Files[f].tests) : f \in Paths(p)})
  IN  /\ Elements(cfg.tests) = UNION {Elements(d.tests) : d \in docs}
      /\ Elements(cfg.prereqs) = UNION {Elements(d.prereqs) : d \in docs}
      /\ \E n \in 0..Len(cfg.tests) - Len(own) :
           /\ SubSeq(cfg.tests, n + 1, n + Len(own)) = own
           /\ order[p].env = "" => n + Len(own) = Len(cfg.tests)
           /\ \A i \in DOMAIN cfg.tests : cfg.tests[i] \in shared /\ i > n + Len(own) => order[p].env # ""

\* The tests of what is loaded are a sequence.
LEMMA LoadedIsSequence ==
  ASSUME ProcessInv, StackInv, NEW p \in Procs, Finishing(p)
  PROVE  IsSequence(Loaded(p).tests)
<1>1. IsSequence(Top(p).doc.tests) /\ IsSequence(main[p].tests)
  BY FinishingDocs DEF IsDocument
<1>2. CASE phase[p] = "env"
  <2>1. Loaded(p).tests = main[p].tests \o Top(p).doc.tests
    BY <1>2, LoadedTests
  <2> QED
    BY ONLY <1>1, <2>1, Joined
<1>3. CASE phase[p] # "env"
  <2>1. Loaded(p).tests = Top(p).doc.tests
    BY <1>3, LoadedTests
  <2> QED
    BY ONLY <1>1, <2>1
<1> QED
  BY ONLY <1>2, <1>3

\* What is loaded has lost nothing.
LEMMA LoadedIsWhole ==
  ASSUME ProcessInv, StackInv, NothingInvented, NothingMissed, OwnLast, NEW p \in Procs, Finishing(p)
  PROVE  Whole(p, Loaded(p))
<1>1. PICK own, tests, order_ : own = Files[order[p].path].tests /\ tests = Loaded(p).tests /\ order_ = order[p]
  OBVIOUS
<1>2. Elements(Loaded(p).tests) = UNION {Elements(d.tests) : d \in Docs(p)}
  <2>1. Gathered(stack[p], main[p], "tests") = UNION {Elements(d["tests"]) : d \in Docs(p)}
    BY GatheredIsAll DEF Parts
  <2>2. Elements(Loaded(p).tests) = Gathered(stack[p], main[p], "tests")
    BY LoadedParts
  <2> QED
    BY ONLY <2>1, <2>2
<1>3. Elements(Loaded(p).prereqs) = UNION {Elements(d.prereqs) : d \in Docs(p)}
  <2>1. Gathered(stack[p], main[p], "prereqs") = UNION {Elements(d["prereqs"]) : d \in Docs(p)}
    BY GatheredIsAll DEF Parts
  <2>2. Elements(Loaded(p).prereqs) = Gathered(stack[p], main[p], "prereqs")
    BY LoadedParts
  <2> QED
    BY ONLY <2>1, <2>2
<1>4. PICK n \in 0..Len(tests) - Len(own) :
        SubSeq(tests, n + 1, n + Len(own)) = own /\ (order[p].env = "" => n + Len(own) = Len(tests))
  <2>1. \E n \in 0..Len(Loaded(p).tests) - Len(own) :
           /\ SubSeq(Loaded(p).tests, n + 1, n + Len(own)) = own
           /\ order[p].env = "" => n + Len(own) = Len(Loaded(p).tests)
    BY <1>1, OwnStands
  <2> QED
    BY ONLY <1>1, <2>1
<1>5. ASSUME NEW i \in DOMAIN tests, i > n + Len(own) PROVE order[p].env # ""
  <2>1. IsSequence(tests)
    BY <1>1, LoadedIsSequence
  <2>2. DOMAIN tests = 1..Len(tests) /\ Len(tests) \in Nat
    BY ONLY <2>1, SequenceFacts
  <2>3. IsSequence(own)
    BY <1>1, OwnIsSequence
  <2>4. Len(own) \in Nat
    BY ONLY <2>3, SequenceFacts
  <2>5. PICK k, m, l : k = Len(own) /\ m = Len(tests) /\ l = n + Len(own)
    OBVIOUS
  <2>6. k \in Nat /\ m \in Nat /\ n \in 0..m - k /\ i \in 1..m /\ l = n + k /\ i > l
    BY <1>5, <2>2, <2>4, <2>5
  <2>7. l # m
    BY ONLY <2>6
  <2> QED
    BY ONLY <1>4, <2>5, <2>7
<1>6. \E m \in 0..Len(Loaded(p).tests) - Len(Files[order[p].path].tests) :
        /\ SubSeq(Loaded(p).tests, m + 1, m + Len(Files[order[p].path].tests)) = Files[order[p].path].tests
        /\ order[p].env = "" => m + Len(Files[order[p].path].tests) = Len(Loaded(p).tests)
        /\ \A i \in DOMAIN Loaded(p).tests : i > m + Len(Files[order[p].path].tests) => order[p].env # ""
  BY ONLY <1>1, <1>4, <1>5
<1> QED
  BY ONLY <1>2, <1>3, <1>6 DEF Whole, Docs

\* A step that ends well returns what is loaded; no other result changes.
LEMMA LostStep ==
  /\ ProcessInv /\ CacheInv /\ StackInv /\ NothingInvented /\ NothingMissed /\ OwnLast
  /\ NothingLost /\ [Next]_vars
  => NothingLost'
<1> SUFFICES ASSUME ProcessInv, CacheInv, StackInv, NothingInvented, NothingMissed, OwnLast, NothingLost,
                    [Next]_vars, NEW q \in Procs, result'[q] # Unset, result'[q].error = ""
             PROVE  Whole(q, result[q].cfg)'
  BY DEF NothingLost, Succeeds, Whole
<1>1. ASSUME result'[q] = result[q], order' = order, used'[q] = used[q] PROVE Whole(q, result[q].cfg)'
  <2>1. Whole(q, result[q].cfg)
    BY <1>1 DEF NothingLost, Succeeds, Whole
  <2> QED
    BY <1>1, <2>1 DEF Whole, FilesOf, Paths
<1>2. ASSUME Step(q) \/ Kill(q) PROVE Whole(q, result[q].cfg)'
  <2>1. Elsewhere(q) /\ pc[q] # "done"
    BY <1>2, Bystanders
  <2>2. result[q] = Unset
    BY <2>1 DEF ProcessInv, Loading
  <2>3. Finish(q)
    BY <1>2, <2>2, Results
  <2>4. /\ Finishing(q) /\ used' = used /\ order' = order
        /\ result' = [result EXCEPT ![q] = IF order[q].validate => Validate(Loaded(q))
                        THEN [error |-> "", cfg |-> Loaded(q)] ELSE Error("validation failed")]
    BY <2>3 DEF Finish, Go, Finishing
  <2>5. result'[q].cfg = Loaded(q)
    <3>1. CASE order[q].validate => Validate(Loaded(q))
      <4>1. result' = [result EXCEPT ![q] = [error |-> "", cfg |-> Loaded(q)]]
        BY ONLY <2>4, <3>1
      <4> QED
        BY ONLY <4>1, q \in Procs, ProcessInv DEF ProcessInv
    <3>2. CASE ~(order[q].validate => Validate(Loaded(q)))
      <4>1. result' = [result EXCEPT ![q] = Error("validation failed")]
        BY ONLY <2>4, <3>2
      <4>2. result'[q].error = "validation failed"
        BY ONLY <4>1, q \in Procs, ProcessInv DEF ProcessInv, Error
      <4> QED
        BY <4>2
    <3> QED
      BY ONLY <3>1, <3>2
  <2>6. Whole(q, Loaded(q))
    BY <2>4, LoadedIsWhole
  <2> QED
    BY ONLY <2>4, <2>5, <2>6 DEF Whole, FilesOf, Paths
<1>3. ASSUME NEW p \in Procs, Step(p) \/ Kill(p), q # p
      PROVE  result'[q] = result[q] /\ order' = order /\ used'[q] = used[q]
  BY <1>3, Bystanders DEF Elsewhere
<1> QED
  BY <1>1, <1>2, <1>3, Cases

\* The inductive invariant, and the properties of results.
ConfigInv ==
  /\ ProcessInv /\ CacheInv /\ FetchInv /\ StackInv /\ DepthInv /\ VersionInv
  /\ NothingInvented /\ NothingMissed /\ OwnLast
  /\ HasVersion /\ DepthIsExact /\ NothingLost

\* The invariant holds at the start.
LEMMA ConfigInit == Init => ConfigInv
<1>1. Init => NothingLost
  BY DEF Init, NothingLost, Succeeds
<1> QED
  BY <1>1, CacheInit, StackInit, DepthInit, VersionInit, GatheredInit DEF ConfigInv

\* Every step keeps it.
LEMMA ConfigStep == ConfigInv /\ [Next]_vars => ConfigInv'
BY ProcessStep, CacheStep, FetchStep, StackStep, DepthStep, VersionStep, InventedStep, MissedStep,
   OwnStep, HasVersionStep, DepthExactStep, LostStep DEF ConfigInv

(***************************************************************************)
(* The inductive invariant of loading: which files are open and why, what  *)
(* is behind them, what has been gathered, and what results say of it.     *)
(***************************************************************************)
THEOREM ConfigSound == Spec => []ConfigInv
BY ConfigInit, ConfigStep, PTL DEF Spec

(***************************************************************************)
(* Includes that go more than MaxDepth deep never load, and none that go   *)
(* less deep are refused for their depth (loadWithDepthAndResolver).       *)
(***************************************************************************)
THEOREM DepthExact == Spec => []DepthIsExact
<1>1. ConfigInv => DepthIsExact
  BY DEF ConfigInv
<1> QED
  BY <1>1, ConfigSound, PTL

(***************************************************************************)
(* A validated configuration has merged what the server published, and     *)
(* never an empty cache entry in place of what its own file extends,       *)
(* whichever process wrote the cache, was killed at it or read it          *)
(* meanwhile (fetchHTTP, readCache and writeCache).                        *)
(***************************************************************************)
THEOREM RemotePublished == Spec => []RemoteIsPublished
<1>1. ConfigInv => RemoteIsPublished
  BY PublishedFollows DEF ConfigInv
<1> QED
  BY <1>1, ConfigSound, PTL

(***************************************************************************)
(* A configuration has exactly the prerequisites and tests of the files    *)
(* and documents it is made of, and its own tests in order and after all   *)
(* that they share (loadWithDepthAndResolver, MergeConfigs and MergeEnv).  *)
(***************************************************************************)
THEOREM NoneLost == Spec => []NothingLost
<1>1. ConfigInv => NothingLost
  BY DEF ConfigInv
<1> QED
  BY <1>1, ConfigSound, PTL

\* A circle of includes: each file includes one of them.
Circle(files) == files # {} /\ \A f \in files : Includes(f) \cap files # {}
CirclesFail == \A p \in Procs : \A path \in Paths(p) : \A files \in SUBSET DOMAIN Files :
  Circle(files) /\ files \cap Reached(path) # {} => ~Succeeds(p)

\* A path that leads into a circle leads deeper than any limit.
LEMMA CircleIsDeep ==
  ASSUME NEW path, NEW files, Circle(files), files \cap Reached(path) # {}
  PROVE  Deep(path)
<1> MaxDepth \in Nat
  BY MaxDepthIsNat
<1>1. PICK d \in 0..MaxDepth : files \cap Level(path)[d] # {}
  BY DEF Reached
<1> DEFINE S == {n \in Nat : d + n <= MaxDepth + 1 => files \cap Level(path)[d + n] # {}}
<1>2. 0 \in S
  BY <1>1
<1>3. \A n \in Nat : n \in S => n + 1 \in S
  <2> SUFFICES ASSUME NEW n \in Nat, n \in S, d + (n + 1) <= MaxDepth + 1
               PROVE  files \cap Level(path)[d + (n + 1)] # {}
    OBVIOUS
  <2>1. d + n \in 0..MaxDepth /\ d + n <= MaxDepth + 1 /\ d + (n + 1) = (d + n) + 1
    OBVIOUS
  <2>2. PICK f \in files : f \in Level(path)[d + n]
    BY <2>1
  <2>3. Level(path)[(d + n) + 1] = UNION {Includes(g) : g \in Level(path)[d + n]}
    BY <2>1, Levels
  <2>4. Includes(f) \cap files # {}
    BY DEF Circle
  <2> QED
    BY ONLY <2>1, <2>2, <2>3, <2>4
<1> HIDE DEF S
<1>4. (MaxDepth + 1) - d \in S
  BY <1>2, <1>3, NatSetInduction
<1>5. d + ((MaxDepth + 1) - d) = MaxDepth + 1 /\ (MaxDepth + 1) - d \in Nat
  OBVIOUS
<1> QED
  BY <1>4, <1>5 DEF S, Deep

(***************************************************************************)
(* A configuration that leads into a circle of includes never loads,       *)
(* whatever the limit: the depth ends the recursion and keeps nothing of   *)
(* it.                                                                     *)
(***************************************************************************)
THEOREM CirclesRefused == Spec => []CirclesFail
<1>1. ConfigInv => CirclesFail
  <2> SUFFICES ASSUME ConfigInv, NEW p \in Procs, NEW path \in Paths(p), NEW files \in SUBSET DOMAIN Files,
                      Circle(files), files \cap Reached(path) # {}, Succeeds(p)
               PROVE  FALSE
    BY DEF CirclesFail
  <2>1. Deep(path)
    BY CircleIsDeep
  <2>2. ~Deep(path)
    BY DEF ConfigInv, DepthIsExact, Succeeds, Deep
  <2> QED
    BY <2>1, <2>2
<1> QED
  BY <1>1, ConfigSound, PTL
=============================================================================
