------------------------- MODULE ProviderCopyProofs -------------------------
(***************************************************************************)
(* Proofs about RemotePanel.tla and ProviderCopy.tla, for any names, trees *)
(* and jobs, and any number of failures and changes by another client.     *)
(*                                                                         *)
(* SessionInv says what holds of the tasks left, of the call in progress,  *)
(* of both trees, of the cached listing and of the part files; the         *)
(* theorems follow from it.                                                *)
(***************************************************************************)
EXTENDS ProviderCopy, TLAPS, SequenceTheorems, WellFoundedInduction, FiniteSetTheorems
-----------------------------------------------------------------------------
(* Types.                                                                     *)

Path == Seq(Names)
Named == Path \ {<< >>}
Data == {Folder, Partial, Other} \cup UNION {ContentsOf(j.local) \cup ContentsOf(j.server) : j \in Jobs}
Whole == Data \ {Partial}

\* Contents that must not be lost.
Real(c) == c \notin {Folder, Partial, Other}

TreeOK(t) ==
    /\ IsFiniteSet(DOMAIN t) /\ DOMAIN t \subseteq Path
    /\ \A p \in DOMAIN t : t[p] \in Whole

FoundOK(f) ==
    /\ IsFiniteSet(DOMAIN f) /\ DOMAIN f \subseteq Path
    /\ \A p \in DOMAIN f : f[p] \in BOOLEAN

PartsOK(t) == DOMAIN t \subseteq Path /\ \A p \in DOMAIN t : t[p] \in Data \ {Folder}

\* Everything is in a folder.
Tidy(t) == \A p \in DOMAIN t : p # << >> => Parent(p) = << >> \/ IsFolder(t, Parent(p))

-----------------------------------------------------------------------------
(* Tasks.                                                                     *)

CopyOps == {"Copy", "Mkdir", "Kids", "Resolve", "Write"}
DeleteOps == {"Delete", "Remove"}
TaskOps == CopyOps \cup DeleteOps \cup {"Item", "Look", "Rename", "Reconnect", "Drop", "End"}
Tasks == [op : TaskOps, from : Named, to : Named, dir : BOOLEAN,
          exists : BOOLEAN, stage : Whole, then : {"None", "Write", "Rename"}]

Moves(t) == t.op = "Rename" \/ t.then = "Rename"

ItemOf(t) ==
    \E i \in DOMAIN job.items :
        t.from = Append(job.sdir, job.items[i]) /\ t.to = Append(job.tdir, job.items[i])

Good(t) ==
    /\ t.op \in {"Item", "Look", "Drop"} => ItemOf(t)
    /\ t.op \in {"Look", "Drop"} => job.kind = "Move"
    /\ t.op = "Look" => SameProvider /\ ~ IsPrefix(t.from, t.to)
    /\ Moves(t) => SameProvider /\ ~ IsPrefix(t.from, Parent(t.to))
    /\ t.then = "Rename" => t.op \in {"Resolve", "Rename"}
    /\ t.op = "Resolve" => t.then \in {"Write", "Rename"} /\ t.stage = Folder
    /\ t.op = "Write" => t.stage = Folder \/ (job.from = "remote" /\ job.to = "remote")

GoodTasks == {t \in Tasks : Good(t)}

\* What is copied before P is dropped stays out of P.
FarFrom(a, P) ==
    /\ ~ IsPrefix(P, a.to)
    /\ a.op \in {"Copy", "Mkdir", "Kids"} => ~ IsPrefix(a.to, P)
    /\ a.op \in {"Resolve", "Write"} => \A n \in Names : ~ IsPrefix(P, Append(Parent(a.to), n))

\* What may come later than a: within an item the copying, then the end or the
\* question whether to drop the source, then the deleting; and items to come.
\* A file is written or renamed at once, or after a reconnect.
Follows(a, b) ==
    /\ a.op \in {"Item", "Look", "End"} => b.op = "Item"
    /\ a.op = "Drop" \/ Moves(a) => b.op \in {"End", "Item"}
    /\ a.op \in DeleteOps => b.op \in DeleteOps \cup {"End", "Item"}
    /\ a.op \in CopyOps => b.op \in CopyOps \cup {"Drop", "End", "Item"}
    /\ b.op = "Write" \/ Moves(b) => a.op = "Reconnect"
    /\ a.op \in CopyOps /\ b.op = "Drop" /\ SameProvider /\ NothingOntoItsAncestor =>
          FarFrom(a, b.from)

Ordered(s) == \A i, j \in DOMAIN s : i < j => Follows(s[i], s[j])

CallOps == {"Stat", "List", "Mkdir", "Delete", "Rename", "Download", "Upload", "Reconnect"}

\* A provider call in progress is the current task's.
CallOK ==
    /\ DOMAIN call = {"op", "path", "to", "data", "step", "st", "found", "blind"}
    /\ todo # << >> /\ ~ Decided(Now)
    /\ call.op = CallOf(Now).op /\ call.path = CallOf(Now).path /\ call.to = CallOf(Now).to
    /\ call.op # "Download" => call.data = CallOf(Now).data
    /\ SideOf(Now) = "local" => call.step = "done"
    /\ FoundOK(call.found)
    /\ call.op = "Stat" /\ call.step = "done" /\ call.st = "Ok" => call.path \in DOMAIN call.found
    /\ call.op = "List" => \A p \in DOMAIN call.found : p # << >> /\ Parent(p) = call.path

Idle == call = NoCall \/ (call = [op |-> "Closed"] /\ todo = << >>)

TaskInv ==
    /\ job \in Jobs
    /\ todo \in Seq(GoodTasks) /\ Ordered(todo)
    /\ Idle \/ CallOK

TreeInv ==
    /\ TreeOK(local)
    /\ DOMAIN server = {"tree", "parts"} /\ TreeOK(server.tree) /\ PartsOK(server.parts)
    /\ DOMAIN cache = {"dir", "list"} /\ FoundOK(cache.list)

-----------------------------------------------------------------------------
(* The session.                                                               *)

\* The paths the cache answers for, and whether it is right about one.
Seen(c, t) == DOMAIN c.list \cup (IF c.dir = NoPath THEN {} ELSE Children(t, c.dir))
Agrees(c, t, p) == p \in DOMAIN c.list /\ p \in DOMAIN t /\ c.list[p] = (t[p] = Folder)

\* It need not be right about these.
Unknown(p) == \E q \in touched : IsPrefix(q, p)
Cleared(p) == call.op = "Upload" /\ call.step = "again" /\ call.path = p

CacheInv ==
    /\ \A p \in DOMAIN cache.list : p # << >> /\ Parent(p) = cache.dir
    /\ \A p \in Seen(cache, server.tree) : Unknown(p) \/ Cleared(p) \/ Agrees(cache, server.tree, p)

UploadInv ==
    /\ DOMAIN server.parts \subseteq pendingParts \cup stray
    /\ call.op = "Upload" => call.data \in Whole \ {Folder}
    /\ call.op = "Upload" /\ call.step \in {"place", "clear", "again"} /\ HasPart(call.path) =>
          server.parts[call.path] = call.data
    /\ call.op = "Upload" /\ call.step = "undo" => call.st # "Ok"
    /\ call.op = "Upload" /\ call.step = "done" /\ call.st = "Ok" =>
          call.path \in DOMAIN server.tree /\ server.tree[call.path] = call.data
    /\ call.op = "Download" /\ call.step = "done" /\ call.st = "Ok" =>
          IsFile(server.tree, call.path) /\ server.tree[call.path] = call.data

\* Local files stay until they are deleted, and what is said of them is so.
LocalInv ==
    job.from = "local" =>
        /\ \A t \in Range(todo) : t.op \in {"Resolve", "Write"} => IsFile(local, t.from)
        /\ call.op \in {"Stat", "List"} /\ todo # << >> /\ SideOf(Now) = "local" =>
              \A p \in DOMAIN call.found : p \in DOMAIN local /\ call.found[p] = IsFolder(local, p)

-----------------------------------------------------------------------------
(* Sequences and prefixes.                                                   *)

\* s begins t, name by name.
Begins(s, t) == Len(s) <= Len(t) /\ \A i \in 1..Len(s) : s[i] = t[i]

\* The first n members of a sequence.
LEMMA FirstOf ==
    ASSUME NEW S, NEW s \in Seq(S), NEW n \in 0..Len(s)
    PROVE  /\ SubSeq(s, 1, n) \in Seq(S) /\ Len(SubSeq(s, 1, n)) = n
           /\ \A i \in 1..n : SubSeq(s, 1, n)[i] = s[i]
<1>1. \A i \in 1..n : s[i] \in S
  OBVIOUS
<1>. QED  BY <1>1, SubSeqProperties

\* IsPrefix in terms of positions.
LEMMA PrefixBegins ==
    ASSUME NEW S, NEW s \in Seq(S), NEW t \in Seq(S)
    PROVE  IsPrefix(s, t) <=> Begins(s, t)
<1>1. CASE Len(s) <= Len(t)
  <2>1. /\ SubSeq(s, 1, Len(s)) \in Seq(S) /\ Len(SubSeq(s, 1, Len(s))) = Len(s)
        /\ \A i \in 1..Len(s) : SubSeq(s, 1, Len(s))[i] = s[i]
    BY FirstOf
  <2>2. /\ SubSeq(t, 1, Len(s)) \in Seq(S) /\ Len(SubSeq(t, 1, Len(s))) = Len(s)
        /\ \A i \in 1..Len(s) : SubSeq(t, 1, Len(s))[i] = t[i]
    BY <1>1, FirstOf
  <2>. DEFINE a == SubSeq(s, 1, Len(s))
              b == SubSeq(t, 1, Len(s))
  <2>3. a = b <=> \A i \in 1..Len(s) : a[i] = b[i]
    <3>. HIDE DEF a, b
    <3>. QED  BY <2>1, <2>2, SeqEqual DEF a, b
  <2>. QED  BY <1>1, <2>1, <2>2, <2>3 DEF IsPrefix, Begins
<1>2. CASE ~ (Len(s) <= Len(t))
  BY <1>2 DEF IsPrefix, Begins
<1>. QED  BY <1>1, <1>2

\* All but the last member of a sequence.
LEMMA FrontBegins ==
    ASSUME NEW S, NEW s \in Seq(S), s # << >>
    PROVE  /\ Front(s) \in Seq(S) /\ Len(Front(s)) = Len(s) - 1
           /\ \A i \in 1..(Len(s) - 1) : Front(s)[i] = s[i]
<1>1. Len(s) \in Nat \ {0} /\ Len(s) - 1 \in 0..Len(s)
  OBVIOUS
<1>. QED  BY <1>1, FirstOf DEF Front

\* What the path q becomes when the folder it is in gets another path.
LEMMA MovedPath ==
    ASSUME NEW S, NEW q \in Seq(S), NEW from \in Seq(S), NEW to \in Seq(S), Begins(from, q)
    PROVE  /\ Moved(q, from, to) \in Seq(S)
           /\ Len(Moved(q, from, to)) = Len(to) + Len(q) - Len(from)
           /\ \A i \in 1..Len(to) : Moved(q, from, to)[i] = to[i]
           /\ \A i \in (Len(from) + 1)..Len(q) :
                 Moved(q, from, to)[i - Len(from) + Len(to)] = q[i]
<1>. DEFINE m == Len(from) + 1
            rest == SubSeq(q, m, Len(q))
<1>1. Len(from) \in Nat /\ Len(q) \in Nat /\ Len(to) \in Nat /\ Len(from) <= Len(q)
  BY DEF Begins
<1>2. \A i \in m..Len(q) : q[i] \in S
  BY <1>1
<1>3. /\ rest \in Seq(S) /\ Len(rest) = Len(q) - Len(from)
      /\ \A i \in 1..(Len(q) - Len(from)) : rest[i] = q[Len(from) + i]
  <2>1. /\ rest \in Seq(S)
        /\ Len(rest) = IF m <= Len(q) THEN Len(q) - m + 1 ELSE 0
        /\ \A i \in 1..(Len(q) - m + 1) : rest[i] = q[m + i - 1]
    BY <1>1, <1>2, SubSeqProperties
  <2>. HIDE DEF rest
  <2>. QED  BY SMTT(60), <1>1, <2>1
<1>. HIDE DEF rest
<1>4. /\ to \o rest \in Seq(S) /\ Len(to \o rest) = Len(to) + Len(rest)
      /\ \A i \in 1..(Len(to) + Len(rest)) :
            (to \o rest)[i] = IF i <= Len(to) THEN to[i] ELSE rest[i - Len(to)]
  BY <1>3, ConcatProperties
<1>5. Moved(q, from, to) = to \o rest
  BY DEF Moved, rest
<1>6. ASSUME NEW i \in m..Len(q) PROVE (to \o rest)[i - Len(from) + Len(to)] = q[i]
  <2>1. i - Len(from) \in 1..(Len(q) - Len(from))
    BY <1>1
  <2>2. PICK j \in 1..(Len(q) - Len(from)) : j = i - Len(from)
    BY <2>1
  <2>3. rest[j] = q[i]
    BY <1>1, <1>3, <2>2
  <2>4. (to \o rest)[j + Len(to)] = rest[j]
    BY <1>1, <1>3, <1>4, <2>2
  <2>. QED  BY <2>2, <2>3, <2>4
<1>. QED  BY <1>1, <1>3, <1>4, <1>5, <1>6

\* The same of all the paths in the folder.
AllMoved(S, from, to) ==
    \A q \in Seq(S) : Begins(from, q) =>
        /\ Moved(q, from, to) \in Seq(S)
        /\ Len(Moved(q, from, to)) = Len(to) + Len(q) - Len(from)
        /\ \A i \in 1..Len(to) : Moved(q, from, to)[i] = to[i]
        /\ \A i \in (Len(from) + 1)..Len(q) : Moved(q, from, to)[i - Len(from) + Len(to)] = q[i]

\* Each of them goes along.
LEMMA MovedPaths == ASSUME NEW S, NEW from \in Seq(S), NEW to \in Seq(S) PROVE AllMoved(S, from, to)
<1>. SUFFICES ASSUME NEW q \in Seq(S), Begins(from, q)
              PROVE  /\ Moved(q, from, to) \in Seq(S)
                     /\ Len(Moved(q, from, to)) = Len(to) + Len(q) - Len(from)
                     /\ \A i \in 1..Len(to) : Moved(q, from, to)[i] = to[i]
                     /\ \A i \in (Len(from) + 1)..Len(q) :
                           Moved(q, from, to)[i - Len(from) + Len(to)] = q[i]
  BY DEF AllMoved
<1>1. Moved(q, from, to) \in Seq(S) /\ Len(Moved(q, from, to)) = Len(to) + Len(q) - Len(from)
  BY MovedPath
<1>2. \A i \in 1..Len(to) : Moved(q, from, to)[i] = to[i]
  BY MovedPath
<1>3. \A i \in (Len(from) + 1)..Len(q) : Moved(q, from, to)[i - Len(from) + Len(to)] = q[i]
  BY MovedPath
<1>. QED  BY <1>1, <1>2, <1>3

\* Moving there and back again.
LEMMA MovedBack ==
    ASSUME NEW S, NEW q \in Seq(S), NEW from \in Seq(S), NEW to \in Seq(S), Begins(from, q)
    PROVE  Begins(to, Moved(q, from, to)) /\ Moved(Moved(q, from, to), to, from) = q
<1>. DEFINE there == Moved(q, from, to)
<1>1. there \in Seq(S) /\ Len(there) = Len(to) + Len(q) - Len(from)
  BY MovedPath
<1>2. /\ \A i \in 1..Len(to) : there[i] = to[i]
      /\ \A i \in (Len(from) + 1)..Len(q) : there[i - Len(from) + Len(to)] = q[i]
  <2>1. \A i \in 1..Len(to) : there[i] = to[i]
    BY MovedPath
  <2>2. \A i \in (Len(from) + 1)..Len(q) : there[i - Len(from) + Len(to)] = q[i]
    BY MovedPath
  <2>. QED  BY <2>1, <2>2
<1>. HIDE DEF there
<1>3. Begins(to, there)
  BY <1>1, <1>2 DEF Begins
<1>. DEFINE back == Moved(there, to, from)
<1>0. AllMoved(S, to, from)
  BY MovedPaths
<1>4. back \in Seq(S) /\ Len(back) = Len(from) + Len(there) - Len(to)
  BY <1>0, <1>1, <1>3 DEF AllMoved
<1>5. /\ \A i \in 1..Len(from) : back[i] = from[i]
      /\ \A i \in (Len(to) + 1)..Len(there) : back[i - Len(to) + Len(from)] = there[i]
  BY <1>0, <1>1, <1>3 DEF AllMoved
<1>. HIDE DEF back
<1>6. ASSUME NEW i \in 1..Len(q) PROVE back[i] = q[i]
  <2>1. CASE i <= Len(from)
    BY <1>5, <2>1 DEF Begins
  <2>2. CASE i > Len(from)
    <3>1. PICK j \in (Len(to) + 1)..Len(there) : j = i - Len(from) + Len(to)
      <4>1. i - Len(from) + Len(to) \in (Len(to) + 1)..Len(there)
        BY <1>1, <2>2
      <4>. QED  BY <4>1
    <3>2. back[j - Len(to) + Len(from)] = there[j]
      BY <1>5
    <3>3. there[j] = q[i]
      BY <1>2, <2>2, <3>1
    <3>4. j - Len(to) + Len(from) = i
      BY <3>1
    <3>. QED  BY <3>2, <3>3, <3>4
  <2>. QED  BY <2>1, <2>2
<1>7. back = q
  BY <1>1, <1>4, <1>6, SeqEqual
<1>. QED  BY <1>3, <1>7 DEF there, back


\* A path is on the way to itself.
LEMMA PrefixRefl == ASSUME NEW S, NEW s \in Seq(S) PROVE IsPrefix(s, s)
BY PrefixBegins DEF Begins

\* On the way to what is on the way.
LEMMA PrefixTrans ==
    ASSUME NEW S, NEW a \in Seq(S), NEW b \in Seq(S), NEW c \in Seq(S), IsPrefix(a, b), IsPrefix(b, c)
    PROVE  IsPrefix(a, c)
<1>1. Begins(a, b) /\ Begins(b, c)
  BY PrefixBegins
<1>2. Begins(a, c)
  BY <1>1 DEF Begins
<1>. QED  BY <1>2, PrefixBegins

\* Of two paths on the way to one, one is on the way to the other.
LEMMA PrefixEither ==
    ASSUME NEW S, NEW a \in Seq(S), NEW b \in Seq(S), NEW c \in Seq(S), IsPrefix(a, c), IsPrefix(b, c)
    PROVE  IsPrefix(a, b) \/ IsPrefix(b, a)
<1>1. Begins(a, c) /\ Begins(b, c)
  BY PrefixBegins
<1>2. Begins(a, b) \/ Begins(b, a)
  BY <1>1 DEF Begins
<1>. QED  BY <1>2, PrefixBegins

\* Two paths each on the way to the other are one.
LEMMA PrefixSame ==
    ASSUME NEW S, NEW a \in Seq(S), NEW b \in Seq(S), IsPrefix(a, b), IsPrefix(b, a)
    PROVE  a = b
<1>1. Begins(a, b) /\ Begins(b, a)
  BY PrefixBegins
<1>2. Len(a) = Len(b) /\ \A i \in 1..Len(a) : a[i] = b[i]
  BY <1>1 DEF Begins
<1>. QED  BY <1>2, SeqEqual

\* A folder and what is in it.
LEMMA ChildIs ==
    ASSUME NEW S, NEW d \in Seq(S), NEW x \in S
    PROVE  /\ Append(d, x) \in Seq(S) \ {<< >>} /\ Parent(Append(d, x)) = d
           /\ Last(Append(d, x)) = x /\ IsPrefix(d, Append(d, x))
<1>. DEFINE p == Append(d, x)
<1>1. p \in Seq(S) /\ Len(p) = Len(d) + 1 /\ p[Len(d) + 1] = x /\ \A i \in 1..Len(d) : p[i] = d[i]
  OBVIOUS
<1>. HIDE DEF p
<1>2. p # << >>
  BY <1>1
<1>3. /\ Front(p) \in Seq(S) /\ Len(Front(p)) = Len(d)
      /\ \A i \in 1..Len(d) : Front(p)[i] = p[i]
  BY <1>1, <1>2, FrontBegins
<1>4. Front(p) = d
  BY <1>1, <1>3, SeqEqual
<1>5. Begins(d, p)
  BY <1>1 DEF Begins
<1>6. IsPrefix(d, p)
  BY <1>1, <1>5, PrefixBegins
<1>7. Last(p) = x
  BY <1>1 DEF Last
<1>. QED  BY <1>1, <1>2, <1>4, <1>6, <1>7 DEF Parent, p

\* The folder a path is in, and its name there.
LEMMA ParentIs ==
    ASSUME NEW S, NEW p \in Seq(S), p # << >>
    PROVE  /\ Parent(p) \in Seq(S) /\ Last(p) \in S /\ Append(Parent(p), Last(p)) = p
           /\ Len(p) = Len(Parent(p)) + 1 /\ IsPrefix(Parent(p), p) /\ ~ IsPrefix(p, Parent(p))
<1>1. Len(p) \in Nat \ {0}
  OBVIOUS
<1>2. /\ Parent(p) \in Seq(S) /\ Len(Parent(p)) = Len(p) - 1
      /\ \A i \in 1..(Len(p) - 1) : Parent(p)[i] = p[i]
  BY FrontBegins DEF Parent
<1>3. Last(p) \in S /\ Last(p) = p[Len(p)]
  BY <1>1 DEF Last
<1>. DEFINE a == Parent(p)
            q == Append(a, Last(p))
<1>4. a \in Seq(S) /\ Len(a) = Len(p) - 1 /\ \A i \in 1..(Len(p) - 1) : a[i] = p[i]
  BY <1>2
<1>5. q \in Seq(S) /\ Len(q) = Len(a) + 1 /\ q[Len(a) + 1] = Last(p) /\ \A i \in 1..Len(a) : q[i] = a[i]
  <2>. HIDE DEF a
  <2>. QED  BY <1>3, <1>4
<1>6. q = p
  <2>. HIDE DEF a, q
  <2>1. \A i \in 1..Len(p) : q[i] = p[i]
    BY <1>1, <1>3, <1>4, <1>5
  <2>. QED  BY <1>1, <1>4, <1>5, <2>1, SeqEqual
<1>7. IsPrefix(a, p) /\ ~ IsPrefix(p, a)
  <2>1. Begins(a, p) /\ ~ Begins(p, a)
    <3>. HIDE DEF a
    <3>. QED  BY <1>1, <1>4 DEF Begins
  <2>. QED  BY <1>4, <2>1, PrefixBegins
<1>. QED  BY <1>1, <1>2, <1>3, <1>6, <1>7

\* A path under Append(d, x) that is not that is under one of the children.
LEMMA PrefixOfChild ==
    ASSUME NEW S, NEW a \in Seq(S), NEW d \in Seq(S), NEW x \in S, IsPrefix(a, Append(d, x))
    PROVE  IsPrefix(a, d) \/ a = Append(d, x)
<1>. DEFINE p == Append(d, x)
<1>1. p \in Seq(S) /\ Len(p) = Len(d) + 1 /\ \A i \in 1..Len(d) : p[i] = d[i]
  OBVIOUS
<1>. HIDE DEF p
<1>2. Begins(a, p)
  BY <1>1, PrefixBegins DEF p
<1>3. CASE Len(a) <= Len(d)
  <2>1. Begins(a, d)
    BY <1>1, <1>2, <1>3 DEF Begins
  <2>. QED  BY <2>1, PrefixBegins
<1>4. CASE ~ (Len(a) <= Len(d))
  <2>1. Len(a) = Len(p) /\ \A i \in 1..Len(a) : a[i] = p[i]
    BY <1>1, <1>2, <1>4 DEF Begins
  <2>2. a = p
    BY <1>1, <2>1, SeqEqual
  <2>. QED  BY <2>2 DEF p
<1>. QED  BY <1>3, <1>4

\* A set of numbers that is not empty has a least one.
LEMMA Least ==
    ASSUME NEW S \in SUBSET Nat, S # {}
    PROVE  \E n \in S : \A m \in S : n <= m
<1>. DEFINE R == {ss \in Nat \X Nat : ss[1] < ss[2]}
<1>1. IsWellFoundedOn(R, Nat)
  BY NatLessThanWellFounded DEF OpToRel
<1>2. PICK n \in S : \A m \in S : ~(<<m, n>> \in R)
  <2>. HIDE DEF R
  <2>. QED  BY <1>1, WFMin
<1>3. \A m \in S : ~(m < n)
  BY <1>2
<1>. QED  BY <1>3

\* The folders on the way to what a tree has are there.
LEMMA WayThere ==
    ASSUME NEW S, NEW t, DOMAIN t \subseteq Seq(S), Tidy(t), NEW q \in DOMAIN t, NEW n \in 1..Len(q)
    PROVE  SubSeq(q, 1, n) \in DOMAIN t
<1>. DEFINE Bad == {m \in Nat : m < Len(q) /\ SubSeq(q, 1, Len(q) - m) \notin DOMAIN t}
<1>0. q \in Seq(S) /\ Len(q) \in Nat
  OBVIOUS
<1>1. SUFFICES ASSUME Bad # {} PROVE FALSE
  <2>1. Len(q) - n \in Nat /\ Len(q) - n < Len(q) /\ Len(q) - (Len(q) - n) = n
    BY <1>0
  <2>. QED  BY <1>1, <2>1
<1>2. PICK m \in Bad : \A k \in Bad : m <= k
  <2>1. Bad \in SUBSET Nat
    OBVIOUS
  <2>. HIDE DEF Bad
  <2>. QED  BY <1>1, <2>1, Least
<1>3. m \in Nat /\ m < Len(q) /\ SubSeq(q, 1, Len(q) - m) \notin DOMAIN t
  BY <1>2
<1>4. PICK l \in 1..Len(q) : l = Len(q) - m
  BY <1>0, <1>3
<1>5. CASE m = 0
  <2>1. SubSeq(q, 1, Len(q)) = q
    <3>1. /\ SubSeq(q, 1, Len(q)) \in Seq(S) /\ Len(SubSeq(q, 1, Len(q))) = Len(q)
          /\ \A i \in 1..Len(q) : SubSeq(q, 1, Len(q))[i] = q[i]
      BY <1>0, FirstOf
    <3>. QED  BY <1>0, <3>1, SeqEqual
  <2>2. Len(q) - m = Len(q)
    BY <1>0, <1>5
  <2>. QED  BY <1>3, <2>1, <2>2
<1>6. CASE m # 0
  <2>1. m - 1 \in Nat /\ m - 1 < Len(q) /\ m - 1 \notin Bad
    BY <1>2, <1>3, <1>6
  <2>2. SubSeq(q, 1, Len(q) - (m - 1)) \in DOMAIN t
    BY <2>1
  <2>3. PICK up : up = SubSeq(q, 1, l + 1)
    OBVIOUS
  <2>4. l + 1 \in 0..Len(q) /\ Len(q) - (m - 1) = l + 1 /\ l \in 0..Len(q)
    BY <1>0, <1>3, <1>4, <1>6
  <2>5. up \in DOMAIN t
    BY <2>2, <2>3, <2>4
  <2>6. up \in Seq(S) /\ Len(up) = l + 1 /\ \A i \in 1..(l + 1) : up[i] = q[i]
    BY <1>0, <2>3, <2>4, FirstOf
  <2>7. up # << >>
    BY <1>4, <2>6
  <2>8. /\ Parent(up) \in Seq(S) /\ Len(Parent(up)) = l
        /\ \A i \in 1..l : Parent(up)[i] = up[i]
    BY <1>4, <2>6, <2>7, FrontBegins DEF Parent
  <2>9. /\ SubSeq(q, 1, l) \in Seq(S) /\ Len(SubSeq(q, 1, l)) = l
        /\ \A i \in 1..l : SubSeq(q, 1, l)[i] = q[i]
    BY <1>0, <2>4, FirstOf
  <2>. DEFINE low == SubSeq(q, 1, l)
  <2>10. Parent(up) = low
    <3>1. low \in Seq(S) /\ Len(low) = l /\ \A i \in 1..l : low[i] = q[i]
      BY <2>9
    <3>. HIDE DEF low
    <3>2. \A i \in 1..l : Parent(up)[i] = low[i]
      BY <1>4, <2>6, <2>8, <3>1
    <3>. QED  BY <2>8, <3>1, <3>2, SeqEqual
  <2>11. Parent(up) # << >>
    BY <1>4, <2>8
  <2>12. IsFolder(t, Parent(up))
    BY <2>5, <2>7, <2>11 DEF Tidy
  <2>. QED  BY <1>3, <1>4, <2>10, <2>12 DEF IsFolder
<1>. QED  BY <1>5, <1>6

\* So is every path on the way.
LEMMA OnTheWay ==
    ASSUME NEW S, NEW t, DOMAIN t \subseteq Seq(S), Tidy(t), NEW q \in DOMAIN t,
           NEW p \in Seq(S), p # << >>, IsPrefix(p, q)
    PROVE  p \in DOMAIN t
<1>1. Len(p) \in 1..Len(q) /\ SubSeq(q, 1, Len(p)) = SubSeq(p, 1, Len(p))
  BY DEF IsPrefix
<1>2. SubSeq(p, 1, Len(p)) = p
  OBVIOUS
<1>. QED  BY <1>1, <1>2, WayThere

\* Whatever is under a folder, and not that, is under or is one of its children.
LEMMA ChildOnTheWay ==
    ASSUME NEW S, NEW t, DOMAIN t \subseteq Seq(S), Tidy(t), NEW d \in Seq(S), NEW q \in DOMAIN t,
           IsPrefix(d, q), q # d
    PROVE  \E c \in DOMAIN t : c # << >> /\ Parent(c) = d /\ IsPrefix(c, q)
<1>1. q \in Seq(S) /\ Len(q) \in Nat /\ Len(d) \in Nat
  OBVIOUS
<1>2. Begins(d, q) /\ Len(d) < Len(q)
  <2>1. Begins(d, q)
    BY <1>1, PrefixBegins
  <2>2. Len(d) = Len(q) => d = q
    BY <1>1, <2>1, SeqEqual DEF Begins
  <2>. QED  BY <1>1, <2>1, <2>2 DEF Begins
<1>3. Len(d) + 1 \in 1..Len(q) /\ Len(d) + 1 \in 0..Len(q)
  BY <1>1, <1>2
<1>4. PICK c : c = SubSeq(q, 1, Len(d) + 1)
  OBVIOUS
<1>5. c \in DOMAIN t
  BY <1>3, <1>4, WayThere
<1>6. c \in Seq(S) /\ Len(c) = Len(d) + 1 /\ \A i \in 1..(Len(d) + 1) : c[i] = q[i]
  BY <1>1, <1>3, <1>4, FirstOf
<1>7. c # << >>
  BY <1>1, <1>6
<1>8. /\ Parent(c) \in Seq(S) /\ Len(Parent(c)) = Len(d)
      /\ \A i \in 1..Len(d) : Parent(c)[i] = c[i]
  BY SMTT(60), <1>1, <1>6, <1>7, FrontBegins DEF Parent
<1>9. Parent(c) = d
  <2>1. \A i \in 1..Len(d) : Parent(c)[i] = d[i]
    BY <1>1, <1>2, <1>6, <1>8 DEF Begins
  <2>. QED  BY <1>8, <2>1, SeqEqual
<1>10. Begins(c, q)
  BY <1>3, <1>6 DEF Begins
<1>. QED  BY <1>1, <1>5, <1>6, <1>7, <1>9, <1>10, PrefixBegins

\* Nothing is under a file.
LEMMA FileIsEnd ==
    ASSUME NEW S, NEW t, DOMAIN t \subseteq Seq(S), Tidy(t), NEW p, p # << >>, IsFile(t, p),
           NEW q \in DOMAIN t, IsPrefix(p, q)
    PROVE  q = p
<1>. SUFFICES ASSUME q # p PROVE FALSE
  OBVIOUS
<1>1. p \in Seq(S) /\ p \in DOMAIN t /\ t[p] # Folder
  BY DEF IsFile
<1>2. PICK c \in DOMAIN t : c # << >> /\ Parent(c) = p
  BY <1>1, ChildOnTheWay
<1>. QED  BY <1>1, <1>2 DEF Tidy, IsFolder

-----------------------------------------------------------------------------
(* Sequences of tasks.                                                        *)

\* The members of a finite set, in some order.
LEMMA SetToSeqIs ==
    ASSUME NEW S, IsFiniteSet(S)
    PROVE  SetToSeq(S) \in Seq(S) /\ Range(SetToSeq(S)) = S
<1>. DEFINE N == Cardinality(S)
            f == SetToSeq(S)
<1>1. N \in Nat /\ ExistsBijection(1..N, S)
  BY FS_CardinalityType
<1>2. PICK g \in [1..N -> S] : IsInjective(g)
  BY <1>1 DEF ExistsBijection, Bijection, Injection
<1>3. f \in [1..N -> S] /\ IsInjective(f)
  BY <1>2 DEF SetToSeq
<1>. HIDE DEF f
<1>4. \A n, f1 : n \in Nat /\ f1 \in [1..n -> S] => f1 \in Seq(S)
  OBVIOUS
<1>5. f \in Seq(S)
  BY <1>1, <1>3, <1>4
<1>6. f \in Surjection(1..N, S)
  <2>1. f \in Injection(1..N, S)
    BY <1>3 DEF Injection
  <2>2. IsFiniteSet(1..N) /\ Cardinality(1..N) = N
    BY <1>1, FS_Interval
  <2>. QED  BY <1>1, <2>1, <2>2, FS_Injection
<1>7. Range(f) = S
  BY <1>3, <1>6 DEF Surjection, Range
<1>. QED  BY <1>5, <1>7 DEF f

\* The tasks that come after the current one.
Later == Range(Tail(todo))

\* A sequence is its head and its tail.
LEMMA HeadAndTail ==
    ASSUME NEW T, NEW s \in Seq(T), s # << >>
    PROVE  /\ Head(s) \in T /\ Tail(s) \in Seq(T)
           /\ Range(s) = {Head(s)} \cup Range(Tail(s))
<1>1. /\ Head(s) \in T /\ Tail(s) \in Seq(T) /\ Len(s) \in Nat \ {0} /\ Len(Tail(s)) = Len(s) - 1
      /\ s[1] = Head(s) /\ \A i \in 1..Len(Tail(s)) : Tail(s)[i] = s[i + 1]
  OBVIOUS
<1>2. \A x \in Range(s) : x = Head(s) \/ x \in Range(Tail(s))
  <2>. TAKE x \in Range(s)
  <2>1. PICK i \in 1..Len(s) : x = s[i]
    BY DEF Range
  <2>2. CASE i = 1
    BY <1>1, <2>1, <2>2
  <2>3. CASE i # 1
    <3>1. i - 1 \in 1..Len(Tail(s)) /\ (i - 1) + 1 = i
      BY <1>1, <2>3
    <3>2. i - 1 \in DOMAIN Tail(s) /\ Tail(s)[i - 1] = x
      BY <1>1, <2>1, <3>1
    <3>. QED  BY <3>2 DEF Range
  <2>. QED  BY <2>2, <2>3
<1>3. Head(s) \in Range(s)
  <2>1. 1 \in DOMAIN s
    BY <1>1
  <2>. QED  BY <1>1, <2>1 DEF Range
<1>4. \A x \in Range(Tail(s)) : x \in Range(s)
  <2>. TAKE x \in Range(Tail(s))
  <2>1. PICK i \in 1..Len(Tail(s)) : x = Tail(s)[i]
    BY <1>1 DEF Range
  <2>2. i + 1 \in DOMAIN s /\ s[i + 1] = x
    BY <1>1, <2>1
  <2>. QED  BY <2>2 DEF Range
<1>. QED  BY <1>1, <1>2, <1>3, <1>4

\* Two places of a sequence joined of two: both in one part, or one in each.
LEMMA JoinIs ==
    ASSUME NEW T, NEW a \in Seq(T), NEW b \in Seq(T)
    PROVE  /\ a \o b \in Seq(T) /\ Range(a \o b) = Range(a) \cup Range(b)
           /\ \A i, j \in DOMAIN (a \o b) : i < j =>
                \/ (i \in DOMAIN a /\ j \in DOMAIN a /\ (a \o b)[i] = a[i] /\ (a \o b)[j] = a[j])
                \/ ((a \o b)[i] \in Range(a) /\ (a \o b)[j] \in Range(b))
                \/ \E k, l \in DOMAIN b : k < l /\ (a \o b)[i] = b[k] /\ (a \o b)[j] = b[l]
<1>. DEFINE c == a \o b
<1>1. /\ c \in Seq(T) /\ Len(c) = Len(a) + Len(b) /\ DOMAIN c = 1..Len(c)
      /\ Len(a) \in Nat /\ Len(b) \in Nat /\ DOMAIN a = 1..Len(a) /\ DOMAIN b = 1..Len(b)
  OBVIOUS
<1>2. \A i \in 1..Len(a) : c[i] = a[i]
  OBVIOUS
<1>3. \A i \in 1..Len(b) : c[i + Len(a)] = b[i]
  OBVIOUS
<1>. HIDE DEF c
<1>4. \A i \in DOMAIN c : (i \in DOMAIN a /\ c[i] = a[i]) \/ (i - Len(a) \in DOMAIN b /\ c[i] = b[i - Len(a)])
  <2>. TAKE i \in DOMAIN c
  <2>1. CASE i <= Len(a)
    BY <1>1, <1>2, <2>1
  <2>2. CASE ~ (i <= Len(a))
    <3>1. PICK k \in 1..Len(b) : k = i - Len(a)
      BY <1>1, <2>2
    <3>2. k + Len(a) = i
      BY <1>1, <3>1
    <3>3. c[i] = b[k]
      BY <1>3, <3>2
    <3>. QED  BY <1>1, <3>1, <3>3
  <2>. QED  BY <2>1, <2>2
<1>5. Range(c) = Range(a) \cup Range(b)
  <2>1. \A x \in Range(c) : x \in Range(a) \cup Range(b)
    BY <1>4 DEF Range
  <2>2. \A x \in Range(a) : x \in Range(c)
    <3>1. \A i \in DOMAIN a : i \in DOMAIN c
      BY <1>1
    <3>. QED  BY <1>1, <1>2, <3>1 DEF Range
  <2>3. \A x \in Range(b) : x \in Range(c)
    <3>1. \A i \in DOMAIN b : i + Len(a) \in DOMAIN c
      BY <1>1
    <3>. QED  BY <1>1, <1>3, <3>1 DEF Range
  <2>. QED  BY <2>1, <2>2, <2>3
<1>6. ASSUME NEW i \in DOMAIN c, NEW j \in DOMAIN c, i < j
      PROVE  \/ i \in DOMAIN a /\ j \in DOMAIN a /\ c[i] = a[i] /\ c[j] = a[j]
             \/ c[i] \in Range(a) /\ c[j] \in Range(b)
             \/ \E k, l \in DOMAIN b : k < l /\ c[i] = b[k] /\ c[j] = b[l]
  <2>1. CASE j <= Len(a)
    BY <1>1, <1>2, <1>6, <2>1
  <2>2. CASE i <= Len(a) /\ ~ (j <= Len(a))
    <3>1. i \in DOMAIN a /\ c[i] = a[i]
      BY <1>1, <1>2, <2>2
    <3>2. j - Len(a) \in DOMAIN b /\ c[j] = b[j - Len(a)]
      BY <1>1, <1>4, <2>2
    <3>. QED  BY <3>1, <3>2 DEF Range
  <2>3. CASE ~ (i <= Len(a))
    <3>1. i - Len(a) \in DOMAIN b /\ c[i] = b[i - Len(a)]
      BY <1>1, <1>4, <2>3
    <3>2. j - Len(a) \in DOMAIN b /\ c[j] = b[j - Len(a)]
      BY <1>1, <1>4, <1>6, <2>3
    <3>3. i - Len(a) < j - Len(a)
      BY <1>1, <1>6
    <3>. QED  BY <3>1, <3>2, <3>3
  <2>. QED  BY <2>1, <2>2, <2>3
<1>. QED  BY <1>1, <1>5, <1>6 DEF c

\* New tasks put before those that may follow them keep the order.
LEMMA JoinOrdered ==
    ASSUME NEW T, NEW a \in Seq(T), NEW b \in Seq(T), Ordered(a), Ordered(b),
           \A x \in Range(a), y \in Range(b) : Follows(x, y)
    PROVE  Ordered(a \o b)
<1>. DEFINE c == a \o b
<1>1. \A i, j \in DOMAIN c : i < j =>
         \/ i \in DOMAIN a /\ j \in DOMAIN a /\ c[i] = a[i] /\ c[j] = a[j]
         \/ c[i] \in Range(a) /\ c[j] \in Range(b)
         \/ \E k, l \in DOMAIN b : k < l /\ c[i] = b[k] /\ c[j] = b[l]
  BY SMTT(60), JoinIs
<1>. HIDE DEF c
<1>2. Ordered(c)
  BY <1>1, Zenon DEF Ordered
<1>. QED  BY <1>2 DEF c

\* The tasks left follow the current one.
LEMMA TailOrdered ==
    ASSUME NEW T, NEW s \in Seq(T), s # << >>, Ordered(s)
    PROVE  Ordered(Tail(s)) /\ \A y \in Range(Tail(s)) : Follows(Head(s), y)
<1>1. /\ Tail(s) \in Seq(T) /\ Len(s) \in Nat \ {0} /\ Len(Tail(s)) = Len(s) - 1
      /\ s[1] = Head(s) /\ DOMAIN s = 1..Len(s) /\ DOMAIN Tail(s) = 1..Len(Tail(s))
  OBVIOUS
<1>2. \A i \in 1..Len(Tail(s)) : Tail(s)[i] = s[i + 1]
  OBVIOUS
<1>3. PICK r : r = Tail(s)
  OBVIOUS
<1>4. \A i \in DOMAIN r : i + 1 \in DOMAIN s /\ 1 < i + 1 /\ r[i] = s[i + 1]
  BY <1>1, <1>2, <1>3
<1>5. \A i, j \in DOMAIN r : i < j => i + 1 < j + 1
  BY <1>1, <1>3
<1>6. Ordered(r)
  BY <1>4, <1>5 DEF Ordered
<1>7. \A y \in Range(r) : Follows(s[1], y)
  <2>1. 1 \in DOMAIN s
    BY <1>1
  <2>. QED  BY <1>4, <2>1 DEF Ordered, Range
<1>. QED  BY <1>1, <1>3, <1>6, <1>7

\* A sequence of one task.
LEMMA OneTask ==
    ASSUME NEW T, NEW x \in T
    PROVE  <<x>> \in Seq(T) /\ Range(<<x>>) = {x} /\ Ordered(<<x>>)
<1>1. <<x>> \in Seq(T) /\ DOMAIN <<x>> = {1} /\ <<x>>[1] = x
  OBVIOUS
<1>. QED  BY <1>1 DEF Range, Ordered

\* The sequence of no task.
LEMMA NoTask ==
    ASSUME NEW T
    PROVE  << >> \in Seq(T) /\ Range(<< >>) = {} /\ Ordered(<< >>) /\ \A s \in Seq(T) : << >> \o s = s
<1>1. << >> \in Seq(T) /\ DOMAIN << >> = {}
  OBVIOUS
<1>2. \A s \in Seq(T) : << >> \o s = s
  OBVIOUS
<1>. QED  BY <1>1, <1>2 DEF Range, Ordered

-----------------------------------------------------------------------------
(* Trees.                                                                     *)

\* What putting something at one place of a tree changes.
LEMMA WithIs ==
    ASSUME NEW t, NEW p, NEW c
    PROVE  /\ DOMAIN With(t, p, c) = DOMAIN t \cup {p} /\ With(t, p, c)[p] = c
           /\ \A q \in DOMAIN t \ {p} : With(t, p, c)[q] = t[q]
BY DEF With

\* What is left when one place is taken away.
LEMMA WithoutIs ==
    ASSUME NEW t, NEW p
    PROVE  /\ DOMAIN Without(t, p) = DOMAIN t \ {p}
           /\ \A q \in DOMAIN t \ {p} : Without(t, p)[q] = t[q]
BY DEF Without, Restrict

\* Putting something into a folder keeps everything in a folder.
LEMMA WithTidy ==
    ASSUME NEW t, NEW p, NEW c, Tidy(t), IsFree(t, p)
    PROVE  Tidy(With(t, p, c))
<1>1. p \notin DOMAIN t /\ IsFolder(t, Parent(p))
  BY DEF IsFree
<1>2. PICK w : w = With(t, p, c)
  OBVIOUS
<1>3. DOMAIN w = DOMAIN t \cup {p} /\ w[p] = c /\ \A q \in DOMAIN t \ {p} : w[q] = t[q]
  BY <1>2 DEF With
<1>4. \A q : IsFolder(t, q) => IsFolder(w, q)
  BY <1>1, <1>3 DEF IsFolder
<1>5. Tidy(w)
  BY <1>1, <1>3, <1>4 DEF Tidy
<1>. QED  BY <1>2, <1>5

\* So does taking away a file or an empty folder.
LEMMA WithoutTidy ==
    ASSUME NEW S, NEW t, DOMAIN t \subseteq Seq(S), Tidy(t), NEW p \in DOMAIN t, p # << >>,
           IsFile(t, p) \/ Children(t, p) = {}
    PROVE  Tidy(Without(t, p))
<1>1. ASSUME NEW q \in DOMAIN t, q # << >>, Parent(q) = p PROVE FALSE
  <2>1. IsFolder(t, p)
    BY <1>1 DEF Tidy
  <2>2. q \in Children(t, p)
    <3>1. q \in Seq(S) /\ Len(q) = Len(Parent(q)) + 1
      BY <1>1, ParentIs
    <3>. QED  BY <1>1, <3>1 DEF Children
  <2>. QED  BY <2>1, <2>2 DEF IsFile, IsFolder
<1>2. \A q \in DOMAIN t : q # p /\ IsFolder(t, q) => IsFolder(Without(t, p), q)
  BY WithoutIs DEF IsFolder
<1>. QED  BY ZenonT(60), <1>1, <1>2, WithoutIs DEF Tidy, IsFolder

\* What moves with a folder stays in the same folder below it.
LEMMA MovedParent ==
    ASSUME NEW S, NEW u \in Seq(S), NEW from \in Seq(S), NEW to \in Seq(S),
           Begins(from, u), Len(from) < Len(u)
    PROVE  /\ Moved(u, from, to) # << >> /\ Begins(from, Parent(u))
           /\ Parent(Moved(u, from, to)) = Moved(Parent(u), from, to)
<1>. DEFINE m == Moved(u, from, to)
            v == Parent(u)
            w == Moved(v, from, to)
<1>0. Len(from) \in Nat /\ Len(to) \in Nat /\ Len(u) \in Nat /\ u # << >>
  OBVIOUS
<1>0a. AllMoved(S, from, to)
  BY MovedPaths
<1>1. v \in Seq(S) /\ Len(v) = Len(u) - 1 /\ \A i \in 1..(Len(u) - 1) : v[i] = u[i]
  BY <1>0, FrontBegins DEF Parent
<1>2. Begins(from, v)
  <2>. HIDE DEF v
  <2>. QED  BY <1>0, <1>1 DEF Begins
<1>3. m \in Seq(S) /\ Len(m) = Len(to) + Len(u) - Len(from)
  BY MovedPath
<1>4. \A i \in 1..Len(to) : m[i] = to[i]
  BY MovedPath
<1>5. \A i \in (Len(from) + 1)..Len(u) : m[i - Len(from) + Len(to)] = u[i]
  BY MovedPath
<1>. HIDE DEF m, v
<1>6. w \in Seq(S) /\ Len(w) = Len(to) + Len(v) - Len(from)
  BY <1>1, <1>2, <1>0a DEF w, AllMoved
<1>7. \A i \in 1..Len(to) : w[i] = to[i]
  BY <1>1, <1>2, <1>0a DEF w, AllMoved
<1>8. \A i \in (Len(from) + 1)..Len(v) : w[i - Len(from) + Len(to)] = v[i]
  BY <1>1, <1>2, <1>0a DEF w, AllMoved
<1>. HIDE DEF w
<1>9. m # << >>
  BY <1>0, <1>3
<1>10. Parent(m) \in Seq(S) /\ Len(Parent(m)) = Len(m) - 1 /\ \A i \in 1..(Len(m) - 1) : Parent(m)[i] = m[i]
  BY <1>3, <1>9, FrontBegins DEF Parent
<1>11. Len(w) = Len(m) - 1
  BY <1>0, <1>1, <1>3, <1>6
<1>12. ASSUME NEW i \in 1..Len(w) PROVE w[i] = m[i]
  <2>1. CASE i \in 1..Len(to)
    BY <1>4, <1>7, <2>1
  <2>2. CASE i \notin 1..Len(to)
    <3>1. PICK j \in (Len(from) + 1)..Len(v) : j = i - Len(to) + Len(from)
      <4>1. i - Len(to) + Len(from) \in (Len(from) + 1)..Len(v)
        BY <1>0, <1>1, <1>6, <2>2
      <4>. QED  BY <4>1
    <3>2. j - Len(from) + Len(to) = i
      BY <1>0, <1>6, <3>1
    <3>3. j \in (Len(from) + 1)..Len(u) /\ j \in 1..(Len(u) - 1)
      BY <1>0, <1>1, <3>1
    <3>. QED  BY <1>1, <1>5, <1>8, <3>1, <3>2, <3>3
  <2>. QED  BY <2>1, <2>2
<1>13. Parent(m) = w
  <2>1. \A i \in 1..Len(w) : Parent(m)[i] = w[i]
    BY <1>10, <1>11, <1>12
  <2>. QED  BY <1>6, <1>10, <1>11, <2>1, SeqEqual
<1>. QED  BY <1>2, <1>9, <1>13 DEF m, v, w

\* A rename changes nothing that is not under the old or the new path.
LEMMA RenamedIs ==
    ASSUME NEW S, NEW t, DOMAIN t \subseteq Seq(S), IsFiniteSet(DOMAIN t),
           NEW from \in Seq(S), NEW to \in Seq(S)
    PROVE  LET r == Renamed(t, from, to)
           IN  /\ DOMAIN r \subseteq Seq(S) /\ IsFiniteSet(DOMAIN r)
               /\ \A q \in DOMAIN r : \E x \in DOMAIN t : r[q] = t[x]
               /\ \A q : ~ IsPrefix(from, q) /\ ~ IsPrefix(to, q) =>
                     /\ q \in DOMAIN r <=> q \in DOMAIN t
                     /\ q \in DOMAIN t => r[q] = t[q]
<1>. DEFINE under == {q \in DOMAIN t : IsPrefix(from, q)}
            moved == {Moved(u, from, to) : u \in under}
            r == Renamed(t, from, to)
<1>1. \A u \in under : u \in Seq(S) /\ Begins(from, u) /\ u \in DOMAIN t
  BY PrefixBegins
<1>2. /\ DOMAIN r = (DOMAIN t \ under) \cup moved
      /\ \A q \in moved : r[q] = t[Moved(q, to, from)]
      /\ \A q \in DOMAIN t \ under : q \notin moved => r[q] = t[q]
  BY DEF Renamed
<1>3. \A u \in under : /\ Moved(u, from, to) \in Seq(S) /\ Begins(to, Moved(u, from, to))
                       /\ Moved(Moved(u, from, to), to, from) = u
  BY <1>1, MovedPath, MovedBack
<1>5. \A q \in moved : IsPrefix(to, q) /\ q \in Seq(S)
  BY <1>3, PrefixBegins
<1>7. \A u \in under : Moved(u, from, to) \in moved /\ r[Moved(u, from, to)] = t[u]
  BY <1>2, <1>3
<1>. HIDE DEF r
<1>8. IsFiniteSet(DOMAIN r)
  <2>1. IsFiniteSet(under)
    BY FS_Subset
  <2>2. IsFiniteSet(moved)
    <3>. DEFINE F == [u \in under |-> Moved(u, from, to)]
    <3>1. F \in Surjection(under, moved)
      BY DEF Surjection
    <3>. HIDE DEF F, under, moved
    <3>. QED  BY <2>1, <3>1, FS_Surjection
  <2>3. IsFiniteSet(DOMAIN t \ under)
    BY FS_Subset
  <2>. HIDE DEF under, moved
  <2>. QED  BY <1>2, <2>2, <2>3, FS_Union
<1>9. DOMAIN r \subseteq Seq(S)
  BY <1>2, <1>5
<1>10. \A q \in DOMAIN r : \E x \in DOMAIN t : r[q] = t[x]
  <2>1. \A q \in moved : \E u \in under : q = Moved(u, from, to)
    OBVIOUS
  <2>. HIDE DEF under, moved
  <2>. QED  BY <1>1, <1>2, <1>7, <2>1
<1>12. ASSUME NEW q, ~ IsPrefix(from, q), ~ IsPrefix(to, q)
       PROVE  (q \in DOMAIN r <=> q \in DOMAIN t) /\ (q \in DOMAIN t => r[q] = t[q])
  <2>1. q \notin under /\ q \notin moved
    BY <1>5, <1>12
  <2>. HIDE DEF under, moved
  <2>. QED  BY <1>2, <2>1
<1>. QED  BY <1>8, <1>9, <1>10, <1>12 DEF r

\* A rename loses nothing: what was under the old path is under the new one.
LEMMA RenamedKeeps ==
    ASSUME NEW S, NEW t, DOMAIN t \subseteq Seq(S), Tidy(t),
           NEW from \in DOMAIN t, from # << >>, NEW to \in Seq(S), to # << >>, IsFree(t, to),
           ~ IsPrefix(from, Parent(to))
    PROVE  LET r == Renamed(t, from, to)
           IN  /\ Tidy(r)
               /\ \A q \in DOMAIN t : \E x \in DOMAIN r : r[x] = t[q]
               /\ \A q \in DOMAIN t : IsPrefix(from, q) =>
                     \E x \in DOMAIN r : r[x] = t[q] /\ IsPrefix(to, x)
<1>. DEFINE under == {q \in DOMAIN t : IsPrefix(from, q)}
            moved == {Moved(u, from, to) : u \in under}
            r == Renamed(t, from, to)
<1>1. from \in Seq(S) /\ from \in under /\ \A u \in under : u \in Seq(S) /\ Begins(from, u) /\ u \in DOMAIN t
  BY PrefixBegins, PrefixRefl
<1>2. /\ DOMAIN r = (DOMAIN t \ under) \cup moved
      /\ \A q \in moved : r[q] = t[Moved(q, to, from)]
      /\ \A q \in DOMAIN t \ under : q \notin moved => r[q] = t[q]
  BY DEF Renamed
<1>3. \A u \in under : /\ Moved(u, from, to) \in Seq(S) /\ Begins(to, Moved(u, from, to))
                       /\ Moved(Moved(u, from, to), to, from) = u
  BY <1>1, MovedPath, MovedBack
<1>4. \A q \in DOMAIN t : ~ IsPrefix(to, q)
  BY OnTheWay DEF IsFree
<1>5. \A q \in moved : IsPrefix(to, q) /\ q \in Seq(S)
  BY <1>3, PrefixBegins
<1>6. moved \cap DOMAIN t = {}
  BY <1>4, <1>5
<1>7. \A u \in under : Moved(u, from, to) \in moved /\ r[Moved(u, from, to)] = t[u]
  BY <1>2, <1>3
<1>. HIDE DEF r
<1>11. \A q \in DOMAIN t : \E x \in DOMAIN r : r[x] = t[q]
  <2>. TAKE q \in DOMAIN t
  <2>. HIDE DEF under, moved
  <2>1. CASE q \in under
    BY <1>2, <1>7, <2>1
  <2>2. CASE q \notin under
    BY <1>2, <1>6, <2>2
  <2>. QED  BY <2>1, <2>2
<1>12. \A q \in DOMAIN t : IsPrefix(from, q) => \E x \in DOMAIN r : r[x] = t[q] /\ IsPrefix(to, x)
  <2>. SUFFICES ASSUME NEW q \in under PROVE \E x \in DOMAIN r : r[x] = t[q] /\ IsPrefix(to, x)
    OBVIOUS
  <2>1. PICK m \in moved : m = Moved(q, from, to)
    BY <1>7
  <2>. HIDE DEF under, moved
  <2>2. m \in DOMAIN r /\ r[m] = t[q] /\ IsPrefix(to, m)
    BY <1>2, <1>5, <1>7, <2>1
  <2>. QED  BY <2>2
<1>13. Tidy(r)
  <2>1. ASSUME NEW q \in DOMAIN t, IsFolder(t, q), q \notin under PROVE IsFolder(r, q)
    <3>. HIDE DEF under, moved
    <3>. QED  BY <1>2, <1>6, <2>1 DEF IsFolder
  <2>2. SUFFICES ASSUME NEW q \in DOMAIN r, q # << >>, Parent(q) # << >> PROVE IsFolder(r, Parent(q))
    BY DEF Tidy
  <2>3. CASE q \in DOMAIN t \ under
    <3>1. IsFolder(t, Parent(q))
      BY <2>2, <2>3 DEF Tidy
    <3>2. Parent(q) \notin under
      <4>1. q \in Seq(S) /\ Parent(q) \in Seq(S) /\ IsPrefix(Parent(q), q)
        BY <2>2, <2>3, ParentIs
      <4>2. IsPrefix(from, Parent(q)) => IsPrefix(from, q)
        BY <1>1, <4>1, PrefixTrans
      <4>. QED  BY <2>3, <4>2
    <3>. QED  BY <2>1, <3>1, <3>2 DEF IsFolder
  <2>4. CASE q \in moved
    <3>1. PICK u \in under : q = Moved(u, from, to)
      BY <2>4
    <3>2. CASE u = from
      <4>1. q = to
        <5>1. q \in Seq(S) /\ Len(q) = Len(to) + Len(u) - Len(from)
          BY <1>1, <3>1, MovedPath
        <5>2. Begins(to, q) /\ Len(from) \in Nat /\ Len(to) \in Nat
          BY <1>1, <1>3, <3>1
        <5>3. Len(q) = Len(to)
          BY <3>2, <5>1, <5>2
        <5>. QED  BY <5>1, <5>2, <5>3, SeqEqual DEF Begins
      <4>2. IsFolder(t, Parent(to)) /\ Parent(to) \notin under
        BY DEF IsFree
      <4>. QED  BY <2>1, <4>1, <4>2 DEF IsFolder
    <3>3. CASE u # from
      <4>1. u \in Seq(S) /\ Begins(from, u)
        BY <1>1
      <4>2. Len(from) < Len(u)
        <5>1. Len(from) \in Nat /\ Len(u) \in Nat /\ (Len(from) = Len(u) => from = u)
          BY <1>1, <4>1, SeqEqual DEF Begins
        <5>. QED  BY <3>3, <4>1, <5>1 DEF Begins
      <4>3. Begins(from, Parent(u)) /\ Parent(q) = Moved(Parent(u), from, to)
        BY <1>1, <3>1, <4>1, <4>2, MovedParent
      <4>4. u # << >> /\ Parent(u) \in Seq(S)
        <5>1. u # << >>
          BY <1>1, <4>1, <4>2
        <5>. QED  BY <4>1, <5>1, ParentIs
      <4>5. Parent(u) # << >>
        BY <1>1, <4>3, <4>4 DEF Begins
      <4>6. IsFolder(t, Parent(u))
        BY <1>1, <4>4, <4>5 DEF Tidy
      <4>7. Parent(u) \in under
        BY <1>1, <4>3, <4>4, <4>6, PrefixBegins DEF IsFolder
      <4>8. Moved(Parent(u), from, to) \in moved /\ r[Moved(Parent(u), from, to)] = t[Parent(u)]
        BY <1>7, <4>7
      <4>. HIDE DEF under, moved
      <4>. QED  BY <1>2, <4>3, <4>6, <4>8 DEF IsFolder
    <3>. QED  BY <3>2, <3>3
  <2>. HIDE DEF under, moved
  <2>. QED  BY <1>2, <2>3, <2>4
<1>. QED  BY <1>11, <1>12, <1>13 DEF r

\* A rename leaves nothing under the old path, unless the new one is under it or
\* on the way to it; what is then under the old path is under the new one.
LEMMA RenamedGone ==
    ASSUME NEW S, NEW t, DOMAIN t \subseteq Seq(S), NEW from \in Seq(S), NEW to \in Seq(S),
           NEW q \in DOMAIN Renamed(t, from, to), ~ IsPrefix(to, q)
    PROVE  ~ IsPrefix(from, q) /\ q \in DOMAIN t /\ Renamed(t, from, to)[q] = t[q]
<1>. DEFINE under == {u \in DOMAIN t : IsPrefix(from, u)}
            moved == {Moved(u, from, to) : u \in under}
            r == Renamed(t, from, to)
<1>1. \A u \in under : u \in Seq(S) /\ Begins(from, u)
  BY PrefixBegins
<1>2. /\ DOMAIN r = (DOMAIN t \ under) \cup moved
      /\ \A p \in DOMAIN t \ under : p \notin moved => r[p] = t[p]
  BY DEF Renamed
<1>3. \A u \in under : Moved(u, from, to) \in Seq(S) /\ Begins(to, Moved(u, from, to))
  BY <1>1, MovedPath, MovedBack
<1>4. \A p \in moved : IsPrefix(to, p)
  BY <1>3, PrefixBegins
<1>. HIDE DEF r, moved
<1>. QED  BY <1>2, <1>4 DEF r

-----------------------------------------------------------------------------
(* The operation and its tasks.                                               *)

\* The marks are not contents of a file, and differ from each other.
LEMMA Marks ==
    /\ Folder \in Whole /\ Other \in Whole /\ Folder \in Data /\ Partial \in Data /\ Other \in Data
    /\ Folder # Partial /\ Folder # Other /\ Partial # Other /\ Partial \notin Whole
    /\ Whole \subseteq Data /\ \A c : Real(c) <=> c # Folder /\ c # Partial /\ c # Other
BY RemoteAssumption DEF Whole, Data, Real

\* What a job is, from the assumption on jobs.
LEMMA JobIs ==
    ASSUME job \in Jobs
    PROVE  /\ job.kind \in {"Copy", "Move", "Delete"}
           /\ \/ job.from = "local" /\ job.to = "remote" /\ ~ SameProvider
              \/ job.from = "remote" /\ job.to = "local" /\ ~ SameProvider
              \/ job.from = "remote" /\ job.to = "remote" /\ SameProvider
           /\ job.sdir \in Path /\ job.tdir \in Path /\ job.items \in Seq(Names)
           /\ IsTree(job.local) /\ IsTree(job.server)
           /\ TreeOK(job.local) /\ TreeOK(job.server)
           /\ \A i \in DOMAIN job.items :
                 Append(job.sdir, job.items[i]) \in Named /\ Append(job.tdir, job.items[i]) \in Named
<1>1. /\ job.kind \in {"Copy", "Move", "Delete"}
      /\ <<job.from, job.to>> \in {<<"local", "remote">>, <<"remote", "local">>, <<"remote", "remote">>}
      /\ job.sdir \in Path /\ job.tdir \in Path /\ job.items \in Seq(Names)
      /\ IsTree(job.local) /\ IsTree(job.server)
  BY JobsAssumption DEF Path
<1>2. \A p \in DOMAIN job.local : job.local[p] \in Whole
  <2>. TAKE p \in DOMAIN job.local
  <2>1. job.local[p] \in ContentsOf(job.local) /\ job.local[p] # Partial
    BY <1>1 DEF ContentsOf, IsTree
  <2>. QED  BY <2>1 DEF Whole, Data
<1>3. \A p \in DOMAIN job.server : job.server[p] \in Whole
  <2>. TAKE p \in DOMAIN job.server
  <2>1. job.server[p] \in ContentsOf(job.server) /\ job.server[p] # Partial
    BY <1>1 DEF ContentsOf, IsTree
  <2>. QED  BY <2>1 DEF Whole, Data
<1>4. TreeOK(job.local) /\ TreeOK(job.server)
  BY <1>1, <1>2, <1>3 DEF TreeOK, IsTree, Path
<1>5. \/ job.from = "local" /\ job.to = "remote" /\ ~ SameProvider
      \/ job.from = "remote" /\ job.to = "local" /\ ~ SameProvider
      \/ job.from = "remote" /\ job.to = "remote" /\ SameProvider
  BY <1>1 DEF SameProvider
<1>6. \A T, u : u \in Seq(T) => \A i \in DOMAIN u : u[i] \in T
  OBVIOUS
<1>7. \A i \in DOMAIN job.items : job.items[i] \in Names
  BY <1>1, <1>6
<1>8. \A i \in DOMAIN job.items :
         Append(job.sdir, job.items[i]) \in Named /\ Append(job.tdir, job.items[i]) \in Named
  BY <1>1, <1>7, ChildIs DEF Named, Path
<1>. QED  BY <1>1, <1>4, <1>5, <1>8

\* A task with one field replaced is a task.
LEMMA TaskWith ==
    ASSUME NEW t \in Tasks
    PROVE  /\ \A op \in TaskOps :
                /\ [t EXCEPT !.op = op] \in Tasks /\ [t EXCEPT !.op = op].op = op
                /\ [t EXCEPT !.op = op].from = t.from /\ [t EXCEPT !.op = op].to = t.to
                /\ [t EXCEPT !.op = op].exists = t.exists /\ [t EXCEPT !.op = op].stage = t.stage
                /\ [t EXCEPT !.op = op].then = t.then /\ [t EXCEPT !.op = op].dir = t.dir
           /\ \A to \in Named :
                /\ [t EXCEPT !.to = to] \in Tasks /\ [t EXCEPT !.to = to].op = t.op
                /\ [t EXCEPT !.to = to].from = t.from /\ [t EXCEPT !.to = to].to = to
                /\ [t EXCEPT !.to = to].exists = t.exists /\ [t EXCEPT !.to = to].stage = t.stage
                /\ [t EXCEPT !.to = to].then = t.then /\ [t EXCEPT !.to = to].dir = t.dir
           /\ \A c \in Whole :
                /\ [t EXCEPT !.stage = c] \in Tasks /\ [t EXCEPT !.stage = c].op = t.op
                /\ [t EXCEPT !.stage = c].from = t.from /\ [t EXCEPT !.stage = c].to = t.to
                /\ [t EXCEPT !.stage = c].exists = t.exists /\ [t EXCEPT !.stage = c].stage = c
                /\ [t EXCEPT !.stage = c].then = t.then /\ [t EXCEPT !.stage = c].dir = t.dir
           /\ \A b \in BOOLEAN :
                /\ [t EXCEPT !.exists = b] \in Tasks /\ [t EXCEPT !.exists = b].op = t.op
                /\ [t EXCEPT !.exists = b].from = t.from /\ [t EXCEPT !.exists = b].to = t.to
                /\ [t EXCEPT !.exists = b].exists = b /\ [t EXCEPT !.exists = b].stage = t.stage
                /\ [t EXCEPT !.exists = b].then = t.then /\ [t EXCEPT !.exists = b].dir = t.dir
<1>. USE DEF Tasks
<1>1. \A op \in TaskOps :
                /\ [t EXCEPT !.op = op] \in Tasks /\ [t EXCEPT !.op = op].op = op
                /\ [t EXCEPT !.op = op].from = t.from /\ [t EXCEPT !.op = op].to = t.to
                /\ [t EXCEPT !.op = op].exists = t.exists /\ [t EXCEPT !.op = op].stage = t.stage
                /\ [t EXCEPT !.op = op].then = t.then /\ [t EXCEPT !.op = op].dir = t.dir
  OBVIOUS
<1>2. \A to \in Named :
                /\ [t EXCEPT !.to = to] \in Tasks /\ [t EXCEPT !.to = to].op = t.op
                /\ [t EXCEPT !.to = to].from = t.from /\ [t EXCEPT !.to = to].to = to
                /\ [t EXCEPT !.to = to].exists = t.exists /\ [t EXCEPT !.to = to].stage = t.stage
                /\ [t EXCEPT !.to = to].then = t.then /\ [t EXCEPT !.to = to].dir = t.dir
  OBVIOUS
<1>3. \A c \in Whole :
                /\ [t EXCEPT !.stage = c] \in Tasks /\ [t EXCEPT !.stage = c].op = t.op
                /\ [t EXCEPT !.stage = c].from = t.from /\ [t EXCEPT !.stage = c].to = t.to
                /\ [t EXCEPT !.stage = c].exists = t.exists /\ [t EXCEPT !.stage = c].stage = c
                /\ [t EXCEPT !.stage = c].then = t.then /\ [t EXCEPT !.stage = c].dir = t.dir
  OBVIOUS
<1>4. \A b \in BOOLEAN :
                /\ [t EXCEPT !.exists = b] \in Tasks /\ [t EXCEPT !.exists = b].op = t.op
                /\ [t EXCEPT !.exists = b].from = t.from /\ [t EXCEPT !.exists = b].to = t.to
                /\ [t EXCEPT !.exists = b].exists = b /\ [t EXCEPT !.exists = b].stage = t.stage
                /\ [t EXCEPT !.exists = b].then = t.then /\ [t EXCEPT !.exists = b].dir = t.dir
  OBVIOUS
<1>. QED  BY <1>1, <1>2, <1>3, <1>4

\* The task that copies one thing.
LEMMA CopyNodeIs ==
    ASSUME NEW from \in Named, NEW to \in Named, NEW dir
    PROVE  /\ CopyNode(from, to, dir) \in GoodTasks
           /\ CopyNode(from, to, dir).op \in {"Copy", "Resolve"}
           /\ CopyNode(from, to, dir).then \in {"None", "Write"}
           /\ CopyNode(from, to, dir).from = from /\ CopyNode(from, to, dir).to = to
           /\ CopyNode(from, to, dir).stage = Folder
<1>0. PICK t : t = CopyNode(from, to, dir)
  OBVIOUS
<1>1. CASE dir
  <2>1. t = Task("Copy", from, to, TRUE)
    BY <1>0, <1>1 DEF CopyNode
  <2>2. /\ t \in Tasks /\ t.op = "Copy" /\ t.from = from /\ t.to = to /\ t.dir = TRUE
        /\ t.exists = FALSE /\ t.stage = Folder /\ t.then = "None"
    BY <2>1, Marks DEF Tasks, Task, TaskOps, CopyOps
  <2>3. Good(t)
    BY <2>2 DEF Good, Moves
  <2>. QED  BY <1>0, <2>2, <2>3 DEF GoodTasks
<1>2. CASE ~ dir
  <2>1. PICK u : u = Task("Resolve", from, to, FALSE)
    OBVIOUS
  <2>2. /\ u \in Tasks /\ u.op = "Resolve" /\ u.from = from /\ u.to = to /\ u.dir = FALSE
        /\ u.exists = FALSE /\ u.stage = Folder /\ u.then = "None"
    BY <2>1, Marks DEF Tasks, Task, TaskOps, CopyOps
  <2>3. t = [u EXCEPT !.then = "Write"]
    BY <1>0, <1>2, <2>1 DEF CopyNode, Resolve
  <2>4. /\ t \in Tasks /\ t.op = "Resolve" /\ t.from = from /\ t.to = to /\ t.dir = FALSE
        /\ t.exists = FALSE /\ t.stage = Folder /\ t.then = "Write"
    BY <2>2, <2>3 DEF Tasks
  <2>5. Good(t)
    BY <2>4 DEF Good, Moves
  <2>. QED  BY <1>0, <2>4, <2>5 DEF GoodTasks
<1>. QED  BY <1>1, <1>2

\* A sequence of two tasks in order.
LEMMA TwoTasks ==
    ASSUME NEW T, NEW x \in T, NEW y \in T, Follows(x, y)
    PROVE  <<x, y>> \in Seq(T) /\ Range(<<x, y>>) = {x, y} /\ Ordered(<<x, y>>)
<1>1. <<x, y>> \in Seq(T) /\ DOMAIN <<x, y>> = {1, 2} /\ <<x, y>>[1] = x /\ <<x, y>>[2] = y
  OBVIOUS
<1>2. PICK s : s = <<x, y>>
  OBVIOUS
<1>3. Ordered(s)
  <2>1. \A i, j \in {1, 2} : i < j => i = 1 /\ j = 2
    OBVIOUS
  <2>. QED  BY <1>1, <1>2, <2>1, Zenon DEF Ordered
<1>. QED  BY <1>1, <1>2, <1>3 DEF Range

\* A sequence of three tasks in order.
LEMMA ThreeTasks ==
    ASSUME NEW T, NEW x \in T, NEW y \in T, NEW z \in T, Follows(x, y), Follows(x, z), Follows(y, z)
    PROVE  <<x, y, z>> \in Seq(T) /\ Range(<<x, y, z>>) = {x, y, z} /\ Ordered(<<x, y, z>>)
<1>1. /\ <<x, y, z>> \in Seq(T) /\ DOMAIN <<x, y, z>> = {1, 2, 3}
      /\ <<x, y, z>>[1] = x /\ <<x, y, z>>[2] = y /\ <<x, y, z>>[3] = z
  OBVIOUS
<1>2. PICK s : s = <<x, y, z>>
  OBVIOUS
<1>3. Ordered(s)
  <2>1. \A i, j \in {1, 2, 3} : i < j => (i = 1 /\ j = 2) \/ (i = 1 /\ j = 3) \/ (i = 2 /\ j = 3)
    OBVIOUS
  <2>. QED  BY <1>1, <1>2, <2>1, Zenon DEF Ordered
<1>. QED  BY <1>1, <1>2, <1>3 DEF Range

-----------------------------------------------------------------------------
(* What each step makes of the tasks.                                         *)

\* The tasks left are `new` and those that came after the current one.
Went(new) == todo' \in Seq(GoodTasks) /\ Ordered(todo') /\ Range(todo') = new \cup Later

\* One task before one, or none.
LEMMA JoinTwo ==
    ASSUME NEW x, NEW y
    PROVE  <<x>> \o <<y>> = <<x, y>> /\ << >> \o <<y>> = <<y>>
<1>. DEFINE T == {x, y}
            a == <<x>>
            b == <<y>>
            c == <<x, y>>
<1>1. /\ a \in Seq(T) /\ Len(a) = 1 /\ a[1] = x
      /\ b \in Seq(T) /\ Len(b) = 1 /\ b[1] = y
      /\ c \in Seq(T) /\ Len(c) = 2 /\ c[1] = x /\ c[2] = y
  OBVIOUS
<1>2. << >> \o b = b
  BY <1>1, NoTask
<1>. HIDE DEF a, b, c
<1>3. /\ a \o b \in Seq(T) /\ Len(a \o b) = 2
      /\ (a \o b)[1] = x /\ (a \o b)[2] = y
  BY SMTT(60), <1>1, ConcatProperties
<1>4. a \o b = c
  <2>1. \A i \in 1..2 : (a \o b)[i] = c[i]
    BY <1>1, <1>3
  <2>. QED  BY <1>1, <1>3, <2>1, SeqEqual
<1>. QED  BY <1>2, <1>4 DEF a, b, c

\* The current task and those after it.
LEMMA NowIs ==
    ASSUME TaskInv, todo # << >>
    PROVE  /\ Now \in GoodTasks /\ Now \in Tasks /\ Good(Now) /\ Now \in Range(todo)
           /\ Tail(todo) \in Seq(GoodTasks) /\ Ordered(Tail(todo))
           /\ \A y \in Later : y \in GoodTasks /\ Follows(Now, y)
           /\ Range(todo) = {Now} \cup Later
<1>1. todo \in Seq(GoodTasks) /\ Ordered(todo)
  BY DEF TaskInv
<1>2. Head(todo) \in GoodTasks /\ Tail(todo) \in Seq(GoodTasks) /\ Range(todo) = {Head(todo)} \cup Later
  BY <1>1, HeadAndTail DEF Later
<1>3. Ordered(Tail(todo)) /\ \A y \in Later : Follows(Head(todo), y)
  BY <1>1, TailOrdered DEF Later
<1>4. \A T, s : s \in Seq(T) => \A i \in DOMAIN s : s[i] \in T
  OBVIOUS
<1>5. \A y \in Later : y \in GoodTasks
  BY <1>2, <1>4 DEF Later, Range
<1>6. Head(todo) \in Tasks /\ Good(Head(todo))
  BY <1>2 DEF GoodTasks
<1>. QED  BY <1>2, <1>3, <1>5, <1>6 DEF Now

\* Go puts new tasks in front: what is left are these and the later ones.
LEMMA GoIs ==
    ASSUME TaskInv, todo # << >>, NEW tasks \in Seq(GoodTasks), Ordered(tasks),
           \A x \in Range(tasks), y \in Later : Follows(x, y), todo' = tasks \o Tail(todo)
    PROVE  Went(Range(tasks))
<1>1. Tail(todo) \in Seq(GoodTasks) /\ Ordered(Tail(todo))
  BY NowIs
<1>2. tasks \o Tail(todo) \in Seq(GoodTasks) /\ Range(tasks \o Tail(todo)) = Range(tasks) \cup Later
  BY ZenonT(60), <1>1, JoinIs DEF Later
<1>3. Ordered(tasks \o Tail(todo))
  BY <1>1, JoinOrdered DEF Later
<1>. QED  BY <1>2, <1>3 DEF Went

\* Go with nothing to add.
LEMMA GoNone ==
    ASSUME TaskInv, todo # << >>, todo' = << >> \o Tail(todo)
    PROVE  Went({})
<1>1. /\ << >> \in Seq(GoodTasks) /\ Range(<< >>) = {} /\ Ordered(<< >>)
  BY NoTask
<1>2. Went(Range(<< >>))
  BY <1>1, GoIs
<1>. QED  BY <1>1, <1>2

\* Go with one task.
LEMMA GoOne ==
    ASSUME TaskInv, todo # << >>, NEW x \in GoodTasks, \A y \in Later : Follows(x, y),
           todo' = <<x>> \o Tail(todo)
    PROVE  Went({x})
<1>1. <<x>> \in Seq(GoodTasks) /\ Range(<<x>>) = {x} /\ Ordered(<<x>>)
  BY OneTask
<1>2. \A z \in Range(<<x>>), y \in Later : Follows(z, y)
  BY <1>1
<1>3. Went(Range(<<x>>))
  BY <1>1, <1>2, GoIs
<1>. QED  BY <1>1, <1>3

\* Go with two tasks.
LEMMA GoTwo ==
    ASSUME TaskInv, todo # << >>, NEW x \in GoodTasks, NEW z \in GoodTasks, Follows(x, z),
           \A y \in Later : Follows(x, y) /\ Follows(z, y), todo' = <<x, z>> \o Tail(todo)
    PROVE  Went({x, z})
<1>1. <<x, z>> \in Seq(GoodTasks) /\ Range(<<x, z>>) = {x, z} /\ Ordered(<<x, z>>)
  BY TwoTasks
<1>2. \A v \in Range(<<x, z>>), y \in Later : Follows(v, y)
  BY <1>1
<1>3. Went(Range(<<x, z>>))
  BY <1>1, <1>2, GoIs
<1>. QED  BY <1>1, <1>3

\* Go with three tasks.
LEMMA GoThree ==
    ASSUME TaskInv, todo # << >>, NEW x \in GoodTasks, NEW z \in GoodTasks, NEW w \in GoodTasks,
           Follows(x, z), Follows(x, w), Follows(z, w),
           \A y \in Later : Follows(x, y) /\ Follows(z, y) /\ Follows(w, y),
           todo' = <<x, z, w>> \o Tail(todo)
    PROVE  Went({x, z, w})
<1>1. <<x, z, w>> \in Seq(GoodTasks) /\ Range(<<x, z, w>>) = {x, z, w} /\ Ordered(<<x, z, w>>)
  BY ThreeTasks
<1>2. \A v \in Range(<<x, z, w>>), y \in Later : Follows(v, y)
  BY <1>1
<1>3. Went(Range(<<x, z, w>>))
  BY <1>1, <1>2, GoIs
<1>. QED  BY <1>1, <1>3

\* A call that was answered is the current task's.
LEMMA AnsweredIs ==
    ASSUME TaskInv, NEW op, Answered(op)
    PROVE  todo # << >> /\ Now.op = op /\ CallOK /\ call.step = "done"
BY DEF Answered, TaskInv, Idle

\* Attempt: the task is given up or tried again.
Again == [Now EXCEPT !.stage = Folder]
Recon == Task("Reconnect", Now.from, Now.to, FALSE)

\* A retry repeats the current task, after a reconnect if the connection was lost.
LEMMA AgainIs ==
    ASSUME TaskInv, todo # << >>, Now.op # "Reconnect"
    PROVE  /\ Again \in GoodTasks /\ Again.op = Now.op /\ Again.from = Now.from /\ Again.to = Now.to
           /\ Again.exists = Now.exists /\ Again.stage = Folder /\ Again.then = Now.then
           /\ \A y \in Later : Follows(Again, y)
           /\ Recon \in GoodTasks /\ Recon.op = "Reconnect"
           /\ \A y : Follows(Recon, y)
<1>1. /\ Now \in Tasks /\ Good(Now) /\ \A y \in Later : Follows(Now, y)
  BY NowIs
<1>2. PICK a : a = Again
  OBVIOUS
<1>3. /\ a \in Tasks /\ a.op = Now.op /\ a.from = Now.from /\ a.to = Now.to
      /\ a.exists = Now.exists /\ a.stage = Folder /\ a.then = Now.then
  BY <1>1, <1>2, TaskWith, Marks DEF Again
<1>4. Good(a)
  BY <1>1, <1>3 DEF Good, Moves, ItemOf
<1>5. \A y \in Later : Follows(a, y)
  BY <1>1, <1>3 DEF Follows, Moves, FarFrom
<1>6. PICK r : r = Recon
  OBVIOUS
<1>7. Now.from \in Named /\ Now.to \in Named
  BY <1>1 DEF Tasks
<1>8. r \in Tasks /\ r.op = "Reconnect" /\ r.then = "None"
  BY <1>6, <1>7, Marks DEF Recon, Tasks, Task, TaskOps
<1>9. Good(r) /\ \A y : Follows(r, y)
  BY <1>8 DEF Good, Moves, Follows, CopyOps, DeleteOps
<1>. QED  BY <1>2, <1>3, <1>4, <1>5, <1>6, <1>8, <1>9 DEF GoodTasks

\* A failure ends the operation, skips the task, or tries it again (Attempt).
LEMMA AttemptTasks ==
    ASSUME TaskInv, Attempt
    PROVE  todo' = << >> \/ (Went({}) /\ clean' = FALSE) \/ Went({Again}) \/ Went({Recon, Again})
<1>1. todo # << >> /\ Now.op # "Reconnect"
  BY DEF Attempt
<1>2. \/ Stop
      \/ Go(<< >>) /\ clean' = FALSE
      \/ Go((IF call.st = "ConnectionLost" THEN <<Recon>> ELSE << >>) \o <<Again>>)
  BY DEF Attempt, Again, Recon
<1>3. CASE Stop
  BY <1>3 DEF Stop
<1>4. CASE Go(<< >>) /\ clean' = FALSE
  BY <1>1, <1>4, GoNone DEF Go
<1>5. CASE Go((IF call.st = "ConnectionLost" THEN <<Recon>> ELSE << >>) \o <<Again>>)
  <2>1. <<Recon>> \o <<Again>> = <<Recon, Again>> /\ << >> \o <<Again>> = <<Again>>
    BY JoinTwo
  <2>2. todo' = <<Recon, Again>> \o Tail(todo) \/ todo' = <<Again>> \o Tail(todo)
    <3>1. CASE call.st = "ConnectionLost"
      BY <1>5, <2>1, <3>1 DEF Go
    <3>2. CASE call.st # "ConnectionLost"
      BY <1>5, <2>1, <3>2 DEF Go
    <3>. QED  BY <3>1, <3>2
  <2>3. CASE todo' = <<Again>> \o Tail(todo)
    BY <1>1, <2>3, AgainIs, GoOne
  <2>4. CASE todo' = <<Recon, Again>> \o Tail(todo)
    BY <1>1, <2>4, AgainIs, GoTwo
  <2>. QED  BY <2>2, <2>3, <2>4
<1>. QED  BY <1>2, <1>3, <1>4, <1>5

\* An item found is deleted, copied, looked for at the target, or copied and dropped.
ThisEnd(dir) == Task("End", Now.from, Now.to, dir)
ThisDelete(dir) == Task("Delete", Now.from, Now.to, dir)
ThisCopy(dir) == CopyNode(Now.from, Now.to, dir)
ThisDrop(dir) == Task("Drop", Now.from, Now.to, dir)

\* The end of an item comes after everything of the item and before the next one.
LEMMA EndIs ==
    ASSUME TaskInv, todo # << >>, NEW dir \in BOOLEAN
    PROVE  /\ ThisEnd(dir) \in GoodTasks /\ ThisEnd(dir).op = "End" /\ ThisEnd(dir).then = "None"
           /\ \A y : y.op = "Item" /\ ~ Moves(y) => Follows(ThisEnd(dir), y)
           /\ \A x : Follows(x, ThisEnd(dir)) <=> x.op \notin {"Item", "Look", "End"}
<1>1. Now.from \in Named /\ Now.to \in Named
  BY NowIs DEF Tasks
<1>2. PICK e : e = ThisEnd(dir)
  OBVIOUS
<1>3. e \in Tasks /\ e.op = "End" /\ e.then = "None"
  BY <1>1, <1>2, Marks DEF ThisEnd, Tasks, Task, TaskOps
<1>4. Good(e)
  BY <1>3 DEF Good, Moves
<1>5. \A y : y.op = "Item" /\ ~ Moves(y) => Follows(e, y)
  BY <1>3 DEF Follows, Moves, CopyOps, DeleteOps
<1>6. \A x : Follows(x, e) <=> x.op \notin {"Item", "Look", "End"}
  BY <1>3 DEF Follows, Moves, CopyOps, DeleteOps
<1>. QED  BY <1>2, <1>3, <1>4, <1>5, <1>6 DEF GoodTasks

\* After an item, or the look for its target, come only items.
LEMMA OnlyItemsLater ==
    ASSUME TaskInv, todo # << >>, Now.op \in {"Item", "Look"}
    PROVE  \A y \in Later : y.op = "Item" /\ ~ Moves(y) /\ y \in GoodTasks
<1>1. \A y \in Later : y \in GoodTasks /\ Follows(Now, y)
  BY NowIs
<1>. QED  BY <1>1 DEF Follows, GoodTasks, Good, Moves

\* What is to be done about an item that was found.
LEMMA ItemFoundTasks ==
    ASSUME TaskInv, ItemFound
    PROVE  \E dir \in BOOLEAN :
              /\ dir = call.found[Now.from]
              /\ \/ job.kind = "Delete" /\ Went({ThisDelete(dir), ThisEnd(dir)})
                 \/ job.kind = "Copy" /\ Went({ThisCopy(dir), ThisEnd(dir)})
                 \/ job.kind = "Move" /\ SameProvider /\ Went({})
                 \/ job.kind = "Move" /\ SameProvider /\ ~ IsPrefix(Now.from, Now.to)
                       /\ Went({Task("Look", Now.from, Now.to, dir)})
                 \/ job.kind = "Move" /\ ~ SameProvider
                       /\ Went({ThisCopy(dir), ThisDrop(dir), ThisEnd(dir)})
<1>1. todo # << >> /\ Now.op = "Item" /\ CallOK /\ call.step = "done" /\ call.st = "Ok"
  BY AnsweredIs DEF ItemFound, AnsweredOk
<1>2. Now \in Tasks /\ Good(Now)
  BY <1>1, NowIs
<1>3. CallOf(Now) = NewCall("Stat", Now.from, Now.to, Folder)
  BY <1>1, Zenon DEF CallOf
<1>4. call.op = "Stat" /\ call.path = Now.from
  BY <1>1, <1>3 DEF CallOK, NewCall
<1>5. PICK dir \in BOOLEAN : dir = call.found[Now.from]
  BY <1>1, <1>4 DEF CallOK, FoundOK
<1>6. /\ Now.from \in Named /\ Now.to \in Named /\ ItemOf(Now)
  BY <1>1, <1>2 DEF Tasks, Good
<1>7. \A y \in Later : y.op = "Item" /\ ~ Moves(y)
  BY <1>1, OnlyItemsLater
<1>8. /\ ThisEnd(dir) \in GoodTasks
      /\ \A y \in Later : Follows(ThisEnd(dir), y)
      /\ \A x : Follows(x, ThisEnd(dir)) <=> x.op \notin {"Item", "Look", "End"}
  BY <1>1, <1>7, EndIs
<1>9. PICK c : c = ThisCopy(dir)
  OBVIOUS
<1>10. /\ c \in GoodTasks /\ c.op \in {"Copy", "Resolve"} /\ c.then # "Rename"
  <2>1. c = CopyNode(Now.from, Now.to, dir)
    BY <1>9 DEF ThisCopy
  <2>. QED  BY <1>6, <2>1, CopyNodeIs
<1>11. \A y \in Later : Follows(c, y)
  BY <1>7, <1>10 DEF Follows, Moves, CopyOps, DeleteOps
<1>12. \/ job.kind = "Delete" /\ Go(<<ThisDelete(dir)>> \o <<ThisEnd(dir)>>)
       \/ job.kind = "Copy" /\ Go(<<ThisCopy(dir)>> \o <<ThisEnd(dir)>>)
       \/ job.kind = "Move" /\ SameProvider /\ Go(<< >>)
       \/ job.kind = "Move" /\ SameProvider /\ ~ IsPrefix(Now.from, Now.to)
              /\ Go(<<Task("Look", Now.from, Now.to, dir)>>)
       \/ job.kind = "Move" /\ ~ SameProvider /\ Go(<<ThisCopy(dir), ThisDrop(dir), ThisEnd(dir)>>)
  BY <1>5 DEF ItemFound, ThisDelete, ThisEnd, ThisCopy, ThisDrop, CopyThenDrop
<1>13. CASE job.kind = "Delete" /\ Go(<<ThisDelete(dir)>> \o <<ThisEnd(dir)>>)
  <2>1. PICK x : x = ThisDelete(dir)
    OBVIOUS
  <2>2. x \in Tasks /\ x.op = "Delete" /\ x.then = "None"
    BY <1>6, <2>1, Marks DEF ThisDelete, Tasks, Task, TaskOps, DeleteOps
  <2>3. x \in GoodTasks /\ \A y \in Later : Follows(x, y)
    BY <1>7, <2>2 DEF GoodTasks, Good, Follows, Moves, CopyOps, DeleteOps
  <2>4. Follows(x, ThisEnd(dir))
    BY <1>8, <2>2
  <2>5. todo' = <<x, ThisEnd(dir)>> \o Tail(todo)
    <3>1. <<x>> \o <<ThisEnd(dir)>> = <<x, ThisEnd(dir)>>
      BY JoinTwo
    <3>. QED  BY <1>13, <2>1, <3>1 DEF Go
  <2>6. Went({x, ThisEnd(dir)})
    BY <1>1, <1>8, <2>3, <2>4, <2>5, GoTwo
  <2>. QED  BY <1>5, <1>13, <2>1, <2>6
<1>14. CASE job.kind = "Copy" /\ Go(<<ThisCopy(dir)>> \o <<ThisEnd(dir)>>)
  <2>1. Follows(c, ThisEnd(dir))
    BY <1>8, <1>10
  <2>2. todo' = <<c, ThisEnd(dir)>> \o Tail(todo)
    <3>1. <<c>> \o <<ThisEnd(dir)>> = <<c, ThisEnd(dir)>>
      BY JoinTwo
    <3>. QED  BY <1>9, <1>14, <3>1 DEF Go
  <2>3. Went({c, ThisEnd(dir)})
    BY <1>1, <1>8, <1>10, <1>11, <2>1, <2>2, GoTwo
  <2>. QED  BY <1>5, <1>9, <1>14, <2>3
<1>15. CASE job.kind = "Move" /\ SameProvider /\ Go(<< >>)
  BY <1>1, <1>5, <1>15, GoNone DEF Go
<1>16. CASE job.kind = "Move" /\ SameProvider /\ ~ IsPrefix(Now.from, Now.to)
              /\ Go(<<Task("Look", Now.from, Now.to, dir)>>)
  <2>1. PICK x : x = Task("Look", Now.from, Now.to, dir)
    OBVIOUS
  <2>2. x \in Tasks /\ x.op = "Look" /\ x.then = "None" /\ x.from = Now.from /\ x.to = Now.to
    BY <1>6, <2>1, Marks DEF Tasks, Task, TaskOps
  <2>3. x \in GoodTasks /\ \A y \in Later : Follows(x, y)
    BY <1>6, <1>7, <1>16, <2>2 DEF GoodTasks, Good, ItemOf, Follows, Moves, CopyOps, DeleteOps
  <2>4. Went({x})
    BY <1>1, <1>16, <2>1, <2>3, GoOne DEF Go
  <2>. QED  BY <1>5, <1>16, <2>1, <2>4
<1>17. CASE job.kind = "Move" /\ ~ SameProvider /\ Go(<<ThisCopy(dir), ThisDrop(dir), ThisEnd(dir)>>)
  <2>1. PICK x : x = ThisDrop(dir)
    OBVIOUS
  <2>2. x \in Tasks /\ x.op = "Drop" /\ x.then = "None" /\ x.from = Now.from /\ x.to = Now.to
    BY <1>6, <2>1, Marks DEF ThisDrop, Tasks, Task, TaskOps
  <2>3. x \in GoodTasks /\ \A y \in Later : Follows(x, y)
    BY <1>6, <1>7, <1>17, <2>2 DEF GoodTasks, Good, ItemOf, Follows, Moves, CopyOps, DeleteOps
  <2>4. Follows(c, x)
    BY <1>10, <1>17, <2>2 DEF Follows, Moves, CopyOps, DeleteOps
  <2>5. Follows(c, ThisEnd(dir)) /\ Follows(x, ThisEnd(dir))
    BY <1>8, <1>10, <2>2
  <2>6. Went({c, x, ThisEnd(dir)})
    BY <1>1, <1>8, <1>9, <1>10, <1>11, <1>17, <2>1, <2>3, <2>4, <2>5, GoThree DEF Go
  <2>. QED  BY <1>5, <1>9, <1>17, <2>1, <2>6
<1>. QED  BY <1>12, <1>13, <1>14, <1>15, <1>16, <1>17

\* What a look for the target leads to.
ThisRename == Task("Rename", Now.from, Now.to, Now.dir)
ThisResolve == Resolve(Now.from, Now.to, "Rename")

\* The copy of an item moved inside a provider stays out of the item.
LEMMA CopyIsFar ==
    ASSUME TaskInv, todo # << >>, Now.op = "Look", NothingOntoItsAncestor,
           NEW c, c.to = Now.to, c.op \in {"Copy", "Resolve"}
    PROVE  FarFrom(c, Now.from)
<1>1. /\ Now.from \in Named /\ Now.to \in Named /\ ItemOf(Now) /\ job.kind = "Move" /\ SameProvider
      /\ ~ IsPrefix(Now.from, Now.to)
  BY NowIs DEF Tasks, Good
<1>2. job \in Jobs
  BY DEF TaskInv
<1>3. PICK i \in DOMAIN job.items : /\ Now.from = Append(job.sdir, job.items[i])
                                    /\ Now.to = Append(job.tdir, job.items[i])
  BY <1>1 DEF ItemOf
<1>4. ~ IsPrefix(Now.to, Now.from)
  <2>1. IsPrefix(Append(job.tdir, job.items[i]), Append(job.sdir, job.items[i]))
           => IsPrefix(Append(job.sdir, job.items[i]), Append(job.tdir, job.items[i]))
    BY <1>1, <1>2 DEF NothingOntoItsAncestor, SameProvider
  <2>. QED  BY <1>1, <1>3, <2>1
<1>5. job.sdir \in Path /\ job.tdir \in Path /\ job.items[i] \in Names
  <2>1. job.items \in Seq(Names)
    BY <1>2, JobIs
  <2>2. \A T, u : u \in Seq(T) => \A k \in DOMAIN u : u[k] \in T
    OBVIOUS
  <2>. QED  BY <1>2, <2>1, <2>2, JobIs
<1>6. Parent(Now.to) = job.tdir /\ Parent(Now.from) = job.sdir /\ IsPrefix(job.tdir, Now.to)
  BY <1>3, <1>5, ChildIs DEF Path
<1>7. ASSUME NEW n \in Names PROVE ~ IsPrefix(Now.from, Append(job.tdir, n))
  <2>. SUFFICES ASSUME IsPrefix(Now.from, Append(job.tdir, n)) PROVE FALSE
    OBVIOUS
  <2>1. Now.from \in Path /\ Now.to \in Path
    BY <1>1 DEF Named
  <2>2. IsPrefix(Now.from, job.tdir) \/ Now.from = Append(job.tdir, n)
    BY <1>5, <2>1, PrefixOfChild DEF Path
  <2>3. CASE IsPrefix(Now.from, job.tdir)
    BY <1>1, <1>5, <1>6, <2>1, <2>3, PrefixTrans DEF Path
  <2>4. CASE Now.from = Append(job.tdir, n)
    <3>1. job.sdir = job.tdir
      <4>1. Parent(Append(job.tdir, n)) = job.tdir
        BY <1>5, ChildIs DEF Path
      <4>. QED  BY <1>6, <2>4, <4>1
    <3>2. Now.from = Now.to
      BY <1>3, <3>1
    <3>. QED  BY <1>1, <2>1, <3>2, PrefixRefl DEF Path
  <2>. QED  BY <2>2, <2>3, <2>4
<1>. QED  BY <1>1, <1>4, <1>6, <1>7 DEF FarFrom

\* What a move inside a provider becomes once the target was looked at.
LEMMA LookedTasks ==
    ASSUME TaskInv, Looked
    PROVE  \/ todo' = << >>
           \/ /\ call.st \notin {"Ok", "Cancelled"}
              /\ Went({ThisRename, ThisEnd(Now.dir)})
           \/ Went({ThisResolve, ThisEnd(Now.dir)})
           \/ Went({ThisCopy(Now.dir), ThisDrop(Now.dir), ThisEnd(Now.dir)})
<1>1. todo # << >> /\ Now.op = "Look" /\ CallOK /\ call.step = "done"
  BY AnsweredIs DEF Looked
<1>2. /\ Now \in Tasks /\ Good(Now) /\ Now.from \in Named /\ Now.to \in Named /\ Now.dir \in BOOLEAN
      /\ ItemOf(Now) /\ job.kind = "Move" /\ SameProvider /\ ~ IsPrefix(Now.from, Now.to)
  BY <1>1, NowIs DEF Tasks, Good
<1>3. \A y \in Later : y.op = "Item" /\ ~ Moves(y)
  BY <1>1, OnlyItemsLater
<1>4. /\ ThisEnd(Now.dir) \in GoodTasks
      /\ \A y \in Later : Follows(ThisEnd(Now.dir), y)
      /\ \A x : Follows(x, ThisEnd(Now.dir)) <=> x.op \notin {"Item", "Look", "End"}
  BY <1>1, <1>2, <1>3, EndIs
<1>5. PICK c : c = ThisCopy(Now.dir)
  OBVIOUS
<1>6. /\ c \in GoodTasks /\ c.op \in {"Copy", "Resolve"} /\ c.then # "Rename" /\ c.to = Now.to
  <2>0. PICK dir : dir = Now.dir
    OBVIOUS
  <2>1. c = CopyNode(Now.from, Now.to, dir)
    BY <1>5, <2>0 DEF ThisCopy
  <2>2. /\ CopyNode(Now.from, Now.to, dir) \in GoodTasks
        /\ CopyNode(Now.from, Now.to, dir).op \in {"Copy", "Resolve"}
        /\ CopyNode(Now.from, Now.to, dir).then \in {"None", "Write"}
        /\ CopyNode(Now.from, Now.to, dir).from = Now.from /\ CopyNode(Now.from, Now.to, dir).to = Now.to
        /\ CopyNode(Now.from, Now.to, dir).stage = Folder
    BY <1>2, CopyNodeIs
  <2>. QED  BY <2>1, <2>2
<1>7. \A y \in Later : Follows(c, y)
  BY <1>3, <1>6 DEF Follows, Moves, CopyOps, DeleteOps
<1>8. ~ IsPrefix(Now.from, Parent(Now.to))
  <2>1. Now.to \in Path /\ Now.to # << >> /\ Now.from \in Path
    BY <1>2 DEF Named
  <2>2. Parent(Now.to) \in Path /\ IsPrefix(Parent(Now.to), Now.to)
    BY <2>1, ParentIs DEF Path
  <2>. QED  BY <1>2, <2>1, <2>2, PrefixTrans DEF Path
<1>9. \/ Stop
      \/ call.st \notin {"Ok", "Cancelled"} /\ Go(<<ThisRename>> \o <<ThisEnd(Now.dir)>>)
      \/ Go(<<ThisResolve>> \o <<ThisEnd(Now.dir)>>)
      \/ Go(<<ThisCopy(Now.dir), ThisDrop(Now.dir), ThisEnd(Now.dir)>>)
  BY DEF Looked, ThisRename, ThisResolve, ThisEnd, ThisCopy, ThisDrop, CopyThenDrop
<1>10. CASE Stop
  BY <1>10 DEF Stop
<1>11. CASE call.st \notin {"Ok", "Cancelled"} /\ Go(<<ThisRename>> \o <<ThisEnd(Now.dir)>>)
  <2>1. PICK x : x = ThisRename
    OBVIOUS
  <2>2. x \in Tasks /\ x.op = "Rename" /\ x.then = "None" /\ x.from = Now.from /\ x.to = Now.to
    BY <1>2, <2>1, Marks DEF ThisRename, Tasks, Task, TaskOps
  <2>3. x \in GoodTasks /\ \A y \in Later : Follows(x, y)
    BY <1>2, <1>3, <1>8, <2>2 DEF GoodTasks, Good, Follows, Moves, CopyOps, DeleteOps
  <2>4. Follows(x, ThisEnd(Now.dir))
    BY <1>4, <2>2
  <2>5. todo' = <<x, ThisEnd(Now.dir)>> \o Tail(todo)
    <3>1. <<x>> \o <<ThisEnd(Now.dir)>> = <<x, ThisEnd(Now.dir)>>
      BY JoinTwo
    <3>. QED  BY <1>11, <2>1, <3>1 DEF Go
  <2>6. Went({x, ThisEnd(Now.dir)})
    BY <1>1, <1>4, <2>3, <2>4, <2>5, GoTwo
  <2>. QED  BY <1>11, <2>1, <2>6
<1>12. CASE Go(<<ThisResolve>> \o <<ThisEnd(Now.dir)>>)
  <2>1. PICK x : x = ThisResolve
    OBVIOUS
  <2>2. x \in Tasks /\ x.op = "Resolve" /\ x.then = "Rename" /\ x.from = Now.from /\ x.to = Now.to /\ x.stage = Folder
    BY <1>2, <2>1, Marks DEF ThisResolve, Resolve, Tasks, Task, TaskOps, CopyOps
  <2>3. x \in GoodTasks /\ \A y \in Later : Follows(x, y)
    BY <1>2, <1>3, <1>8, <2>2 DEF GoodTasks, Good, Follows, Moves, CopyOps, DeleteOps
  <2>4. Follows(x, ThisEnd(Now.dir))
    BY <1>4, <2>2
  <2>5. todo' = <<x, ThisEnd(Now.dir)>> \o Tail(todo)
    <3>1. <<x>> \o <<ThisEnd(Now.dir)>> = <<x, ThisEnd(Now.dir)>>
      BY JoinTwo
    <3>. QED  BY <1>12, <2>1, <3>1 DEF Go
  <2>6. Went({x, ThisEnd(Now.dir)})
    BY <1>1, <1>4, <2>3, <2>4, <2>5, GoTwo
  <2>. QED  BY <2>1, <2>6
<1>13. CASE Go(<<ThisCopy(Now.dir), ThisDrop(Now.dir), ThisEnd(Now.dir)>>)
  <2>1. PICK x : x = ThisDrop(Now.dir)
    OBVIOUS
  <2>2. x \in Tasks /\ x.op = "Drop" /\ x.then = "None" /\ x.from = Now.from /\ x.to = Now.to
    BY <1>2, <2>1, Marks DEF ThisDrop, Tasks, Task, TaskOps
  <2>3. x \in GoodTasks /\ \A y \in Later : Follows(x, y)
    BY <1>2, <1>3, <2>2 DEF GoodTasks, Good, ItemOf, Follows, Moves, CopyOps, DeleteOps
  <2>4. NothingOntoItsAncestor => FarFrom(c, x.from)
    BY <1>1, <1>6, <2>2, CopyIsFar
  <2>5. Follows(c, x)
    BY <1>6, <2>2, <2>4 DEF Follows, Moves, CopyOps, DeleteOps
  <2>6. Follows(c, ThisEnd(Now.dir)) /\ Follows(x, ThisEnd(Now.dir))
    BY <1>4, <1>6, <2>2
  <2>7. Went({c, x, ThisEnd(Now.dir)})
    BY <1>1, <1>4, <1>5, <1>6, <1>7, <1>13, <2>1, <2>3, <2>5, <2>6, GoThree DEF Go
  <2>. QED  BY <1>5, <2>1, <2>7
<1>. QED  BY <1>9, <1>10, <1>11, <1>12, <1>13

\* The current task with another op, and what else changes in it.
LEMMA SameTask ==
    ASSUME TaskInv, todo # << >>, NEW x \in Tasks, x.from = Now.from, x.then = Now.then,
           \/ /\ x.op = Now.op /\ x.to = Now.to
              /\ x.stage = Now.stage \/ x.stage = Folder
                    \/ (Now.op = "Write" /\ job.from = "remote" /\ job.to = "remote")
           \/ /\ Now.op = "Copy" /\ x.op \in {"Mkdir", "Kids"} /\ x.to = Now.to
           \/ /\ Now.op = "Mkdir" /\ x.op = "Kids" /\ x.to = Now.to
           \/ /\ Now.op = "Resolve" /\ x.op = Now.then /\ x.to = Now.to
              /\ x.stage = Now.stage
           \/ /\ Now.op = "Resolve" /\ x.stage = Now.stage /\ x.op = Now.op /\ Parent(x.to) = Parent(Now.to)
              /\ \E n \in Names : x.to = Append(Parent(x.to), n)
           \/ Now.op = "Delete" /\ x.op = "Remove"
    PROVE  x \in GoodTasks /\ \A y \in Later : Follows(x, y)
<1>1. Good(Now) /\ Now \in Tasks /\ \A y \in Later : Follows(Now, y)
  BY NowIs
<1>2. CASE x.op = Now.op /\ x.to = Now.to
           /\ (x.stage = Now.stage \/ x.stage = Folder
                 \/ (Now.op = "Write" /\ job.from = "remote" /\ job.to = "remote"))
  BY <1>1, <1>2 DEF GoodTasks, Good, ItemOf, Moves, Follows, FarFrom
<1>3. CASE Now.op \in {"Copy", "Mkdir"} /\ x.op \in {"Mkdir", "Kids"} /\ x.to = Now.to
  <2>1. x \in GoodTasks
    BY <1>1, <1>3 DEF GoodTasks, Good, Moves
  <2>2. \A y \in Later : Follows(x, y)
    BY <1>1, <1>3 DEF Follows, Moves, FarFrom, CopyOps, DeleteOps
  <2>. QED  BY <2>1, <2>2
<1>4. CASE Now.op = "Resolve" /\ x.op = Now.then /\ x.to = Now.to /\ x.stage = Now.stage
  <2>1. Now.then \in {"Write", "Rename"}
    BY <1>1, <1>4 DEF Good
  <2>2. x \in GoodTasks
    BY <1>1, <1>4, <2>1 DEF GoodTasks, Good, Moves
  <2>3. \A y \in Later : Follows(x, y)
    BY <1>1, <1>4, <2>1 DEF Follows, Moves, FarFrom, CopyOps, DeleteOps
  <2>. QED  BY <2>2, <2>3
<1>5. CASE Now.op = "Resolve" /\ x.stage = Now.stage /\ x.op = Now.op /\ Parent(x.to) = Parent(Now.to)
           /\ \E n \in Names : x.to = Append(Parent(x.to), n)
  <2>1. x \in GoodTasks
    BY <1>1, <1>5 DEF GoodTasks, Good, Moves
  <2>2. ASSUME NEW y \in Later PROVE Follows(x, y)
    <3>1. Follows(Now, y)
      BY <1>1
    <3>2. FarFrom(Now, y.from) => FarFrom(x, y.from)
      BY <1>5 DEF FarFrom
    <3>. QED  BY <1>5, <3>1, <3>2 DEF Follows, Moves, CopyOps, DeleteOps
  <2>. QED  BY <2>1, <2>2
<1>6. CASE Now.op = "Delete" /\ x.op = "Remove"
  <2>1. x \in GoodTasks
    BY <1>1, <1>6 DEF GoodTasks, Good, Moves
  <2>2. \A y \in Later : Follows(x, y)
    BY <1>1, <1>6 DEF Follows, Moves, FarFrom, CopyOps, DeleteOps
  <2>. QED  BY <2>1, <2>2
<1>. QED  BY <1>2, <1>3, <1>4, <1>5, <1>6

\* A rename deletes the target first, then renames.
LEMMA RenameDoneTasks ==
    ASSUME TaskInv, RenameDone
    PROVE  Went({}) \/ Went({[Now EXCEPT !.exists = FALSE]})
<1>1. todo # << >> /\ Now.op = "Rename"
  BY DEF RenameDone, Answered
<1>2. Now \in Tasks
  BY <1>1, NowIs
<1>3. PICK x : x = [Now EXCEPT !.exists = FALSE]
  OBVIOUS
<1>4. x \in Tasks /\ x.op = Now.op /\ x.from = Now.from /\ x.to = Now.to /\ x.stage = Now.stage /\ x.then = Now.then
  BY <1>2, <1>3, TaskWith
<1>5. x \in GoodTasks /\ \A y \in Later : Follows(x, y)
  BY <1>1, <1>4, SameTask
<1>6. Go(<<x>>) \/ Go(<< >>)
  BY <1>3 DEF RenameDone
<1>. QED  BY <1>1, <1>3, <1>5, <1>6, GoOne, GoNone DEF Go

\* Only a clean item's source is deleted.
LEMMA DecideTasks ==
    ASSUME TaskInv, Decide
    PROVE  \/ Went({}) /\ ~ (Now.op = "Drop" /\ clean)
           \/ /\ Now.op = "Drop" /\ clean
              /\ Went({Task("Delete", Now.from, Now.to, Now.dir)})
<1>1. todo # << >>
  BY DEF Decide
<1>2. Now \in Tasks /\ \A y \in Later : Follows(Now, y) /\ y \in GoodTasks
  BY <1>1, NowIs
<1>3. CASE ~ (Now.op = "Drop" /\ clean)
  BY <1>1, <1>3, GoNone DEF Decide, DropAllowed
<1>4. CASE Now.op = "Drop" /\ clean
  <2>1. PICK x : x = Task("Delete", Now.from, Now.to, Now.dir)
    OBVIOUS
  <2>2. x \in Tasks /\ x.op = "Delete" /\ x.then = "None"
    BY <1>2, <2>1, Marks DEF Tasks, Task, TaskOps, DeleteOps
  <2>3. x \in GoodTasks
    BY <2>2 DEF GoodTasks, Good, Moves
  <2>4. \A y \in Later : Follows(x, y)
    BY <1>2, <1>4, <2>2 DEF Follows, GoodTasks, Good, Moves, CopyOps, DeleteOps
  <2>5. todo' = <<x>> \o Tail(todo)
    BY <1>4, <2>1 DEF Decide, DropAllowed
  <2>. QED  BY <1>1, <1>4, <2>1, <2>3, <2>4, <2>5, GoOne
<1>. QED  BY <1>3, <1>4

\* A folder is made unless it is there, then listed; a file in its place is a failure.
LEMMA FolderTasks ==
    ASSUME TaskInv, FolderSeen \/ FolderMade
    PROVE  \/ todo' = << >>
           \/ FolderSeen /\ Went({}) /\ clean' = FALSE
           \/ \E op \in {"Mkdir", "Kids"} : Went({[Now EXCEPT !.op = op]})
<1>1. todo # << >> /\ Now.op \in {"Copy", "Mkdir"} /\ (FolderMade => Now.op = "Mkdir") /\ (FolderSeen => Now.op = "Copy")
  BY DEF FolderSeen, FolderMade, AnsweredOk, Answered
<1>2. Now \in Tasks
  BY <1>1, NowIs
<1>3. ASSUME NEW op \in {"Mkdir", "Kids"}, Now.op = "Mkdir" => op = "Kids", Go(<<[Now EXCEPT !.op = op]>>)
      PROVE  Went({[Now EXCEPT !.op = op]})
  <2>1. PICK x : x = [Now EXCEPT !.op = op]
    OBVIOUS
  <2>2. op \in TaskOps
    BY DEF TaskOps, CopyOps
  <2>3. x \in Tasks /\ x.op = op /\ x.from = Now.from /\ x.to = Now.to /\ x.stage = Now.stage /\ x.then = Now.then
    BY <1>2, <2>1, <2>2, TaskWith
  <2>4. x \in GoodTasks /\ \A y \in Later : Follows(x, y)
    BY <1>1, <1>3, <2>3, SameTask
  <2>. QED  BY <1>1, <1>3, <2>1, <2>4, GoOne DEF Go
<1>4. \/ Stop
      \/ FolderSeen /\ Go(<< >>) /\ clean' = FALSE
      \/ Go(<<[Now EXCEPT !.op = "Kids"]>>)
      \/ Now.op = "Copy" /\ Go(<<[Now EXCEPT !.op = "Mkdir"]>>)
  <2>1. CASE FolderSeen
    BY <1>1, <2>1 DEF FolderSeen
  <2>2. CASE FolderMade
    BY <2>2 DEF FolderMade
  <2>. QED  BY <2>1, <2>2
<1>5. CASE Stop
  BY <1>5 DEF Stop
<1>6. CASE FolderSeen /\ Go(<< >>) /\ clean' = FALSE
  BY <1>1, <1>6, GoNone DEF Go
<1>7. CASE Go(<<[Now EXCEPT !.op = "Kids"]>>)
  BY <1>3, <1>7
<1>8. CASE Now.op = "Copy" /\ Go(<<[Now EXCEPT !.op = "Mkdir"]>>)
  BY <1>3, <1>8
<1>. QED  BY <1>4, <1>5, <1>6, <1>7, <1>8

\* What was found in a folder, in some order.
LEMMA FoundIs ==
    ASSUME IsFiniteSet(DOMAIN call.found)
    PROVE  /\ DOMAIN Found = 1..Len(Found) /\ Len(Found) \in Nat
           /\ \A i \in DOMAIN Found : Found[i] \in DOMAIN call.found
           /\ \A p \in DOMAIN call.found : \E i \in DOMAIN Found : Found[i] = p
<1>1. Found \in Seq(DOMAIN call.found) /\ Range(Found) = DOMAIN call.found
  BY SetToSeqIs DEF Found
<1>2. \A T, u : u \in Seq(T) => DOMAIN u = 1..Len(u) /\ Len(u) \in Nat /\ \A i \in DOMAIN u : u[i] \in T
  OBVIOUS
<1>. QED  BY <1>1, <1>2 DEF Range

\* The tasks of the children, in the order of the listing.
LEMMA TasksOfFound ==
    ASSUME NEW T, IsFiniteSet(DOMAIN call.found), NEW f, DOMAIN f = DOMAIN Found, f = [i \in DOMAIN Found |-> f[i]],
           \A i \in DOMAIN Found : f[i] \in T,
           \A i, j \in DOMAIN Found : Follows(f[i], f[j])
    PROVE  f \in Seq(T) /\ Ordered(f) /\ Range(f) = {f[i] : i \in DOMAIN Found}
<1>1. f \in [1..Len(Found) -> T] /\ Len(Found) \in Nat
  BY FoundIs
<1>2. \A n, g : n \in Nat /\ g \in [1..n -> T] => g \in Seq(T)
  OBVIOUS
<1>3. f \in Seq(T)
  BY <1>1, <1>2
<1>4. Ordered(f)
  BY DEF Ordered
<1>. QED  BY <1>3, <1>4 DEF Range

ThisKid(p) == CopyNode(p, Append(Now.to, Last(p)), call.found[p])

\* The task that copies one thing in a listed folder.
LEMMA KidIs ==
    ASSUME TaskInv, todo # << >>, Now.op = "Kids", CallOK, NEW p \in DOMAIN call.found
    PROVE  /\ p \in Named /\ Parent(p) = Now.from /\ Last(p) \in Names /\ Append(Now.to, Last(p)) \in Named
           /\ ThisKid(p) \in GoodTasks /\ ThisKid(p).op \in {"Copy", "Resolve"}
           /\ ThisKid(p).then \in {"None", "Write"} /\ ThisKid(p).from = p
           /\ ThisKid(p).to = Append(Now.to, Last(p))
           /\ ThisKid(p).stage = Folder
           /\ \A y \in Later : Follows(ThisKid(p), y)
<1>1. /\ Now \in Tasks /\ Now.from \in Named /\ Now.to \in Named /\ Now.to \in Path
      /\ \A y \in Later : Follows(Now, y) /\ y \in GoodTasks
  BY NowIs DEF Tasks, Named
<1>2. CallOf(Now) = NewCall("List", Now.from, Now.to, Folder)
  BY Zenon DEF CallOf
<1>3. call.op = "List" /\ call.path = Now.from
  BY <1>2 DEF CallOK, NewCall
<1>4. p \in Named /\ p \in Path /\ p # << >> /\ Parent(p) = Now.from /\ call.found[p] \in BOOLEAN
  BY <1>3 DEF CallOK, FoundOK, Named
<1>5. Last(p) \in Names
  BY <1>4, ParentIs DEF Path
<1>6. PICK q : q = Append(Now.to, Last(p))
  OBVIOUS
<1>7. q \in Named /\ q \in Path /\ Parent(q) = Now.to /\ IsPrefix(Now.to, q)
  BY <1>1, <1>5, <1>6, ChildIs DEF Named, Path
<1>8. PICK dir : dir = call.found[p]
  OBVIOUS
<1>9. PICK x : x = CopyNode(p, q, dir)
  OBVIOUS
<1>10. x = ThisKid(p)
  BY <1>6, <1>8, <1>9 DEF ThisKid
<1>11. /\ x \in GoodTasks /\ x.op \in {"Copy", "Resolve"} /\ x.then \in {"None", "Write"} /\ x.from = p
       /\ x.to = q /\ x.stage = Folder
  <2>1. /\ CopyNode(p, q, dir) \in GoodTasks
        /\ CopyNode(p, q, dir).op \in {"Copy", "Resolve"}
        /\ CopyNode(p, q, dir).then \in {"None", "Write"}
        /\ CopyNode(p, q, dir).from = p /\ CopyNode(p, q, dir).to = q
        /\ CopyNode(p, q, dir).stage = Folder
    BY <1>4, <1>7, CopyNodeIs
  <2>. QED  BY <1>9, <2>1
<1>12. ASSUME NEW y \in Later PROVE Follows(x, y)
  <2>1. Follows(Now, y) /\ y \in Tasks
    BY <1>1 DEF GoodTasks
  <2>2. ASSUME FarFrom(Now, y.from) PROVE FarFrom(x, y.from)
    <3>1. y.from \in Path
      BY <2>1 DEF Tasks, Named
    <3>2. ~ IsPrefix(y.from, Now.to) /\ ~ IsPrefix(Now.to, y.from)
      BY <2>2 DEF FarFrom
    <3>3. ASSUME NEW n \in Names PROVE ~ IsPrefix(y.from, Append(Now.to, n))
      <4>. SUFFICES ASSUME IsPrefix(y.from, Append(Now.to, n)) PROVE FALSE
        OBVIOUS
      <4>1. y.from = Append(Now.to, n)
        BY <1>1, <3>1, <3>2, PrefixOfChild DEF Path
      <4>2. IsPrefix(Now.to, Append(Now.to, n))
        BY <1>1, ChildIs DEF Path
      <4>. QED  BY <3>2, <4>1, <4>2
    <3>4. ~ IsPrefix(y.from, q)
      BY <1>5, <1>6, <3>3
    <3>5. ~ IsPrefix(q, y.from)
      BY <1>1, <1>7, <3>1, <3>2, PrefixTrans DEF Path
    <3>. QED  BY <1>7, <1>11, <3>3, <3>4, <3>5 DEF FarFrom
  <2>. QED  BY <1>11, <2>1, <2>2 DEF Follows, Moves, CopyOps, DeleteOps
<1>. QED  BY <1>4, <1>5, <1>6, <1>7, <1>10, <1>11, <1>12

\* Everything listed in a folder is to be copied.
LEMMA KidsTasks ==
    ASSUME TaskInv, KidsListed
    PROVE  Went({ThisKid(p) : p \in DOMAIN call.found})
<1>1. todo # << >> /\ Now.op = "Kids" /\ CallOK /\ call.step = "done"
  BY AnsweredIs DEF KidsListed, AnsweredOk
<1>2. IsFiniteSet(DOMAIN call.found)
  BY <1>1 DEF CallOK, FoundOK
<1>3. PICK f : f = [i \in DOMAIN Found |-> ThisKid(Found[i])]
  OBVIOUS
<1>4. DOMAIN f = DOMAIN Found /\ \A i \in DOMAIN Found : f[i] = ThisKid(Found[i]) /\ Found[i] \in DOMAIN call.found
  BY <1>2, <1>3, FoundIs
<1>5. \A i \in DOMAIN Found : /\ f[i] \in GoodTasks /\ f[i].op \in {"Copy", "Resolve"}
                              /\ f[i].then \in {"None", "Write"}
                              /\ \A y \in Later : Follows(f[i], y)
  BY <1>1, <1>4, KidIs
<1>6. \A i, j \in DOMAIN Found : Follows(f[i], f[j])
  BY <1>5 DEF Follows, Moves, CopyOps, DeleteOps
<1>7. f \in Seq(GoodTasks) /\ Ordered(f) /\ Range(f) = {f[i] : i \in DOMAIN Found}
  BY <1>2, <1>3, <1>4, <1>5, <1>6, TasksOfFound
<1>8. Range(f) = {ThisKid(p) : p \in DOMAIN call.found}
  <2>1. \A p \in DOMAIN call.found : \E i \in DOMAIN Found : Found[i] = p
    BY <1>2, FoundIs
  <2>. QED  BY <1>4, <1>7, <2>1
<1>9. todo' = f \o Tail(todo)
  BY <1>3 DEF KidsListed, Go, ThisKid
<1>10. \A x \in Range(f), y \in Later : Follows(x, y)
  BY <1>5, <1>7
<1>11. Went(Range(f))
  BY <1>1, <1>7, <1>9, <1>10, GoIs
<1>. QED  BY <1>8, <1>11

\* The call of a file to be written: a download first, if it comes from the server.
LEMMA WriteCall ==
    ASSUME TaskInv, CallOK, Now.op = "Write"
    PROVE  /\ call.op = "Download" => /\ Now.stage = Folder /\ job.from = "remote"
                                      /\ call.path = Now.from /\ call.to = Now.to
           /\ call.op = "Upload" => /\ ~ Downloads(Now) /\ call.path = Now.to /\ call.to = Now.to
                                    /\ call.data = IF job.from = "local" THEN local[Now.from] ELSE Now.stage
           /\ call.op \in {"Download", "Upload"}
<1>1. CASE Downloads(Now)
  <2>1. CallOf(Now) = NewCall("Download", Now.from, Now.to, Folder)
    BY <1>1, Zenon DEF CallOf
  <2>. QED  BY <1>1, <2>1 DEF CallOK, NewCall, Downloads
<1>2. CASE ~ Downloads(Now)
  <2>1. CallOf(Now) = NewCall("Upload", Now.to, Now.to, IF job.from = "local" THEN local[Now.from] ELSE Now.stage)
    BY <1>2, Zenon DEF CallOf
  <2>. QED  BY <1>2, <2>1 DEF CallOK, NewCall
<1>. QED  BY <1>1, <1>2

\* What was downloaded is staged for the upload, or written to the local disk.
LEMMA DownloadedTasks ==
    ASSUME TaskInv, Downloaded, call.data \in Whole
    PROVE  \/ job.to = "remote" /\ Went({[Now EXCEPT !.stage = call.data]})
           \/ job.to = "local" /\ local' = With(local, Now.to, call.data) /\ Went({})
           \/ todo' = todo /\ local' = local /\ call' = [call EXCEPT !.st = "Failed"]
<1>1. todo # << >> /\ Now.op = "Write" /\ CallOK /\ call.op = "Download"
  BY AnsweredIs DEF Downloaded, AnsweredOk
<1>2. job.from = "remote" /\ Now.stage = Folder
  BY <1>1, WriteCall
<1>3. Now \in Tasks
  BY <1>1, NowIs
<1>4. PICK x : x = [Now EXCEPT !.stage = call.data]
  OBVIOUS
<1>5. /\ x \in Tasks /\ x.op = Now.op /\ x.from = Now.from /\ x.to = Now.to /\ x.then = Now.then
  BY <1>3, <1>4, TaskWith
<1>6. job.to = "remote" => x \in GoodTasks /\ \A y \in Later : Follows(x, y)
  BY <1>1, <1>2, <1>5, SameTask
<1>7. \/ job.to = "remote" /\ Go(<<x>>)
      \/ job.to = "local" /\ local' = With(local, Now.to, call.data) /\ Go(<< >>)
      \/ todo' = todo /\ local' = local /\ call' = [call EXCEPT !.st = "Failed"]
  BY <1>4 DEF Downloaded
<1>. QED  BY <1>1, <1>4, <1>6, <1>7, GoOne, GoNone DEF Go

ThisGone(p) == Task("Delete", p, p, call.found[p])
ThisRemove == [Now EXCEPT !.op = "Remove"]

\* A folder is deleted by deleting what is listed in it, then the folder.
LEMMA DeletedTasks ==
    ASSUME TaskInv, Deleted
    PROVE  /\ todo # << >> /\ CallOK /\ Now.op \in DeleteOps /\ call.step = "done" /\ call.st = "Ok"
           /\ \/ call.op # "List" /\ Went({})
              \/ /\ call.op = "List" /\ call.path = Now.from
                 /\ Went({ThisGone(p) : p \in DOMAIN call.found} \cup {ThisRemove})
                 /\ \A p \in DOMAIN call.found :
                       /\ p \in Named /\ Parent(p) = Now.from
                       /\ ThisGone(p).op = "Delete" /\ ThisGone(p).from = p
                 /\ ThisRemove.op = "Remove" /\ ThisRemove.from = Now.from
<1>1. todo # << >> /\ CallOK /\ Now.op \in DeleteOps /\ call.step = "done" /\ call.st = "Ok"
  BY AnsweredIs DEF Deleted, AnsweredOk, DeleteOps
<1>2. CASE call.op # "List"
  <2>1. todo' = << >> \o Tail(todo)
    BY <1>2 DEF Deleted, Go
  <2>. QED  BY <1>1, <1>2, <2>1, GoNone
<1>3. CASE call.op = "List"
  <2>1. Now \in Tasks /\ Good(Now) /\ \A y \in Later : Follows(Now, y) /\ y \in GoodTasks
    BY <1>1, NowIs
  <2>2. Now.op = "Delete" /\ call.path = Now.from
    <3>1. CASE ~ (Now.op = "Delete" /\ Now.dir)
      <4>0. Now.op = "Remove" \/ (Now.op = "Delete" /\ ~ Now.dir)
        BY <1>1, <3>1, Zenon DEF DeleteOps
      <4>1. CallOf(Now) = NewCall("Delete", Now.from, Now.to, Folder)
        BY <4>0, Zenon DEF CallOf
      <4>2. CallOf(Now).op = "Delete"
        BY <4>1 DEF NewCall
      <4>3. call.op = CallOf(Now).op
        BY <1>1 DEF CallOK
      <4>. QED  BY <1>3, <4>2, <4>3
    <3>2. CASE Now.op = "Delete" /\ Now.dir
      <4>1. CallOf(Now) = NewCall("List", Now.from, Now.to, Folder)
        BY <3>2, Zenon DEF CallOf
      <4>. QED  BY <1>1, <3>2, <4>1 DEF CallOK, NewCall
    <3>. QED  BY <3>1, <3>2, Zenon
  <2>3. IsFiniteSet(DOMAIN call.found)
    BY <1>1 DEF CallOK, FoundOK
  <2>4. ASSUME NEW p \in DOMAIN call.found
        PROVE  /\ p \in Named /\ Parent(p) = Now.from
               /\ ThisGone(p) \in GoodTasks /\ ThisGone(p).op = "Delete" /\ ThisGone(p).from = p
               /\ ThisGone(p).then = "None"
    <3>1. p \in Named /\ Parent(p) = Now.from /\ call.found[p] \in BOOLEAN
      BY <1>1, <1>3, <2>2 DEF CallOK, FoundOK, Named
    <3>2. PICK x : x = ThisGone(p)
      OBVIOUS
    <3>3. x \in Tasks /\ x.op = "Delete" /\ x.from = p /\ x.then = "None"
      BY <3>1, <3>2, Marks DEF ThisGone, Tasks, Task, TaskOps, DeleteOps
    <3>4. x \in GoodTasks
      BY <3>3 DEF GoodTasks, Good, Moves
    <3>. QED  BY <3>1, <3>2, <3>3, <3>4
  <2>5. PICK r : r = ThisRemove
    OBVIOUS
  <2>6. /\ r \in Tasks /\ r.op = "Remove" /\ r.from = Now.from /\ r.to = Now.to /\ r.then = Now.then
        /\ r.stage = Now.stage
    <3>1. "Remove" \in TaskOps
      BY DEF TaskOps, DeleteOps
    <3>. QED  BY <2>1, <2>5, <3>1, TaskWith DEF ThisRemove
  <2>7. r \in GoodTasks /\ \A y \in Later : Follows(r, y)
    BY <1>1, <2>2, <2>6, SameTask
  <2>8. r.then # "Rename"
    BY <2>6, <2>7 DEF GoodTasks, Good
  <2>9. PICK f : f = [i \in DOMAIN Found |-> ThisGone(Found[i])]
    OBVIOUS
  <2>10. DOMAIN f = DOMAIN Found /\ \A i \in DOMAIN Found : f[i] = ThisGone(Found[i]) /\ Found[i] \in DOMAIN call.found
    BY <2>3, <2>9, FoundIs
  <2>11. \A i \in DOMAIN Found : f[i] \in GoodTasks /\ f[i].op = "Delete" /\ f[i].then = "None"
    BY <2>4, <2>10
  <2>12. \A i, j \in DOMAIN Found : Follows(f[i], f[j])
    BY <2>11 DEF Follows, Moves, CopyOps, DeleteOps
  <2>13. f \in Seq(GoodTasks) /\ Ordered(f) /\ Range(f) = {f[i] : i \in DOMAIN Found}
    BY <2>3, <2>9, <2>10, <2>11, <2>12, TasksOfFound
  <2>14. Range(f) = {ThisGone(p) : p \in DOMAIN call.found}
    <3>1. \A p \in DOMAIN call.found : \E i \in DOMAIN Found : Found[i] = p
      BY <2>3, FoundIs
    <3>. QED  BY <2>10, <2>13, <3>1
  <2>15. \A x \in Range(f) : x \in GoodTasks /\ x.op = "Delete" /\ x.then = "None"
    BY <2>11, <2>13
  <2>16. \A x \in Range(f) : Follows(x, r)
    BY <2>6, <2>8, <2>15 DEF Follows, Moves, CopyOps, DeleteOps
  <2>17. \A x \in Range(f), y \in Later : Follows(x, y)
    BY <2>1, <2>2, <2>15 DEF Follows, GoodTasks, Good, Moves, CopyOps, DeleteOps
  <2>18. <<r>> \in Seq(GoodTasks) /\ Range(<<r>>) = {r} /\ Ordered(<<r>>)
    BY <2>7, OneTask
  <2>19. f \o <<r>> \in Seq(GoodTasks) /\ Range(f \o <<r>>) = Range(f) \cup Range(<<r>>)
    BY <2>13, <2>18, JoinIs
  <2>20. Ordered(f \o <<r>>)
    BY <2>13, <2>16, <2>18, JoinOrdered
  <2>21. \A x \in Range(f \o <<r>>), y \in Later : Follows(x, y)
    BY <2>7, <2>17, <2>18, <2>19
  <2>22. todo' = (f \o <<r>>) \o Tail(todo)
    BY <1>3, <2>5, <2>9 DEF Deleted, Go, ThisGone, ThisRemove
  <2>23. Went(Range(f \o <<r>>))
    BY <1>1, <2>19, <2>20, <2>21, <2>22, GoIs
  <2>24. Went({ThisGone(p) : p \in DOMAIN call.found} \cup {r})
    BY <2>14, <2>18, <2>19, <2>23
  <2>. QED  BY <1>1, <1>3, <2>2, <2>4, <2>5, <2>6, <2>24
<1>. QED  BY <1>1, <1>2, <1>3

\* A file resolved is written or renamed, under this or another name, or skipped.
ThisPut(exists) == [Now EXCEPT !.op = Now.then, !.exists = exists]
ThisOther(n) == [Now EXCEPT !.to = Append(Parent(Now.to), n)]

\* The task that writes or renames once a conflict was settled.
LEMMA PutIs ==
    ASSUME TaskInv, todo # << >>, Now.op = "Resolve", NEW exists \in BOOLEAN
    PROVE  /\ ThisPut(exists) \in GoodTasks /\ ThisPut(exists).op = Now.then
           /\ ThisPut(exists).from = Now.from /\ ThisPut(exists).to = Now.to
           /\ ThisPut(exists).stage = Now.stage
           /\ Now.then \in {"Write", "Rename"}
           /\ ThisPut(exists).then = Now.then
           /\ \A y \in Later : Follows(ThisPut(exists), y)
<1>1. Now \in Tasks /\ Good(Now)
  BY NowIs
<1>2. Now.then \in {"Write", "Rename"}
  BY <1>1 DEF Good
<1>3. PICK x : x = ThisPut(exists)
  OBVIOUS
<1>4. x \in Tasks /\ x.op = Now.then /\ x.from = Now.from /\ x.to = Now.to /\ x.stage = Now.stage /\ x.then = Now.then
  BY <1>1, <1>2, <1>3 DEF ThisPut, Tasks, TaskOps, CopyOps
<1>. QED  BY <1>2, <1>3, <1>4, SameTask

\* The answers to a conflict: stop, skip, another name, or go on.
LEMMA ResolveTasks ==
    ASSUME TaskInv, ResolveFileConflict
    PROVE  \/ todo' = << >>
           \/ Went({}) /\ clean' = FALSE
           \/ \E n \in Names : /\ Append(Parent(Now.to), n) \in Named /\ Went({ThisOther(n)})
                               /\ ThisOther(n).op = "Resolve" /\ ThisOther(n).from = Now.from
                               /\ ThisOther(n).to = Append(Parent(Now.to), n) /\ ThisOther(n).then = Now.then
           \/ \E exists \in BOOLEAN : Went({ThisPut(exists)})
<1>1. todo # << >> /\ Now.op = "Resolve"
  BY DEF ResolveFileConflict, Answered
<1>2. \/ Stop
      \/ Go(<< >>) /\ clean' = FALSE
      \/ \E n \in NewNames : Go(<<ThisOther(n)>>)
      \/ \E exists \in BOOLEAN : Go(<<ThisPut(exists)>>)
  BY DEF ResolveFileConflict, NothingSeen, AnswerGiven, NewNameGiven, Proceed, ThisPut, ThisOther
<1>3. CASE Stop
  BY <1>3 DEF Stop
<1>4. CASE Go(<< >>) /\ clean' = FALSE
  BY <1>1, <1>4, GoNone DEF Go
<1>5. ASSUME NEW n \in NewNames, Go(<<ThisOther(n)>>)
      PROVE  /\ Append(Parent(Now.to), n) \in Named /\ Went({ThisOther(n)})
             /\ ThisOther(n).op = "Resolve" /\ ThisOther(n).from = Now.from
             /\ ThisOther(n).to = Append(Parent(Now.to), n) /\ ThisOther(n).then = Now.then
  <2>1. n \in Names
    BY JobsAssumption
  <2>2. Now \in Tasks /\ Now.to \in Path /\ Now.to # << >>
    BY <1>1, NowIs DEF Tasks, Named
  <2>3. Parent(Now.to) \in Path
    BY <2>2, ParentIs DEF Path
  <2>4. PICK q : q = Append(Parent(Now.to), n)
    OBVIOUS
  <2>5. q \in Named /\ Parent(q) = Parent(Now.to)
    BY <2>1, <2>3, <2>4, ChildIs DEF Named, Path
  <2>6. PICK x : x = ThisOther(n)
    OBVIOUS
  <2>7. x = [Now EXCEPT !.to = q]
    BY <2>4, <2>6 DEF ThisOther
  <2>8. x \in Tasks /\ x.op = Now.op /\ x.from = Now.from /\ x.to = q /\ x.stage = Now.stage /\ x.then = Now.then
    BY <2>2, <2>5, <2>7, TaskWith
  <2>9. x \in GoodTasks /\ \A y \in Later : Follows(x, y)
    <3>1. x.to = Append(Parent(x.to), n)
      BY <2>4, <2>5, <2>8
    <3>. QED  BY <1>1, <2>1, <2>5, <2>8, <3>1, SameTask
  <2>10. Went({x})
    BY <1>1, <1>5, <2>6, <2>9, GoOne DEF Go
  <2>. QED  BY <1>1, <2>4, <2>5, <2>6, <2>8, <2>10
<1>6. ASSUME NEW exists \in BOOLEAN, Go(<<ThisPut(exists)>>)
      PROVE  Went({ThisPut(exists)})
  BY <1>1, <1>6, PutIs, GoOne DEF Go
<1>. QED  BY <1>2, <1>3, <1>4, <1>5, <1>6, JobsAssumption

-----------------------------------------------------------------------------
(* What each step of the session does to the call and to the server.          *)

CallFields == {"op", "path", "to", "data", "step", "st", "found", "blind"}

\* A call answered, or one step further.
LEMMA CallWith ==
    ASSUME NEW c, DOMAIN c = CallFields, NEW step, NEW st, NEW x
    PROVE  /\ LET n == [c EXCEPT !.step = step]
              IN  /\ DOMAIN n = CallFields /\ n.op = c.op /\ n.path = c.path /\ n.to = c.to /\ n.data = c.data
                  /\ n.step = step /\ n.st = c.st /\ n.found = c.found /\ n.blind = c.blind
           /\ LET n == [c EXCEPT !.step = step, !.st = st]
              IN  /\ DOMAIN n = CallFields /\ n.op = c.op /\ n.path = c.path /\ n.to = c.to /\ n.data = c.data
                  /\ n.step = step /\ n.st = st /\ n.found = c.found /\ n.blind = c.blind
           /\ LET n == [c EXCEPT !.step = step, !.st = st, !.data = x]
              IN  /\ DOMAIN n = CallFields /\ n.op = c.op /\ n.path = c.path /\ n.to = c.to /\ n.data = x
                  /\ n.step = step /\ n.st = st /\ n.found = c.found /\ n.blind = c.blind
           /\ LET n == [c EXCEPT !.step = step, !.st = st, !.found = x]
              IN  /\ DOMAIN n = CallFields /\ n.op = c.op /\ n.path = c.path /\ n.to = c.to /\ n.data = c.data
                  /\ n.step = step /\ n.st = st /\ n.found = x /\ n.blind = c.blind
           /\ LET n == [c EXCEPT !.step = step, !.found = x, !.st = st]
              IN  /\ DOMAIN n = CallFields /\ n.op = c.op /\ n.path = c.path /\ n.to = c.to /\ n.data = c.data
                  /\ n.step = step /\ n.st = st /\ n.found = x /\ n.blind = c.blind
           /\ LET n == [c EXCEPT !.step = step, !.blind = TRUE, !.st = st]
              IN  /\ DOMAIN n = CallFields /\ n.op = c.op /\ n.path = c.path /\ n.to = c.to /\ n.data = c.data
                  /\ n.step = step /\ n.st = st /\ n.found = c.found /\ n.blind
           /\ LET n == [c EXCEPT !.step = step, !.st = st, !.blind = TRUE]
              IN  /\ DOMAIN n = CallFields /\ n.op = c.op /\ n.path = c.path /\ n.to = c.to /\ n.data = c.data
                  /\ n.step = step /\ n.st = st /\ n.found = c.found /\ n.blind
BY DEF CallFields

SameCall == /\ DOMAIN call' = CallFields
            /\ call'.op = call.op /\ call'.path = call.path /\ call'.to = call.to

\* A Stat answered from the cache.
LEMMA StatCachedCall ==
    ASSUME DOMAIN call = CallFields, FsStatCached
    PROVE  /\ SameCall /\ call'.data = call.data /\ call'.step = "done" /\ call'.blind = call.blind
           /\ call'.st = (IF call.path \in DOMAIN cache.list THEN "Ok" ELSE "NotFound")
           /\ call'.found = Restrict(cache.list, DOMAIN cache.list \cap {call.path})
BY CallWith DEF FsStatCached, SameCall

\* What a listing told of the call's path.
Mine ==
    LET list == Listing(server.tree, ListedDir)
    IN  IF call.op = "List" THEN list ELSE Restrict(list, DOMAIN list \cap {call.path})

\* A listing asked of the server, and its three ways out.
LEMMA ListFolderCall ==
    ASSUME DOMAIN call = CallFields, ListFolder
    PROVE  /\ SameCall /\ call'.data = call.data /\ call.op \in {"List", "Stat"}
           /\ call.step \in {"start", "again"}
           /\ \/ /\ call'.step = "offer" /\ call'.st = call.st /\ call'.found = call.found /\ call'.blind = call.blind
                 /\ UNCHANGED <<cache, touched>>
              \/ /\ call'.step = "done" /\ call'.st # "Ok" /\ call'.found = call.found /\ call'.blind
                 /\ UNCHANGED <<cache, touched>>
              \/ /\ call'.step = "done" /\ call'.found = Mine /\ call'.blind = call.blind
                 /\ IsFolder(server.tree, ListedDir)
                 /\ call'.st = (IF call.op = "Stat" /\ Mine = << >> THEN "NotFound" ELSE "Ok")
                 /\ cache' = [dir |-> ListedDir, list |-> Listing(server.tree, ListedDir)]
                 /\ touched' = {q \in touched : Parent(q) # ListedDir}
<1>1. call.op \in {"List", "Stat"} /\ call.step \in {"start", "again"}
  BY DEF ListFolder
<1>2. PICK st \in Statuses :
         /\ Result(st, IsFolder(server.tree, ListedDir), server)
         /\ \/ Listed(st)
            \/ /\ st = "ConnectionLost" /\ call.step = "start"
               /\ call' = [call EXCEPT !.step = "offer"]
               /\ UNCHANGED <<cache, touched>>
  BY DEF ListFolder
<1>3. CASE /\ call' = [call EXCEPT !.step = "offer"]
           /\ UNCHANGED <<cache, touched>>
  BY <1>1, <1>3, CallWith DEF SameCall
<1>4. CASE Listed(st) /\ st = "Ok"
  <2>1. IsFolder(server.tree, ListedDir)
    BY <1>2, <1>4 DEF Result
  <2>2. /\ cache' = [dir |-> ListedDir, list |-> Listing(server.tree, ListedDir)]
        /\ touched' = {q \in touched : Parent(q) # ListedDir}
    BY <1>4 DEF Listed
  <2>3. PICK s : s = (IF call.op = "Stat" /\ Mine = << >> THEN "NotFound" ELSE "Ok")
    OBVIOUS
  <2>4. call' = [call EXCEPT !.step = "done", !.found = Mine, !.st = s]
    BY <1>4, <2>3 DEF Listed, Mine
  <2>5. /\ SameCall /\ call'.data = call.data /\ call'.step = "done" /\ call'.found = Mine
        /\ call'.blind = call.blind /\ call'.st = s
    BY <2>4, CallWith DEF SameCall
  <2>. QED  BY <1>1, <2>1, <2>2, <2>3, <2>5
<1>5. CASE Listed(st) /\ st # "Ok"
  <2>1. UNCHANGED <<cache, touched>>
    BY <1>5 DEF Listed
  <2>2. PICK s : s = (IF call.op = "Stat" /\ st = "Failed" THEN "NotFound" ELSE st)
    OBVIOUS
  <2>3. call' = [call EXCEPT !.step = "done", !.blind = TRUE, !.st = s]
    BY <1>5, <2>2 DEF Listed
  <2>4. /\ SameCall /\ call'.data = call.data /\ call'.step = "done" /\ call'.found = call.found
        /\ call'.blind /\ call'.st = s
    BY <2>3, CallWith DEF SameCall
  <2>. QED  BY <1>1, <1>5, <2>1, <2>2, <2>4
<1>. QED  BY <1>2, <1>3, <1>4, <1>5

\* After a lost connection the listing is tried again, or given up blind.
LEMMA OfferCall ==
    ASSUME DOMAIN call = CallFields, OfferReconnect
    PROVE  /\ SameCall /\ call'.data = call.data /\ call.op \in {"List", "Stat"} /\ call.step = "offer"
           /\ call'.found = call.found
           /\ call'.step = "again" \/ (call'.step = "done" /\ call'.st = "ConnectionLost" /\ call'.blind)
<1>1. \/ call' = [call EXCEPT !.step = "again"]
      \/ call' = [call EXCEPT !.step = "done", !.st = "ConnectionLost", !.blind = TRUE]
  BY DEF OfferReconnect
<1>2. call.op \in {"List", "Stat"} /\ call.step = "offer"
  BY DEF OfferReconnect
<1>3. CASE call' = [call EXCEPT !.step = "again"]
  BY <1>2, <1>3, CallWith DEF SameCall
<1>4. CASE call' = [call EXCEPT !.step = "done", !.st = "ConnectionLost", !.blind = TRUE]
  <2>1. /\ SameCall /\ call'.data = call.data /\ call'.found = call.found
        /\ call'.step = "done" /\ call'.st = "ConnectionLost" /\ call'.blind
    BY <1>4, CallWith DEF SameCall
  <2>. QED  BY <1>2, <2>1
<1>. QED  BY <1>1, <1>3, <1>4

\* The other calls, but a download, whose step is "done".
LEMMA AnsweredCall ==
    ASSUME DOMAIN call = CallFields, FsReconnect \/ FsDelete \/ FsMakeDirectory \/ FsRename
    PROVE  /\ SameCall /\ call'.data = call.data /\ call'.found = call.found /\ call.step = "start" /\ call'.step = "done"
           /\ call.op \in {"Reconnect", "Delete", "Mkdir", "Rename"}
<1>1. \E st : call' = [call EXCEPT !.step = "done", !.st = st]
  BY DEF FsReconnect, FsDelete, FsMakeDirectory, FsRename, Return
<1>2. call.step = "start" /\ call.op \in {"Reconnect", "Delete", "Mkdir", "Rename"}
  BY DEF FsReconnect, FsDelete, FsMakeDirectory, FsRename, At
<1>. QED  BY <1>1, <1>2, CallWith DEF SameCall

\* A download that says Ok brought the file as it is.
LEMMA DownloadCall ==
    ASSUME DOMAIN call = CallFields, FsDownloadToFile
    PROVE  /\ SameCall /\ call'.found = call.found /\ call.op = "Download" /\ call.step = "start"
           /\ call'.step = "done"
           /\ call'.st = "Ok" => IsFile(server.tree, call.path) /\ call'.data = server.tree[call.path]
           /\ server' = server
<1>1. PICK st \in Statuses :
         /\ Result(st, IsFile(server.tree, call.path), server)
         /\ call' = [call EXCEPT !.step = "done", !.st = st,
                                 !.data = IF st = "Ok" THEN server.tree[call.path] ELSE @]
  BY DEF FsDownloadToFile
<1>2. PICK x : x = IF st = "Ok" THEN server.tree[call.path] ELSE call.data
  OBVIOUS
<1>3. call' = [call EXCEPT !.step = "done", !.st = st, !.data = x]
  BY <1>1, <1>2
<1>4. SameCall /\ call'.found = call.found /\ call'.step = "done" /\ call'.st = st /\ call'.data = x
  BY <1>3, CallWith DEF SameCall
<1>5. st = "Ok" => IsFile(server.tree, call.path)
  BY <1>1 DEF Result
<1>6. server' = server
  BY <1>1 DEF Result
<1>. QED  BY <1>2, <1>4, <1>5, <1>6 DEF FsDownloadToFile, At

\* An upload goes from its start over "place", "clear" and "again" to "undo" and "done".
LEMMA UploadCall ==
    ASSUME DOMAIN call = CallFields, UploadPart \/ PlacePart \/ ClearTarget \/ UndoPart
    PROVE  /\ SameCall /\ call'.data = call.data /\ call'.found = call.found /\ call.op = "Upload"
           /\ call.step \in {"start", "place", "clear", "again", "undo"}
           /\ call'.step = "again" => ClearTarget
<1>1. call.op = "Upload" /\ call.step \in {"start", "place", "clear", "again", "undo"}
  BY DEF UploadPart, PlacePart, ClearTarget, UndoPart, At
<1>2. \/ \E step \in {"place", "clear"} : call' = [call EXCEPT !.step = step]
      \/ ClearTarget /\ call' = [call EXCEPT !.step = "again"]
      \/ \E step \in {"done", "undo"} : \E st : call' = [call EXCEPT !.step = step, !.st = st]
  <2>1. CASE UploadPart
    BY <2>1 DEF UploadPart, AfterFailure
  <2>2. CASE PlacePart
    BY <2>2 DEF PlacePart, Placed, NotPlaced, AfterFailure, Return
  <2>3. CASE ClearTarget
    BY <2>3 DEF ClearTarget, NotPlaced, AfterFailure
  <2>4. CASE UndoPart
    BY <2>4 DEF UndoPart, Return
  <2>. QED  BY <2>1, <2>2, <2>3, <2>4
<1>3. CASE \E step \in {"place", "clear"} : call' = [call EXCEPT !.step = step]
  BY <1>1, <1>3, CallWith DEF SameCall
<1>4. CASE ClearTarget /\ call' = [call EXCEPT !.step = "again"]
  BY <1>1, <1>4, CallWith DEF SameCall
<1>5. CASE \E step \in {"done", "undo"} : \E st : call' = [call EXCEPT !.step = step, !.st = st]
  BY <1>1, <1>5, CallWith DEF SameCall
<1>. QED  BY <1>2, <1>3, <1>4, <1>5

\* No step of the session changes what a call is about.
LEMMA SessionCall ==
    ASSUME DOMAIN call = CallFields, Session
    PROVE  SameCall /\ (call.op # "Download" => call'.data = call.data) /\ call.step # "done"
<1>1. CASE FsStatCached
  BY <1>1, StatCachedCall DEF FsStatCached, At
<1>2. CASE ListFolder
  BY <1>2, ListFolderCall
<1>3. CASE OfferReconnect
  BY <1>3, OfferCall
<1>4. CASE FsReconnect \/ FsDelete \/ FsMakeDirectory \/ FsRename
  BY <1>4, AnsweredCall
<1>5. CASE FsDownloadToFile
  BY <1>5, DownloadCall
<1>6. CASE UploadPart \/ PlacePart \/ ClearTarget \/ UndoPart
  BY <1>6, UploadCall
<1>. QED  BY <1>1, <1>2, <1>3, <1>4, <1>5, <1>6 DEF Session

ServerFields == {"tree", "parts"}

\* The server with its tree, or its parts, replaced.
LEMMA ServerWith ==
    ASSUME NEW s, DOMAIN s = ServerFields, NEW x
    PROVE  /\ DOMAIN [s EXCEPT !.tree = x] = ServerFields
           /\ [s EXCEPT !.tree = x].tree = x /\ [s EXCEPT !.tree = x].parts = s.parts
           /\ DOMAIN [s EXCEPT !.parts = x] = ServerFields
           /\ [s EXCEPT !.parts = x].parts = x /\ [s EXCEPT !.parts = x].tree = s.tree
BY DEF ServerFields

\* Removing pending parts leaves the tree alone, and remembers what it failed to remove.
LEMMA RemoveParts ==
    ASSUME DOMAIN server = ServerFields, NEW up, RemovePendingParts(up)
    PROVE  /\ DOMAIN server' = ServerFields /\ server'.tree = server.tree
           /\ pendingParts' = {}
           /\ \E gone : server'.parts = Restrict(server.parts, DOMAIN server.parts \ gone)
           /\ DOMAIN server'.parts \subseteq (DOMAIN server.parts \ pendingParts) \cup stray'
           /\ stray \subseteq stray'
<1>. DEFINE there == pendingParts \cap DOMAIN server.parts
<1>1. PICK kept \in SUBSET there :
         /\ server' = [server EXCEPT !.parts = Restrict(@, DOMAIN @ \ (there \ kept))]
         /\ stray' = stray \cup kept /\ pendingParts' = {}
  BY DEF RemovePendingParts
<1>2. PICK gone : gone = there \ kept
  OBVIOUS
<1>3. PICK parts : parts = Restrict(server.parts, DOMAIN server.parts \ gone)
  OBVIOUS
<1>4. server' = [server EXCEPT !.parts = parts]
  BY <1>1, <1>2, <1>3
<1>5. DOMAIN server' = ServerFields /\ server'.tree = server.tree /\ server'.parts = parts
  BY <1>4, ServerWith
<1>6. DOMAIN parts = DOMAIN server.parts \ gone
  BY <1>3 DEF Restrict
<1>7. DOMAIN parts \subseteq (DOMAIN server.parts \ pendingParts) \cup stray'
  BY <1>1, <1>2, <1>6
<1>. QED  BY <1>1, <1>3, <1>5, <1>7

\* What a step of the session, of another client or of the closing does to the tree.
LEMMA TreeStep ==
    ASSUME DOMAIN server = ServerFields, Session \/ OtherClient \/ FsClose
    PROVE  /\ DOMAIN server' = ServerFields
           /\ \/ server'.tree = server.tree
              \/ /\ FsMakeDirectory /\ IsFree(server.tree, call.path)
                 /\ server'.tree = With(server.tree, call.path, Folder)
              \/ /\ FsDelete /\ Deletable(call.path)
                 /\ server'.tree = Without(server.tree, call.path)
              \/ /\ ClearTarget /\ IsFile(server.tree, call.path)
                 /\ server'.tree = Without(server.tree, call.path)
              \/ /\ PlacePart /\ HasPart(call.path) /\ IsFree(server.tree, call.path)
                 /\ server'.tree = With(server.tree, call.path, server.parts[call.path])
              \/ /\ FsRename /\ call.path \in DOMAIN server.tree /\ IsFree(server.tree, call.to)
                 /\ server'.tree = Renamed(server.tree, call.path, call.to)
              \/ /\ OtherClient
                 /\ \E p \in OtherPaths : /\ IsFree(server.tree, p)
                                          /\ server'.tree = With(server.tree, p, Other)
                                          /\ touched' = touched \cup {p}
<1>. DEFINE Same == DOMAIN server' = ServerFields /\ server'.tree = server.tree
<1>0. server' = server => Same
  OBVIOUS
<1>. HIDE DEF Same
<1>1. CASE FsStatCached
  BY <1>0, <1>1 DEF FsStatCached, Same
<1>2. CASE ListFolder
  BY <1>0, <1>2 DEF ListFolder, Result, Same
<1>3. CASE OfferReconnect \/ FsReconnect
  <2>1. PICK ok \in BOOLEAN : Connect(ok)
    BY <1>3 DEF OfferReconnect, FsReconnect
  <2>2. CASE RemovePendingParts(TRUE)
    BY <2>2, RemoveParts
  <2>3. CASE server' = server
    BY <1>0, <2>3 DEF Same
  <2>. QED  BY <2>1, <2>2, <2>3 DEF Connect
<1>4. CASE FsDownloadToFile
  BY <1>0, <1>4 DEF FsDownloadToFile, Result, Same
<1>5. CASE FsClose
  BY <1>5, RemoveParts DEF FsClose
<1>6. CASE OtherClient
  <2>1. PICK p \in OtherPaths : /\ IsFree(server.tree, p)
                                /\ server' = [server EXCEPT !.tree = With(@, p, Other)]
                                /\ touched' = touched \cup {p}
    BY <1>6 DEF OtherClient
  <2>2. server' = [server EXCEPT !.tree = With(server.tree, p, Other)]
    BY <2>1
  <2>3. DOMAIN server' = ServerFields /\ server'.tree = With(server.tree, p, Other)
    BY <2>2, ServerWith
  <2>. QED  BY <1>6, <2>1, <2>3
<1>7. CASE FsMakeDirectory
  <2>1. \/ server' = server
        \/ /\ IsFree(server.tree, call.path)
           /\ server' = [server EXCEPT !.tree = With(server.tree, call.path, Folder)]
    BY <1>7 DEF FsMakeDirectory, Result
  <2>2. CASE server' = server
    BY <1>0, <2>2 DEF Same
  <2>3. CASE /\ IsFree(server.tree, call.path)
             /\ server' = [server EXCEPT !.tree = With(server.tree, call.path, Folder)]
    <3>1. DOMAIN server' = ServerFields /\ server'.tree = With(server.tree, call.path, Folder)
      BY <2>3, ServerWith
    <3>. QED  BY <1>7, <2>3, <3>1
  <2>. QED  BY <2>1, <2>2, <2>3
<1>8. CASE FsDelete
  <2>1. \/ server' = server
        \/ /\ Deletable(call.path)
           /\ server' = [server EXCEPT !.tree = Without(server.tree, call.path)]
    BY <1>8 DEF FsDelete, Result
  <2>2. CASE server' = server
    BY <1>0, <2>2 DEF Same
  <2>3. CASE /\ Deletable(call.path)
             /\ server' = [server EXCEPT !.tree = Without(server.tree, call.path)]
    <3>1. DOMAIN server' = ServerFields /\ server'.tree = Without(server.tree, call.path)
      BY <2>3, ServerWith
    <3>. QED  BY <1>8, <2>3, <3>1
  <2>. QED  BY <2>1, <2>2, <2>3
<1>9. CASE FsRename
  <2>1. \/ server' = server
        \/ /\ call.path \in DOMAIN server.tree /\ IsFree(server.tree, call.to)
           /\ server' = [server EXCEPT !.tree = Renamed(server.tree, call.path, call.to)]
    BY <1>9 DEF FsRename, Result
  <2>2. CASE server' = server
    BY <1>0, <2>2 DEF Same
  <2>3. CASE /\ call.path \in DOMAIN server.tree /\ IsFree(server.tree, call.to)
             /\ server' = [server EXCEPT !.tree = Renamed(server.tree, call.path, call.to)]
    <3>1. DOMAIN server' = ServerFields /\ server'.tree = Renamed(server.tree, call.path, call.to)
      BY <2>3, ServerWith
    <3>. QED  BY <1>9, <2>3, <3>1
  <2>. QED  BY <2>1, <2>2, <2>3
<1>10. CASE UploadPart \/ UndoPart
  <2>1. server' = server \/ \E x : server' = [server EXCEPT !.parts = x]
    BY <1>10 DEF UploadPart, UndoPart, Result, Interrupted
  <2>2. CASE server' = server
    BY <1>0, <2>2 DEF Same
  <2>3. CASE \E x : server' = [server EXCEPT !.parts = x]
    BY <2>3, ServerWith
  <2>. QED  BY <2>1, <2>2, <2>3
<1>11. CASE PlacePart
  <2>1. PICK tree : tree = With(server.tree, call.path, IF HasPart(call.path) THEN server.parts[call.path] ELSE Partial)
    OBVIOUS
  <2>2. \/ server' = server
        \/ /\ HasPart(call.path) /\ IsFree(server.tree, call.path)
           /\ server' = [tree |-> tree, parts |-> Without(server.parts, call.path)]
    BY <1>11, <2>1 DEF PlacePart, Place, Result
  <2>3. CASE /\ HasPart(call.path) /\ IsFree(server.tree, call.path)
             /\ server' = [tree |-> tree, parts |-> Without(server.parts, call.path)]
    <3>1. DOMAIN server' = ServerFields /\ server'.tree = tree
      BY <2>3 DEF ServerFields
    <3>. QED  BY <1>11, <2>1, <2>3, <3>1
  <2>4. CASE server' = server
    BY <1>0, <2>4 DEF Same
  <2>. QED  BY <2>2, <2>3, <2>4
<1>12. CASE ClearTarget
  <2>1. \/ server' = server
        \/ /\ IsFile(server.tree, call.path)
           /\ server' = [server EXCEPT !.tree = Without(server.tree, call.path)]
    BY <1>12 DEF ClearTarget, Result
  <2>2. CASE server' = server
    BY <1>0, <2>2 DEF Same
  <2>3. CASE /\ IsFile(server.tree, call.path)
             /\ server' = [server EXCEPT !.tree = Without(server.tree, call.path)]
    <3>1. DOMAIN server' = ServerFields /\ server'.tree = Without(server.tree, call.path)
      BY <2>3, ServerWith
    <3>. QED  BY <1>12, <2>3, <3>1
  <2>. QED  BY <2>1, <2>2, <2>3
<1>. QED  BY <1>1, <1>2, <1>3, <1>4, <1>5, <1>6, <1>7, <1>8, <1>9, <1>10, <1>11, <1>12 DEF Session

\* What it does to the part files.
LEMMA PartsStep ==
    ASSUME DOMAIN server = ServerFields, Session \/ OtherClient \/ FsClose
    PROVE  \/ server'.parts = server.parts
           \/ UploadPart /\ \E c \in {call.data, Partial} : server'.parts = With(server.parts, call.path, c)
           \/ UndoPart /\ server'.parts = Without(server.parts, call.path)
           \/ /\ PlacePart /\ IsFree(server.tree, call.path) /\ HasPart(call.path)
              /\ server'.tree = With(server.tree, call.path, server.parts[call.path])
              /\ server'.parts = Without(server.parts, call.path)
           \/ /\ FsReconnect \/ OfferReconnect \/ FsClose
              /\ \E gone : server'.parts = Restrict(server.parts, DOMAIN server.parts \ gone)
              /\ DOMAIN server'.parts \subseteq (DOMAIN server.parts \ pendingParts) \cup stray'
              /\ stray \subseteq stray' /\ pendingParts' = {}
<1>1. CASE FsStatCached \/ ListFolder \/ FsDownloadToFile
  <2>1. server' = server
    BY <1>1 DEF FsStatCached, ListFolder, FsDownloadToFile, Result
  <2>. QED  BY <2>1
<1>2. CASE OfferReconnect \/ FsReconnect
  <2>1. PICK ok \in BOOLEAN : Connect(ok)
    BY <1>2 DEF OfferReconnect, FsReconnect
  <2>2. CASE RemovePendingParts(TRUE)
    BY <1>2, <2>2, RemoveParts
  <2>3. CASE server' = server
    BY <2>3
  <2>. QED  BY <2>1, <2>2, <2>3 DEF Connect
<1>3. CASE FsClose
  BY <1>3, RemoveParts DEF FsClose
<1>4. CASE OtherClient \/ FsMakeDirectory \/ FsDelete \/ FsRename \/ ClearTarget
  <2>1. server' = server \/ \E x : server' = [server EXCEPT !.tree = x]
    BY <1>4 DEF OtherClient, FsMakeDirectory, FsDelete, FsRename, ClearTarget, Result
  <2>2. CASE server' = server
    BY <2>2
  <2>3. CASE \E x : server' = [server EXCEPT !.tree = x]
    BY <2>3, ServerWith
  <2>. QED  BY <2>1, <2>2, <2>3
<1>5. CASE UploadPart
  <2>1. PICK st \in Statuses :
           \/ Result(st, IsFolder(server.tree, Parent(call.path)),
                     [server EXCEPT !.parts = With(@, call.path, call.data)])
           \/ Interrupted(st, call.path)
    BY <1>5 DEF UploadPart
  <2>2. \/ server' = server
        \/ \E c \in {call.data, Partial} : server' = [server EXCEPT !.parts = With(server.parts, call.path, c)]
    BY <2>1 DEF Result, Interrupted
  <2>3. CASE server' = server
    BY <2>3
  <2>4. CASE \E c \in {call.data, Partial} : server' = [server EXCEPT !.parts = With(server.parts, call.path, c)]
    <3>1. PICK c \in {call.data, Partial} : server' = [server EXCEPT !.parts = With(server.parts, call.path, c)]
      BY <2>4
    <3>2. server'.parts = With(server.parts, call.path, c)
      BY <3>1, ServerWith
    <3>. QED  BY <1>5, <3>2
  <2>. QED  BY <2>2, <2>3, <2>4
<1>6. CASE UndoPart
  <2>1. \/ server' = server
        \/ server' = [server EXCEPT !.parts = Without(server.parts, call.path)]
    BY <1>6 DEF UndoPart, Result
  <2>2. CASE server' = server
    BY <2>2
  <2>3. CASE server' = [server EXCEPT !.parts = Without(server.parts, call.path)]
    <3>1. server'.parts = Without(server.parts, call.path)
      BY <2>3, ServerWith
    <3>. QED  BY <1>6, <3>1
  <2>. QED  BY <2>1, <2>2, <2>3
<1>7. CASE PlacePart
  <2>1. PICK tree : tree = With(server.tree, call.path, IF HasPart(call.path) THEN server.parts[call.path] ELSE Partial)
    OBVIOUS
  <2>2. \/ server' = server
        \/ /\ HasPart(call.path) /\ IsFree(server.tree, call.path)
           /\ server' = [tree |-> tree, parts |-> Without(server.parts, call.path)]
    BY <1>7, <2>1 DEF PlacePart, Place, Result
  <2>3. CASE /\ HasPart(call.path) /\ IsFree(server.tree, call.path)
             /\ server' = [tree |-> tree, parts |-> Without(server.parts, call.path)]
    <3>1. server'.tree = tree /\ server'.parts = Without(server.parts, call.path)
      BY <2>3
    <3>. QED  BY <1>7, <2>1, <2>3, <3>1
  <2>4. CASE server' = server
    BY <2>4
  <2>. QED  BY <2>2, <2>3, <2>4
<1>. QED  BY <1>1, <1>2, <1>3, <1>4, <1>5, <1>6, <1>7 DEF Session

\* An upload that goes on has sent all of the file.
LEMMA SentPart ==
    ASSUME DOMAIN server = ServerFields, DOMAIN call = CallFields, UploadPart
    PROVE  call'.step \in {"place", "clear", "again"} =>
              server'.parts = With(server.parts, call.path, call.data)
<1>1. PICK st \in Statuses :
         /\ \/ Result(st, IsFolder(server.tree, Parent(call.path)),
                      [server EXCEPT !.parts = With(@, call.path, call.data)])
            \/ Interrupted(st, call.path)
         /\ st # "Ok" => AfterFailure(st)
  BY DEF UploadPart
<1>2. CASE st = "Ok"
  <2>1. server' = [server EXCEPT !.parts = With(server.parts, call.path, call.data)]
    BY <1>1, <1>2 DEF Result, Interrupted
  <2>. QED  BY <2>1, ServerWith
<1>3. CASE st # "Ok"
  <2>1. \E step \in {"done", "undo"} : call' = [call EXCEPT !.step = step, !.st = st]
    BY <1>1, <1>3 DEF AfterFailure
  <2>2. call'.step \in {"done", "undo"}
    BY <2>1, CallWith
  <2>. QED  BY <2>2
<1>. QED  BY <1>2, <1>3

-----------------------------------------------------------------------------
(* The tasks and the call in progress, from one state to the next.            *)

\* What a good task is depends on the job alone.
LEMMA GoodFrame ==
    ASSUME job' = job
    PROVE  GoodTasks' = GoodTasks /\ (SameProvider' <=> SameProvider)
<1>1. SameProvider' <=> SameProvider
  BY DEF SameProvider
<1>2. \A t : Good(t)' <=> Good(t)
  BY DEF Good, ItemOf, Moves, SameProvider
<1>. QED  BY <1>1, <1>2 DEF GoodTasks

\* So does the order of tasks.
LEMMA OrderedFrame ==
    ASSUME job' = job
    PROVE  Ordered(todo)' <=> Ordered(todo')
<1>1. \A a, b : Follows(a, b)' <=> Follows(a, b)
  BY DEF Follows, Moves, SameProvider, FarFrom, NothingOntoItsAncestor
<1>. QED  BY <1>1 DEF Ordered

\* Every step of the engine but a call: the session is left alone, and the call
\* is over, unless what was downloaded could not be written.
WriteFails == Downloaded /\ todo' = todo /\ local' = local /\ call' = [call EXCEPT !.st = "Failed"]

GoesOn == Engines /\ ~ Call

\* A step of the engine leaves the session alone, and starts, ends or fails a call.
LEMMA EngineStep ==
    ASSUME Engines
    PROVE  /\ UNCHANGED <<sessionVars, job>>
           /\ Call \/ call' = NoCall \/ WriteFails
           /\ Call \/ call = NoCall \/ call.step = "done"
           /\ Call \/ Downloaded \/ local' = local
<1>1. CASE Call
  BY <1>1 DEF Call
<1>2. CASE Attempt \/ Reconnected
  BY <1>2 DEF Attempt, Reconnected, Answered, Engine, Rest, Go, Stop
<1>3. CASE Escape \/ Decide
  BY <1>3 DEF Escape, Decide, Engine, Rest, Stop
<1>4. CASE ItemFound \/ Looked \/ RenameDone
  BY <1>4 DEF ItemFound, Looked, RenameDone, AnsweredOk, Answered, Engine, Rest, Go, Stop
<1>5. CASE FolderSeen \/ FolderMade \/ KidsListed \/ Uploaded \/ Deleted
  BY <1>5 DEF FolderSeen, FolderMade, KidsListed, Uploaded, Deleted, AnsweredOk, Answered, Engine, Rest, Go, Stop
<1>6. CASE Downloaded
  BY <1>6 DEF Downloaded, AnsweredOk, Answered, Engine, Go, WriteFails
<1>7. CASE ResolveFileConflict
  BY <1>7 DEF ResolveFileConflict, NothingSeen, AnswerGiven, NewNameGiven, Proceed, Answered, Engine, Go, Stop
<1>. QED  BY <1>1, <1>2, <1>3, <1>4, <1>5, <1>6, <1>7 DEF Engines

\* Reconnected and Uploaded leave the tasks to come.
LEMMA SimpleTasks ==
    ASSUME TaskInv, Reconnected \/ Uploaded
    PROVE  Went({})
<1>1. todo # << >> /\ todo' = << >> \o Tail(todo)
  BY DEF Reconnected, Uploaded, AnsweredOk, Answered, Go
<1>. QED  BY <1>1, GoNone

\* Every step of the engine leaves good tasks in order.
LEMMA EngineTasks ==
    ASSUME TaskInv, TreeInv, UploadInv, Engines
    PROVE  todo' \in Seq(GoodTasks) /\ Ordered(todo')
<1>1. Went({}) \/ (\E new : Went(new)) \/ todo' = todo \/ todo' = << >> => todo' \in Seq(GoodTasks) /\ Ordered(todo')
  BY NoTask DEF Went, TaskInv
<1>2. CASE Call
  BY <1>1, <1>2 DEF Call
<1>3. CASE Attempt
  BY <1>1, <1>3, AttemptTasks
<1>4. CASE Reconnected \/ Uploaded
  BY <1>1, <1>4, SimpleTasks
<1>5. CASE Escape
  BY <1>1, <1>5 DEF Escape, Stop
<1>6. CASE Decide
  BY <1>1, <1>6, DecideTasks
<1>7. CASE ItemFound
  BY <1>1, <1>7, ItemFoundTasks
<1>8. CASE Looked
  BY <1>1, <1>8, LookedTasks
<1>9. CASE RenameDone
  BY <1>1, <1>9, RenameDoneTasks
<1>10. CASE FolderSeen \/ FolderMade
  BY <1>1, <1>10, FolderTasks
<1>11. CASE KidsListed
  BY <1>1, <1>11, KidsTasks
<1>12. CASE Downloaded
  <2>1. call.op = "Download" /\ call.step = "done" /\ call.st = "Ok"
    BY <1>12 DEF Downloaded, AnsweredOk, Answered
  <2>2. call.data \in Whole
    BY <2>1 DEF UploadInv, TreeInv, IsFile, TreeOK
  <2>. QED  BY <1>1, <1>12, <2>2, DownloadedTasks
<1>13. CASE Deleted
  BY <1>1, <1>13, DeletedTasks
<1>14. CASE ResolveFileConflict
  BY <1>1, <1>14, ResolveTasks
<1>. QED  BY <1>2, <1>3, <1>4, <1>5, <1>6, <1>7, <1>8, <1>9, <1>10, <1>11, <1>12, <1>13, <1>14 DEF Engines

-----------------------------------------------------------------------------
(* The call of a task.                                                        *)

\* A call as it is started.
LEMMA NewCallIs ==
    ASSUME NEW op, NEW path, NEW to, NEW data
    PROVE  LET n == NewCall(op, path, to, data)
           IN  /\ DOMAIN n = CallFields /\ n.op = op /\ n.path = path /\ n.to = to /\ n.data = data
               /\ n.step = "start" /\ n.st = "Ok" /\ n.found = << >>
BY DEF NewCall, CallFields

CallCases(t) ==
    \/ CallOf(t) = NewCall("Stat", t.from, t.to, Folder) /\ t.op = "Item"
    \/ CallOf(t) = NewCall("Stat", t.to, t.to, Folder) /\ t.op \in {"Look", "Resolve", "Copy"}
    \/ CallOf(t) = NewCall("Mkdir", t.to, t.to, Folder) /\ t.op = "Mkdir"
    \/ CallOf(t) = NewCall("List", t.from, t.to, Folder) /\ t.op \in {"Kids", "Delete"}
    \/ CallOf(t) = NewCall("Delete", t.from, t.to, Folder) /\ t.op \in {"Remove", "Delete"}
    \/ CallOf(t) = NewCall("Delete", t.to, t.to, Folder) /\ t.op = "Rename" /\ t.exists
    \/ CallOf(t) = NewCall("Rename", t.from, t.to, Folder) /\ t.op = "Rename" /\ ~ t.exists
    \/ CallOf(t) = NewCall("Download", t.from, t.to, Folder) /\ t.op = "Write" /\ Downloads(t)
    \/ /\ CallOf(t) = NewCall("Upload", t.to, t.to, IF job.from = "local" THEN local[t.from] ELSE t.stage)
       /\ t.op = "Write" /\ ~ Downloads(t)
    \/ CallOf(t) = NewCall("Reconnect", t.to, t.to, Folder) /\ t.op = "Reconnect"

\* The call of each kind of task.
LEMMA CallIs ==
    ASSUME NEW t \in Tasks, t.op \notin {"Drop", "End"}
    PROVE  CallCases(t)
<1>1. t.op \in TaskOps
  BY DEF Tasks
<1>2. CASE t.op \in {"Item", "Look", "Resolve", "Copy", "Mkdir", "Kids", "Remove", "Reconnect"}
  <2>1. CASE t.op = "Item"
    BY <2>1, Zenon DEF CallOf, CallCases
  <2>2. CASE t.op = "Look"
    BY <2>2, Zenon DEF CallOf, CallCases
  <2>3. CASE t.op = "Resolve"
    BY <2>3, Zenon DEF CallOf, CallCases
  <2>4. CASE t.op = "Copy"
    BY <2>4, Zenon DEF CallOf, CallCases
  <2>5. CASE t.op = "Mkdir"
    BY <2>5, Zenon DEF CallOf, CallCases
  <2>6. CASE t.op = "Kids"
    BY <2>6, Zenon DEF CallOf, CallCases
  <2>7. CASE t.op = "Remove"
    BY <2>7, Zenon DEF CallOf, CallCases
  <2>8. CASE t.op = "Reconnect"
    BY <2>8, Zenon DEF CallOf, CallCases
  <2>. QED  BY <1>2, <2>1, <2>2, <2>3, <2>4, <2>5, <2>6, <2>7, <2>8
<1>3. CASE t.op = "Delete" /\ t.dir
  BY <1>3, Zenon DEF CallOf, CallCases
<1>4. CASE t.op = "Delete" /\ ~ t.dir
  BY <1>4, Zenon DEF CallOf, CallCases
<1>5. CASE t.op = "Rename" /\ t.exists
  BY <1>5, Zenon DEF CallOf, CallCases
<1>6. CASE t.op = "Rename" /\ ~ t.exists
  BY <1>6, Zenon DEF CallOf, CallCases
<1>7. CASE t.op = "Write" /\ Downloads(t)
  BY <1>7, Zenon DEF CallOf, CallCases
<1>8. CASE t.op = "Write" /\ ~ Downloads(t)
  BY <1>8, Zenon DEF CallOf, CallCases
<1>9. CASE t.op = "Delete"
  BY <1>3, <1>4, <1>9
<1>10. CASE t.op = "Rename"
  BY <1>5, <1>6, <1>10
<1>11. CASE t.op = "Write"
  BY <1>7, <1>8, <1>11
<1>. QED  BY <1>1, <1>2, <1>9, <1>10, <1>11 DEF TaskOps, CopyOps, DeleteOps

\* What of it the proofs use.
LEMMA CallHas ==
    ASSUME NEW t \in Tasks, t.op \notin {"Drop", "End"}
    PROVE  /\ DOMAIN CallOf(t) = CallFields /\ CallOf(t).step = "start" /\ CallOf(t).st = "Ok"
           /\ CallOf(t).found = << >> /\ CallOf(t).op \in CallOps
           /\ CallOf(t).path \in Named /\ CallOf(t).to \in Named
           /\ CallOf(t).op # "Upload" => CallOf(t).data = Folder
           /\ CallOf(t).op = "Upload" =>
                 /\ t.op = "Write" /\ ~ Downloads(t)
                 /\ CallOf(t).data = (IF job.from = "local" THEN local[t.from] ELSE t.stage)
           /\ t.op # "Write" => CallOf(t).op \notin {"Upload", "Download"}
           /\ CallOf(t).op = "List" => t.op \in {"Kids", "Delete"} /\ CallOf(t).path = t.from
           /\ CallOf(t).op = "Mkdir" => t.op = "Mkdir" /\ CallOf(t).path = t.to
           /\ CallOf(t).op = "Delete" => \/ t.op \in DeleteOps /\ CallOf(t).path = t.from
                                         \/ t.op = "Rename" /\ t.exists /\ CallOf(t).path = t.to
           /\ CallOf(t).op = "Rename" => t.op = "Rename" /\ ~ t.exists /\ CallOf(t).path = t.from /\ CallOf(t).to = t.to
           /\ CallOf(t).op = "Stat" => \/ t.op = "Item" /\ CallOf(t).path = t.from
                                       \/ t.op \in {"Look", "Resolve", "Copy"} /\ CallOf(t).path = t.to
<1>1. t.from \in Named /\ t.to \in Named
  BY DEF Tasks
<1>2. CASE CallOf(t) = NewCall("Stat", t.from, t.to, Folder) /\ t.op = "Item"
  BY <1>1, <1>2, NewCallIs DEF CallOps
<1>3. CASE CallOf(t) = NewCall("Stat", t.to, t.to, Folder) /\ t.op \in {"Look", "Resolve", "Copy"}
  BY <1>1, <1>3, NewCallIs DEF CallOps
<1>4. CASE CallOf(t) = NewCall("Mkdir", t.to, t.to, Folder) /\ t.op = "Mkdir"
  BY <1>1, <1>4, NewCallIs DEF CallOps
<1>5. CASE CallOf(t) = NewCall("List", t.from, t.to, Folder) /\ t.op \in {"Kids", "Delete"}
  BY <1>1, <1>5, NewCallIs DEF CallOps
<1>6. CASE CallOf(t) = NewCall("Delete", t.from, t.to, Folder) /\ t.op \in {"Remove", "Delete"}
  BY <1>1, <1>6, NewCallIs DEF CallOps, DeleteOps
<1>7. CASE CallOf(t) = NewCall("Delete", t.to, t.to, Folder) /\ t.op = "Rename" /\ t.exists
  BY <1>1, <1>7, NewCallIs DEF CallOps
<1>8. CASE CallOf(t) = NewCall("Rename", t.from, t.to, Folder) /\ t.op = "Rename" /\ ~ t.exists
  BY <1>1, <1>8, NewCallIs DEF CallOps
<1>9. CASE CallOf(t) = NewCall("Download", t.from, t.to, Folder) /\ t.op = "Write" /\ Downloads(t)
  BY <1>1, <1>9, NewCallIs DEF CallOps
<1>10. CASE /\ CallOf(t) = NewCall("Upload", t.to, t.to, IF job.from = "local" THEN local[t.from] ELSE t.stage)
            /\ t.op = "Write" /\ ~ Downloads(t)
  <2>1. PICK d : d = IF job.from = "local" THEN local[t.from] ELSE t.stage
    OBVIOUS
  <2>2. CallOf(t) = NewCall("Upload", t.to, t.to, d)
    BY <1>10, <2>1
  <2>. QED  BY <1>1, <1>10, <2>1, <2>2, NewCallIs DEF CallOps
<1>11. CASE CallOf(t) = NewCall("Reconnect", t.to, t.to, Folder) /\ t.op = "Reconnect"
  BY <1>1, <1>11, NewCallIs DEF CallOps
<1>. QED  BY <1>2, <1>3, <1>4, <1>5, <1>6, <1>7, <1>8, <1>9, <1>10, <1>11, CallIs DEF CallCases

\* A call in progress: its paths are names, its fields those of the task's call.
LEMMA CallNow ==
    ASSUME TaskInv, CallOK
    PROVE  /\ Now \in Tasks /\ Now.op \notin {"Drop", "End"} /\ DOMAIN call = CallFields
           /\ call.path \in Named /\ call.to \in Named /\ call.op \in CallOps
           /\ FoundOK(call.found) /\ call # NoCall
<1>1. todo # << >> /\ ~ Decided(Now)
  BY DEF CallOK
<1>2. Now \in Tasks
  BY <1>1, NowIs
<1>3. Now.op \notin {"Drop", "End"}
  BY <1>1 DEF Decided
<1>4. CallOf(Now).path \in Named /\ CallOf(Now).to \in Named /\ CallOf(Now).op \in CallOps
  BY <1>2, <1>3, CallHas
<1>5. call.op \in CallOps /\ call.path \in Named /\ call.to \in Named /\ FoundOK(call.found)
  BY <1>4 DEF CallOK
<1>6. call # NoCall
  BY <1>5 DEF NoCall, CallOps
<1>. QED  BY <1>2, <1>3, <1>5, <1>6 DEF CallOK, CallFields

\* The call of a task depends on the task, the job and the local tree.
LEMMA CallFrame ==
    ASSUME job' = job, todo' = todo
    PROVE  /\ local' = local => CallOf(Now)' = CallOf(Now)
           /\ SideOf(Now)' = SideOf(Now)
           /\ clean' = clean => (Decided(Now)' <=> Decided(Now))
<1>1. Now' = Now
  BY DEF Now
<1>2. local' = local => CallOf(Now)' = CallOf(Now)
  BY <1>1 DEF CallOf, Downloads, NewCall
<1>3. SideOf(Now)' = SideOf(Now)
  BY <1>1 DEF SideOf
<1>4. clean' = clean => (Decided(Now)' <=> Decided(Now))
  BY <1>1 DEF Decided, SameProvider
<1>. QED  BY <1>2, <1>3, <1>4

\* Nothing found is a listing.
LEMMA NoneFound == FoundOK(<< >>)
<1>1. DOMAIN << >> = {}
  OBVIOUS
<1>. QED  BY <1>1, FS_EmptySet DEF FoundOK

\* Part of a listing is one.
LEMMA SomeFound ==
    ASSUME NEW f, FoundOK(f), NEW S
    PROVE  FoundOK(Restrict(f, DOMAIN f \cap S))
<1>1. DOMAIN Restrict(f, DOMAIN f \cap S) = DOMAIN f \cap S
  BY DEF Restrict
<1>2. \A p \in DOMAIN f \cap S : Restrict(f, DOMAIN f \cap S)[p] = f[p]
  BY DEF Restrict
<1>3. IsFiniteSet(DOMAIN f \cap S)
  BY FS_Subset DEF FoundOK
<1>. QED  BY <1>1, <1>2, <1>3 DEF FoundOK

\* The listing of a folder says of everything in it whether it is a folder.
LEMMA ListingIs ==
    ASSUME NEW t, TreeOK(t), NEW d \in Path
    PROVE  /\ FoundOK(Listing(t, d)) /\ DOMAIN Listing(t, d) = Children(t, d)
           /\ \A p \in Children(t, d) : p \in DOMAIN t /\ p # << >> /\ Parent(p) = d
           /\ \A p \in Children(t, d) : Listing(t, d)[p] = (t[p] = Folder)
<1>1. DOMAIN Listing(t, d) = Children(t, d) /\ \A p \in Children(t, d) : Listing(t, d)[p] = (t[p] = Folder)
  BY DEF Listing
<1>2. Children(t, d) \subseteq DOMAIN t /\ IsFiniteSet(Children(t, d))
  BY FS_Subset DEF Children, TreeOK
<1>3. \A p \in Children(t, d) : p # << >>
  <2>1. \A p \in Children(t, d) : Len(p) = Len(d) + 1
    BY DEF Children
  <2>2. Len(d) \in Nat
    BY DEF Path
  <2>. QED  BY <2>1, <2>2
<1>4. \A p \in Children(t, d) : Parent(p) = d
  BY DEF Children
<1>5. \A p \in Children(t, d) : Listing(t, d)[p] \in BOOLEAN
  BY <1>1
<1>. QED  BY <1>1, <1>2, <1>3, <1>4, <1>5 DEF FoundOK, TreeOK

\* What the session found.
LEMMA FoundNext ==
    ASSUME TaskInv, TreeInv, CallOK, Session
    PROVE  /\ FoundOK(call'.found)
           /\ call'.op = "Stat" /\ call'.step = "done" /\ call'.st = "Ok" => call'.path \in DOMAIN call'.found
           /\ call'.op = "List" => \A p \in DOMAIN call'.found : p # << >> /\ Parent(p) = call'.path
<1>0. DOMAIN call = CallFields /\ call.path \in Named /\ FoundOK(call.found)
  BY CallNow
<1>1. SameCall /\ call.step # "done"
  BY <1>0, SessionCall
<1>2. CASE FsStatCached
  <2>1. call'.found = Restrict(cache.list, DOMAIN cache.list \cap {call.path}) /\ call.op = "Stat"
        /\ call'.st = (IF call.path \in DOMAIN cache.list THEN "Ok" ELSE "NotFound")
    BY <1>0, <1>2, StatCachedCall DEF FsStatCached, At
  <2>2. FoundOK(call'.found)
    BY <2>1, SomeFound DEF TreeInv
  <2>3. DOMAIN call'.found = DOMAIN cache.list \cap {call.path}
    BY <2>1 DEF Restrict
  <2>. QED  BY <1>1, <2>1, <2>2, <2>3 DEF SameCall
<1>3. CASE ListFolder
  <2>1. ListedDir \in Path
    BY <1>0, ParentIs DEF ListedDir, Named, Path
  <2>2. /\ FoundOK(Listing(server.tree, ListedDir))
        /\ \A p \in DOMAIN Listing(server.tree, ListedDir) : p # << >> /\ Parent(p) = ListedDir
    BY <2>1, ListingIs DEF TreeInv
  <2>3. FoundOK(Mine)
    BY <2>2, SomeFound DEF Mine
  <2>4. CASE call'.found = Mine /\ call'.st = (IF call.op = "Stat" /\ Mine = << >> THEN "NotFound" ELSE "Ok")
    <3>1. CASE call.op = "List"
      <4>1. Mine = Listing(server.tree, ListedDir) /\ ListedDir = call.path
        BY <3>1 DEF Mine, ListedDir
      <4>. QED  BY <1>1, <2>2, <2>3, <2>4, <3>1, <4>1 DEF SameCall
    <3>2. CASE call.op = "Stat"
      <4>1. Mine = Restrict(Listing(server.tree, ListedDir), DOMAIN Listing(server.tree, ListedDir) \cap {call.path})
        BY <3>2 DEF Mine
      <4>2. DOMAIN Mine = DOMAIN Listing(server.tree, ListedDir) \cap {call.path} /\ Mine = [p \in DOMAIN Mine |-> Mine[p]]
        BY <4>1 DEF Restrict
      <4>3. ASSUME call.path \notin DOMAIN Mine PROVE Mine = << >>
        <5>1. DOMAIN Mine = {}
          BY <4>2, <4>3
        <5>. QED  BY <4>2, <5>1
      <4>. QED  BY <1>1, <2>3, <2>4, <3>2, <4>3 DEF SameCall
    <3>. QED  BY <1>0, <1>3, <3>1, <3>2, ListFolderCall
  <2>5. CASE call'.found = call.found /\ (call'.step = "offer" \/ call'.st # "Ok")
    BY <1>0, <1>1, <2>5 DEF SameCall, CallOK
  <2>. QED  BY <1>0, <1>3, <2>4, <2>5, ListFolderCall
<1>4. CASE OfferReconnect
  BY <1>0, <1>1, <1>4, OfferCall DEF SameCall, CallOK
<1>5. CASE FsReconnect \/ FsDelete \/ FsMakeDirectory \/ FsRename
  BY <1>0, <1>1, <1>5, AnsweredCall DEF SameCall
<1>6. CASE FsDownloadToFile
  BY <1>0, <1>1, <1>6, DownloadCall DEF SameCall
<1>7. CASE UploadPart \/ PlacePart \/ ClearTarget \/ UndoPart
  BY <1>0, <1>1, <1>7, UploadCall DEF SameCall
<1>. QED  BY <1>2, <1>3, <1>4, <1>5, <1>6, <1>7 DEF Session

\* A step of the session leaves the call the current task's.
LEMMA SessionCallOK ==
    ASSUME TaskInv, TreeInv, CallOK, Session, job' = job, todo' = todo, local' = local, clean' = clean
    PROVE  CallOK'
<1>1. DOMAIN call = CallFields
  BY CallNow
<1>2. SameCall /\ (call.op # "Download" => call'.data = call.data) /\ call.step # "done"
  BY <1>1, SessionCall
<1>3. CallOf(Now)' = CallOf(Now) /\ SideOf(Now)' = SideOf(Now) /\ (Decided(Now)' <=> Decided(Now))
  BY CallFrame
<1>4. /\ call'.op = CallOf(Now)'.op /\ call'.path = CallOf(Now)'.path /\ call'.to = CallOf(Now)'.to
      /\ call'.op # "Download" => call'.data = CallOf(Now)'.data
      /\ SideOf(Now)' # "local"
  BY <1>2, <1>3 DEF CallOK, SameCall
<1>5. FoundOK(call'.found)
  BY FoundNext
<1>6. call'.op = "Stat" /\ call'.step = "done" /\ call'.st = "Ok" => call'.path \in DOMAIN call'.found
  BY FoundNext
<1>7. call'.op = "List" => \A p \in DOMAIN call'.found : p # << >> /\ Parent(p) = call'.path
  BY FoundNext
<1>8. DOMAIN call' = {"op", "path", "to", "data", "step", "st", "found", "blind"}
  BY <1>2 DEF SameCall, CallFields
<1>9. todo' # << >> /\ ~ Decided(Now)'
  BY <1>3 DEF CallOK
<1>. QED  BY <1>4, <1>5, <1>6, <1>7, <1>8, <1>9 DEF CallOK, FoundOK

\* The local disk's answer.
LEMMA LocalAnswer ==
    ASSUME NEW c, DOMAIN c = CallFields, c.st = "Ok", c.found = << >>, LocalCall(c)
    PROVE  /\ DOMAIN call' = CallFields /\ call'.op = c.op /\ call'.path = c.path /\ call'.to = c.to
           /\ call'.data = c.data /\ call'.step = "done"
           /\ \/ LocalCan(c) /\ call'.st = "Ok" /\ call'.found = LocalFound(c) /\ local' = LocalAfter(c)
              \/ ~ LocalCan(c) /\ call'.st = "NotFound" /\ call'.found = << >> /\ local' = local
              \/ LocalCan(c) /\ call'.st = "Failed" /\ call'.found = << >> /\ call'.blind /\ local' = local
<1>1. CASE LocalCan(c) /\ call' = [c EXCEPT !.step = "done", !.found = LocalFound(c)] /\ local' = LocalAfter(c)
  <2>1. PICK f : f = LocalFound(c)
    OBVIOUS
  <2>2. call' = [c EXCEPT !.step = "done", !.found = f]
    BY <1>1, <2>1
  <2>3. /\ DOMAIN call' = CallFields /\ call'.op = c.op /\ call'.path = c.path /\ call'.to = c.to
        /\ call'.data = c.data /\ call'.step = "done" /\ call'.st = c.st /\ call'.found = f
    BY <2>2 DEF CallFields
  <2>. QED  BY <1>1, <2>1, <2>3
<1>2. CASE ~ LocalCan(c) /\ call' = [c EXCEPT !.step = "done", !.st = "NotFound"] /\ local' = local
  BY <1>2, CallWith
<1>3. CASE LocalCan(c) /\ call' = [c EXCEPT !.step = "done", !.st = "Failed", !.blind = TRUE] /\ local' = local
  <2>1. /\ DOMAIN call' = CallFields /\ call'.op = c.op /\ call'.path = c.path /\ call'.to = c.to
        /\ call'.data = c.data /\ call'.step = "done" /\ call'.st = "Failed" /\ call'.found = c.found /\ call'.blind
    BY <1>3, CallWith
  <2>. QED  BY <1>3, <2>1
<1>. QED  BY <1>1, <1>2, <1>3 DEF LocalCall

\* What a call of the local provider finds.
LEMMA LocalFoundIs ==
    ASSUME TreeOK(local), NEW c, c.path \in Named
    PROVE  /\ FoundOK(LocalFound(c))
           /\ c.op = "Stat" => DOMAIN LocalFound(c) = {c.path} /\ LocalFound(c)[c.path] = IsFolder(local, c.path)
           /\ c.op = "List" => /\ LocalFound(c) = Listing(local, c.path)
                               /\ \A p \in DOMAIN LocalFound(c) : p # << >> /\ Parent(p) = c.path
<1>1. c.path \in Path
  BY DEF Named
<1>2. CASE c.op = "List"
  <2>1. LocalFound(c) = Listing(local, c.path)
    BY <1>2, Zenon DEF LocalFound
  <2>. QED  BY <1>1, <1>2, <2>1, ListingIs
<1>3. CASE c.op = "Stat"
  <2>1. LocalFound(c) = [p \in {c.path} |-> IsFolder(local, p)]
    BY <1>3, Zenon DEF LocalFound
  <2>2. DOMAIN LocalFound(c) = {c.path} /\ LocalFound(c)[c.path] = IsFolder(local, c.path)
    BY <2>1
  <2>3. IsFolder(local, c.path) \in BOOLEAN
    BY DEF IsFolder
  <2>4. IsFiniteSet({c.path})
    BY FS_Singleton
  <2>. QED  BY <1>1, <1>3, <2>2, <2>3, <2>4 DEF FoundOK
<1>4. CASE c.op \notin {"List", "Stat"}
  <2>1. LocalFound(c) = << >>
    BY <1>4, Zenon DEF LocalFound
  <2>. QED  BY <1>4, <2>1, NoneFound
<1>. QED  BY <1>2, <1>3, <1>4

\* A call that begins, or that the local disk answered.
LEMMA CallBegins ==
    ASSUME TaskInv, TreeInv, Call
    PROVE  /\ job' = job /\ todo' = todo /\ todo # << >> /\ ~ Decided(Now) /\ Now \in Tasks
           /\ Now.op \notin {"Drop", "End"} /\ call = NoCall /\ UNCHANGED <<sessionVars, clean, waived>>
           /\ \/ SideOf(Now) # "local" /\ call' = CallOf(Now) /\ local' = local
              \/ SideOf(Now) = "local" /\ Now.op # "Write" /\ LocalCall(CallOf(Now))
<1>1. todo # << >> /\ ~ Decided(Now) /\ job' = job /\ todo' = todo /\ call = NoCall /\ UNCHANGED <<sessionVars, clean, waived>>
  BY DEF Call
<1>2. Now \in Tasks
  BY <1>1, NowIs
<1>3. Now.op \notin {"Drop", "End"}
  BY <1>1 DEF Decided
<1>4. Now.op = "Write" => SideOf(Now) = "remote"
  BY Zenon DEF SideOf
<1>5. CASE SideOf(Now) = "local"
  BY <1>1, <1>2, <1>3, <1>4, <1>5 DEF Call
<1>6. CASE SideOf(Now) # "local"
  BY <1>1, <1>2, <1>3, <1>6 DEF Call
<1>. QED  BY <1>5, <1>6

\* Only a write's call depends on the local tree.
LEMMA CallOfNext ==
    ASSUME job' = job, todo' = todo, Now \in Tasks, Now.op \notin {"Drop", "End", "Write"}
    PROVE  CallOf(Now)' = CallOf(Now)
<1>1. Now' = Now
  BY DEF Now
<1>2. Now.op \in {"Item", "Look", "Resolve", "Copy", "Mkdir", "Kids", "Remove", "Reconnect", "Delete", "Rename"}
  BY DEF Tasks, TaskOps, CopyOps, DeleteOps
<1>3. CASE Now.op = "Item"
  BY <1>1, <1>3, Zenon DEF CallOf, NewCall
<1>4. CASE Now.op \in {"Look", "Resolve", "Copy"}
  BY <1>1, <1>4, Zenon DEF CallOf, NewCall
<1>5. CASE Now.op = "Mkdir"
  BY <1>1, <1>5, Zenon DEF CallOf, NewCall
<1>6. CASE Now.op = "Kids"
  BY <1>1, <1>6, Zenon DEF CallOf, NewCall
<1>7. CASE Now.op = "Delete" /\ Now.dir
  BY <1>1, <1>7, Zenon DEF CallOf, NewCall
<1>8. CASE Now.op = "Delete" /\ ~ Now.dir
  BY <1>1, <1>8, Zenon DEF CallOf, NewCall
<1>9. CASE Now.op = "Remove"
  BY <1>1, <1>9, Zenon DEF CallOf, NewCall
<1>10. CASE Now.op = "Rename" /\ Now.exists
  BY <1>1, <1>10, Zenon DEF CallOf, NewCall
<1>11. CASE Now.op = "Rename" /\ ~ Now.exists
  BY <1>1, <1>11, Zenon DEF CallOf, NewCall
<1>12. CASE Now.op = "Reconnect"
  BY <1>1, <1>12, Zenon DEF CallOf, NewCall
<1>13. CASE Now.op = "Delete"
  BY <1>7, <1>8, <1>13
<1>14. CASE Now.op = "Rename"
  BY <1>10, <1>11, <1>14
<1>. QED  BY <1>2, <1>3, <1>4, <1>5, <1>6, <1>9, <1>12, <1>13, <1>14

\* A call just started is the current task's.
LEMMA CallCallOK ==
    ASSUME TaskInv, TreeInv, Call
    PROVE  CallOK'
<1>1. /\ job' = job /\ todo' = todo /\ todo # << >> /\ ~ Decided(Now) /\ Now \in Tasks
      /\ Now.op \notin {"Drop", "End"} /\ clean' = clean
  BY CallBegins DEF sessionVars
<1>2. todo' # << >> /\ ~ Decided(Now)' /\ SideOf(Now)' = SideOf(Now)
  BY <1>1, CallFrame
<1>3. CASE SideOf(Now) # "local" /\ call' = CallOf(Now) /\ local' = local
  <2>1. CallOf(Now)' = CallOf(Now)
    BY <1>1, <1>3, CallFrame
  <2>2. /\ DOMAIN call' = CallFields /\ call'.step = "start" /\ call'.st = "Ok" /\ call'.found = << >>
    BY <1>1, <1>3, CallHas
  <2>3. FoundOK(<< >>) /\ DOMAIN << >> = {}
    BY NoneFound
  <2>4. FoundOK(call'.found) /\ DOMAIN call'.found = {}
    BY <2>2, <2>3
  <2>5. SideOf(Now)' # "local"
    BY <1>2, <1>3
  <2>. QED  BY <1>2, <1>3, <2>1, <2>2, <2>4, <2>5 DEF CallOK, FoundOK, CallFields
<1>4. CASE SideOf(Now) = "local" /\ Now.op # "Write" /\ LocalCall(CallOf(Now))
  <2>1. CallOf(Now)' = CallOf(Now)
    BY <1>1, <1>4, CallOfNext
  <2>2. /\ DOMAIN CallOf(Now) = CallFields /\ CallOf(Now).st = "Ok" /\ CallOf(Now).found = << >>
        /\ CallOf(Now).path \in Named
    BY <1>1, CallHas
  <2>3. PICK c : c = CallOf(Now)
    OBVIOUS
  <2>4. /\ DOMAIN call' = CallFields /\ call'.op = c.op /\ call'.path = c.path /\ call'.to = c.to
        /\ call'.data = c.data /\ call'.step = "done"
        /\ \/ call'.st = "Ok" /\ call'.found = LocalFound(c)
           \/ call'.st # "Ok" /\ call'.found = << >>
    BY <1>4, <2>2, <2>3, LocalAnswer
  <2>5. FoundOK(<< >>) /\ DOMAIN << >> = {}
    BY NoneFound
  <2>6. /\ FoundOK(LocalFound(c))
        /\ c.op = "Stat" => DOMAIN LocalFound(c) = {c.path}
        /\ c.op = "List" => \A p \in DOMAIN LocalFound(c) : p # << >> /\ Parent(p) = c.path
    BY <2>2, <2>3, LocalFoundIs DEF TreeInv
  <2>7. /\ FoundOK(call'.found)
        /\ call'.op = "Stat" /\ call'.step = "done" /\ call'.st = "Ok" => call'.path \in DOMAIN call'.found
        /\ call'.op = "List" => \A p \in DOMAIN call'.found : p # << >> /\ Parent(p) = call'.path
    BY <2>4, <2>5, <2>6
  <2>. QED  BY <1>2, <2>1, <2>3, <2>4, <2>7 DEF CallOK, FoundOK, CallFields
<1>. QED  BY <1>3, <1>4, CallBegins

\* A step of the session or of another client leaves the engine alone.
Outside == Session \/ OtherClient \/ FsClose

\* What each step is.
LEMMA StepIs ==
    ASSUME [Next]_vars
    PROVE  \/ Engines
           \/ Session /\ UNCHANGED OutsideEngine
           \/ OtherClient /\ UNCHANGED OutsideEngine
           \/ FsClose /\ todo = << >> /\ UNCHANGED OutsideEngine
           \/ UNCHANGED vars
BY DEF Next

\* The two ways in which no call is in progress.
LEMMA NoCallIs ==
    /\ NoCall.op = "None" /\ DOMAIN NoCall = {"op"} /\ DOMAIN [op |-> "Closed"] = {"op"}
    /\ [op |-> "Closed"].op = "Closed" /\ NoCall # [op |-> "Closed"]
BY DEF NoCall

\* The session works only for the current task.
LEMMA SessionIsCall ==
    ASSUME TaskInv, Session
    PROVE  CallOK /\ todo # << >>
<1>1. call # NoCall /\ call # [op |-> "Closed"]
  <2>1. call.op \in CallOps
    BY DEF Session, FsStatCached, ListFolder, OfferReconnect, FsReconnect, FsDelete, FsMakeDirectory,
           FsRename, FsDownloadToFile, UploadPart, PlacePart, ClearTarget, UndoPart, At, CallOps
  <2>. QED  BY <2>1, NoCallIs DEF CallOps
<1>. QED  BY <1>1 DEF TaskInv, Idle, CallOK

\* A call stays the current task's while nothing changes.
LEMMA CallOKSame ==
    ASSUME CallOK, job' = job, todo' = todo, local' = local, clean' = clean, call' = call
    PROVE  CallOK'
<1>1. CallOf(Now)' = CallOf(Now) /\ SideOf(Now)' = SideOf(Now) /\ (Decided(Now)' <=> Decided(Now))
  BY CallFrame
<1>. QED  BY <1>1 DEF CallOK, FoundOK

\* A local write that fails leaves the call to be answered.
LEMMA WriteFailsCallOK ==
    ASSUME TaskInv, WriteFails
    PROVE  CallOK' /\ job' = job /\ todo' = todo /\ local' = local
<1>1. CallOK /\ call.step = "done" /\ Now.op = "Write"
  BY AnsweredIs DEF WriteFails, Downloaded, AnsweredOk
<1>2. job' = job /\ todo' = todo /\ local' = local /\ clean' = clean
  BY DEF WriteFails, Downloaded, Engine
<1>3. CallOf(Now)' = CallOf(Now) /\ SideOf(Now)' = SideOf(Now) /\ (Decided(Now)' <=> Decided(Now))
  BY <1>2, CallFrame
<1>4. /\ DOMAIN call' = CallFields /\ call'.op = call.op /\ call'.path = call.path /\ call'.to = call.to
      /\ call'.data = call.data /\ call'.step = call.step /\ call'.st = "Failed" /\ call'.found = call.found
  <2>1. DOMAIN call = CallFields /\ call' = [call EXCEPT !.st = "Failed"]
    BY <1>1, CallNow DEF WriteFails
  <2>. QED  BY <2>1 DEF CallFields
<1>. QED  BY <1>1, <1>2, <1>3, <1>4 DEF CallOK, FoundOK, CallFields

\* Every step keeps the tasks good and in order, and the call the current task's.
LEMMA TaskNext ==
    ASSUME TaskInv, TreeInv, UploadInv, [Next]_vars
    PROVE  TaskInv'
<1>1. ASSUME job' = job, todo' \in Seq(GoodTasks), Ordered(todo'), Idle' \/ CallOK'
      PROVE  TaskInv'
  BY <1>1, GoodFrame, OrderedFrame DEF TaskInv
<1>2. ASSUME job' = job, todo' = todo, Idle' \/ CallOK'
      PROVE  TaskInv'
  BY <1>1, <1>2 DEF TaskInv
<1>3. CASE Engines
  <2>1. job' = job /\ (Call \/ call' = NoCall \/ WriteFails)
    BY <1>3, EngineStep
  <2>2. todo' \in Seq(GoodTasks) /\ Ordered(todo')
    BY <1>3, EngineTasks
  <2>3. Idle' \/ CallOK'
    BY <2>1, CallCallOK, WriteFailsCallOK DEF Idle, NoCall
  <2>. QED  BY <1>1, <2>1, <2>2, <2>3
<1>4. CASE Session /\ UNCHANGED OutsideEngine
  <2>1. CallOK
    BY <1>4, SessionIsCall
  <2>2. CallOK'
    BY <1>4, <2>1, SessionCallOK DEF OutsideEngine
  <2>. QED  BY <1>2, <1>4, <2>2 DEF OutsideEngine
<1>5. CASE (OtherClient /\ UNCHANGED OutsideEngine) \/ UNCHANGED vars
  <2>1. job' = job /\ todo' = todo /\ local' = local /\ clean' = clean /\ call' = call
    BY <1>5 DEF OutsideEngine, OtherClient, vars
  <2>2. Idle' \/ CallOK'
    <3>1. CASE Idle
      BY <2>1, <3>1 DEF Idle, NoCall
    <3>2. CASE CallOK
      BY <2>1, <3>2, CallOKSame
    <3>. QED  BY <3>1, <3>2 DEF TaskInv
  <2>. QED  BY <1>2, <2>1, <2>2
<1>6. CASE FsClose /\ todo = << >> /\ UNCHANGED OutsideEngine
  <2>1. Idle'
    BY <1>6 DEF FsClose, Idle, OutsideEngine
  <2>. QED  BY <1>2, <1>6, <2>1 DEF OutsideEngine
<1>. QED  BY <1>3, <1>4, <1>5, <1>6, StepIs

-----------------------------------------------------------------------------
(* The trees and the cache stay what they are.                                *)

\* What CacheUpsert changes.
LEMMA UpsertIs ==
    ASSUME DOMAIN cache = {"dir", "list"}, FoundOK(cache.list), NEW p \in Path, NEW b
    PROVE  /\ DOMAIN CacheUpsert(p, b) = {"dir", "list"} /\ CacheUpsert(p, b).dir = cache.dir
           /\ b \in BOOLEAN => FoundOK(CacheUpsert(p, b).list)
           /\ cache.dir # Parent(p) => CacheUpsert(p, b).list = cache.list
           /\ cache.dir = Parent(p) => /\ DOMAIN CacheUpsert(p, b).list = DOMAIN cache.list \cup {p}
                                       /\ CacheUpsert(p, b).list[p] = b
                                       /\ \A q \in DOMAIN cache.list \ {p} : CacheUpsert(p, b).list[q] = cache.list[q]
<1>1. CASE cache.dir # Parent(p)
  BY <1>1 DEF CacheUpsert
<1>2. CASE cache.dir = Parent(p)
  <2>1. PICK list : list = [q \in DOMAIN cache.list \cup {p} |-> IF q = p THEN b ELSE cache.list[q]]
    OBVIOUS
  <2>2. CacheUpsert(p, b) = [cache EXCEPT !.list = list]
    BY <1>2, <2>1 DEF CacheUpsert
  <2>3. /\ DOMAIN CacheUpsert(p, b) = {"dir", "list"} /\ CacheUpsert(p, b).dir = cache.dir
        /\ CacheUpsert(p, b).list = list
    BY <2>2
  <2>4. DOMAIN list = DOMAIN cache.list \cup {p} /\ list[p] = b /\ \A q \in DOMAIN cache.list \ {p} : list[q] = cache.list[q]
    BY <2>1
  <2>5. IsFiniteSet(DOMAIN cache.list \cup {p})
    BY FS_AddElement DEF FoundOK
  <2>6. b \in BOOLEAN => FoundOK(list)
    BY <2>4, <2>5 DEF FoundOK
  <2>. QED  BY <1>2, <2>3, <2>4, <2>6
<1>. QED  BY <1>1, <1>2

\* What CacheRemove changes.
LEMMA RemoveIs ==
    ASSUME DOMAIN cache = {"dir", "list"}, FoundOK(cache.list), NEW p
    PROVE  /\ DOMAIN CacheRemove(p) = {"dir", "list"} /\ CacheRemove(p).dir = cache.dir
           /\ FoundOK(CacheRemove(p).list)
           /\ cache.dir # Parent(p) => CacheRemove(p).list = cache.list
           /\ cache.dir = Parent(p) => /\ DOMAIN CacheRemove(p).list = DOMAIN cache.list \ {p}
                                       /\ \A q \in DOMAIN cache.list \ {p} : CacheRemove(p).list[q] = cache.list[q]
<1>1. CASE cache.dir # Parent(p)
  BY <1>1 DEF CacheRemove
<1>2. CASE cache.dir = Parent(p)
  <2>1. PICK list : list = Restrict(cache.list, DOMAIN cache.list \ {p})
    OBVIOUS
  <2>2. CacheRemove(p) = [cache EXCEPT !.list = list]
    BY <1>2, <2>1 DEF CacheRemove
  <2>3. /\ DOMAIN CacheRemove(p) = {"dir", "list"} /\ CacheRemove(p).dir = cache.dir
        /\ CacheRemove(p).list = list
    BY <2>2
  <2>4. DOMAIN list = DOMAIN cache.list \ {p} /\ \A q \in DOMAIN cache.list \ {p} : list[q] = cache.list[q]
    BY <2>1 DEF Restrict
  <2>5. IsFiniteSet(DOMAIN cache.list \ {p})
    BY FS_RemoveElement DEF FoundOK
  <2>6. FoundOK(list)
    BY <2>4, <2>5 DEF FoundOK
  <2>. QED  BY <1>2, <2>3, <2>4, <2>6
<1>. QED  BY <1>1, <1>2

\* The empty cache.
LEMMA NoCacheIs ==
    /\ DOMAIN NoCache = {"dir", "list"} /\ NoCache.dir = NoPath /\ NoCache.list = << >>
    /\ FoundOK(NoCache.list) /\ DOMAIN NoCache.list = {}
BY NoneFound DEF NoCache

\* The cache stays a listing.
LEMMA CacheStep ==
    ASSUME TaskInv, TreeInv, Session
    PROVE  DOMAIN cache' = {"dir", "list"} /\ FoundOK(cache'.list)
<1>0. CallOK /\ DOMAIN call = CallFields /\ call.path \in Named /\ call.path \in Path
      /\ DOMAIN cache = {"dir", "list"} /\ FoundOK(cache.list)
  BY SessionIsCall, CallNow DEF TreeInv, Named
<1>1. CASE FsStatCached \/ OfferReconnect \/ FsDownloadToFile \/ UploadPart \/ ClearTarget \/ UndoPart
  <2>1. cache' = cache
    BY <1>1 DEF FsStatCached, OfferReconnect, FsDownloadToFile, UploadPart, ClearTarget, NotPlaced, UndoPart
  <2>. QED  BY <1>0, <2>1
<1>2. CASE ListFolder
  <2>1. CASE cache' = cache
    BY <1>0, <2>1
  <2>2. CASE cache' = [dir |-> ListedDir, list |-> Listing(server.tree, ListedDir)]
    <3>1. ListedDir \in Path
      BY <1>0, ParentIs DEF ListedDir, Named, Path
    <3>2. FoundOK(Listing(server.tree, ListedDir))
      BY <3>1, ListingIs DEF TreeInv
    <3>. QED  BY <2>2, <3>2
  <2>. QED  BY <1>0, <1>2, <2>1, <2>2, ListFolderCall
<1>3. CASE FsReconnect \/ FsRename
  <2>1. cache' = cache \/ cache' = NoCache
    BY <1>3 DEF FsReconnect, FsRename
  <2>. QED  BY <1>0, <2>1, NoCacheIs
<1>4. CASE FsDelete
  <2>1. cache' = cache \/ cache' = CacheRemove(call.path)
    BY <1>4 DEF FsDelete, CacheAfterDelete
  <2>2. DOMAIN CacheRemove(call.path) = {"dir", "list"} /\ FoundOK(CacheRemove(call.path).list)
    BY <1>0, RemoveIs
  <2>3. CASE cache' = cache
    BY <1>0, <2>3
  <2>4. CASE cache' = CacheRemove(call.path)
    BY <2>2, <2>4
  <2>. QED  BY <2>1, <2>3, <2>4
<1>5. CASE FsMakeDirectory \/ PlacePart
  <2>1. cache' = cache \/ \E b \in BOOLEAN : cache' = CacheUpsert(call.path, b)
    BY <1>5 DEF FsMakeDirectory, PlacePart, Placed, NotPlaced
  <2>2. \A b \in BOOLEAN : DOMAIN CacheUpsert(call.path, b) = {"dir", "list"} /\ FoundOK(CacheUpsert(call.path, b).list)
    BY <1>0, UpsertIs
  <2>3. CASE cache' = cache
    BY <1>0, <2>3
  <2>4. CASE \E b \in BOOLEAN : cache' = CacheUpsert(call.path, b)
    <3>1. PICK b \in BOOLEAN : cache' = CacheUpsert(call.path, b)
      BY <2>4
    <3>2. DOMAIN CacheUpsert(call.path, b) = {"dir", "list"} /\ FoundOK(CacheUpsert(call.path, b).list)
      BY <2>2
    <3>. QED  BY <3>1, <3>2
  <2>. QED  BY <2>1, <2>3, <2>4
<1>. QED  BY <1>1, <1>2, <1>3, <1>4, <1>5 DEF Session

\* A tree with something put in is a tree.
LEMMA WithOK ==
    ASSUME NEW t, TreeOK(t), NEW p \in Path, NEW c \in Whole
    PROVE  TreeOK(With(t, p, c))
<1>1. DOMAIN With(t, p, c) = DOMAIN t \cup {p} /\ With(t, p, c)[p] = c
      /\ \A q \in DOMAIN t \ {p} : With(t, p, c)[q] = t[q]
  BY DEF With
<1>2. IsFiniteSet(DOMAIN t \cup {p})
  BY FS_AddElement DEF TreeOK
<1>. QED  BY <1>1, <1>2 DEF TreeOK

\* A tree with something taken away is a tree.
LEMMA WithoutOK ==
    ASSUME NEW t, TreeOK(t), NEW p
    PROVE  TreeOK(Without(t, p))
<1>1. DOMAIN Without(t, p) = DOMAIN t \ {p} /\ \A q \in DOMAIN t \ {p} : Without(t, p)[q] = t[q]
  BY WithoutIs
<1>2. IsFiniteSet(DOMAIN t \ {p})
  BY FS_RemoveElement DEF TreeOK
<1>. QED  BY <1>1, <1>2 DEF TreeOK

\* A tree with something renamed is a tree.
LEMMA RenamedOK ==
    ASSUME NEW t, TreeOK(t), NEW from \in Path, NEW to \in Path
    PROVE  TreeOK(Renamed(t, from, to))
<1>1. LET r == Renamed(t, from, to)
      IN  /\ DOMAIN r \subseteq Path /\ IsFiniteSet(DOMAIN r)
          /\ \A q \in DOMAIN r : \E x \in DOMAIN t : r[q] = t[x]
  BY RenamedIs DEF TreeOK, Path
<1>. QED  BY <1>1 DEF TreeOK

\* A part that is put in its place is all of the file.
LEMMA PlaceIsUpload ==
    ASSUME UploadInv, PlacePart, HasPart(call.path)
    PROVE  server.parts[call.path] = call.data /\ call.data \in Whole \ {Folder}
BY DEF UploadInv, PlacePart

\* Every step leaves a tree on the server.
LEMMA ServerStep ==
    ASSUME TaskInv, TreeInv, UploadInv, Outside
    PROVE  DOMAIN server' = {"tree", "parts"} /\ TreeOK(server'.tree)
<1>0. DOMAIN server = ServerFields /\ TreeOK(server.tree)
  BY DEF TreeInv, ServerFields
<1>1. Session => call.path \in Path /\ call.to \in Path
  BY SessionIsCall, CallNow DEF Named
<1>2. DOMAIN server' = ServerFields
  BY <1>0, TreeStep DEF Outside
<1>3. CASE server'.tree = server.tree
  BY <1>0, <1>2, <1>3 DEF ServerFields
<1>4. CASE FsMakeDirectory /\ server'.tree = With(server.tree, call.path, Folder)
  BY <1>0, <1>1, <1>2, <1>4, WithOK, Marks DEF ServerFields, Session
<1>5. CASE server'.tree = Without(server.tree, call.path)
  BY <1>0, <1>2, <1>5, WithoutOK DEF ServerFields
<1>6. CASE PlacePart /\ HasPart(call.path) /\ server'.tree = With(server.tree, call.path, server.parts[call.path])
  <2>1. server.parts[call.path] \in Whole
    BY <1>6, PlaceIsUpload
  <2>. QED  BY <1>0, <1>1, <1>2, <1>6, <2>1, WithOK DEF ServerFields, Session
<1>7. CASE FsRename /\ server'.tree = Renamed(server.tree, call.path, call.to)
  BY <1>0, <1>1, <1>2, <1>7, RenamedOK DEF ServerFields, Session
<1>8. CASE \E p \in OtherPaths : server'.tree = With(server.tree, p, Other)
  <2>1. PICK p \in OtherPaths : server'.tree = With(server.tree, p, Other)
    BY <1>8
  <2>2. p \in Path
    BY RemoteAssumption DEF Path
  <2>. QED  BY <1>0, <1>2, <2>1, <2>2, WithOK, Marks DEF ServerFields
<1>. QED  BY <1>0, <1>3, <1>4, <1>5, <1>6, <1>7, <1>8, TreeStep DEF Outside

\* And files as its parts.
LEMMA PartsNext ==
    ASSUME TaskInv, TreeInv, UploadInv, Outside
    PROVE  PartsOK(server'.parts)
<1>0. DOMAIN server = ServerFields /\ PartsOK(server.parts)
  BY DEF TreeInv, ServerFields
<1>1. CASE server'.parts = server.parts
  BY <1>0, <1>1
<1>2. CASE UploadPart /\ \E c \in {call.data, Partial} : server'.parts = With(server.parts, call.path, c)
  <2>1. PICK c \in {call.data, Partial} : server'.parts = With(server.parts, call.path, c)
    BY <1>2
  <2>2. call.path \in Path
    BY <1>2, SessionIsCall, CallNow DEF Named, Session
  <2>3. call.data \in Whole \ {Folder}
    BY <1>2 DEF UploadPart, At, UploadInv
  <2>4. c \in Data \ {Folder}
    BY <2>3, Marks
  <2>5. DOMAIN server'.parts = DOMAIN server.parts \cup {call.path} /\ server'.parts[call.path] = c
        /\ \A q \in DOMAIN server.parts \ {call.path} : server'.parts[q] = server.parts[q]
    BY <2>1 DEF With
  <2>. QED  BY <1>0, <2>2, <2>4, <2>5 DEF PartsOK
<1>3. CASE server'.parts = Without(server.parts, call.path)
  BY <1>0, <1>3 DEF PartsOK, Without, Restrict
<1>4. CASE \E gone : server'.parts = Restrict(server.parts, DOMAIN server.parts \ gone)
  BY <1>0, <1>4 DEF PartsOK, Restrict
<1>. QED  BY <1>0, <1>1, <1>2, <1>3, <1>4, PartsStep DEF Outside

-----------------------------------------------------------------------------
(* Uploads.                                                                   *)

\* Every part file is remembered, or its removal was tried.
LEMMA PartsKnown ==
    ASSUME TaskInv, TreeInv, UploadInv, Outside
    PROVE  DOMAIN server'.parts \subseteq pendingParts' \cup stray'
<1>0. DOMAIN server = ServerFields /\ DOMAIN server.parts \subseteq pendingParts \cup stray
  BY DEF TreeInv, ServerFields, UploadInv
<1>1. CASE FsStatCached \/ ListFolder \/ FsDownloadToFile
  <2>1. server' = server /\ pendingParts' = pendingParts /\ stray' = stray
    BY <1>1 DEF FsStatCached, ListFolder, FsDownloadToFile, Result
  <2>. QED  BY <1>0, <2>1
<1>2. CASE FsClose
  <2>1. RemovePendingParts(connected)
    BY <1>2 DEF FsClose
  <2>2. /\ DOMAIN server'.parts \subseteq (DOMAIN server.parts \ pendingParts) \cup stray'
        /\ stray \subseteq stray'
    BY <1>0, <2>1, RemoveParts
  <2>. QED  BY <1>0, <2>2
<1>3. CASE OfferReconnect \/ FsReconnect
  <2>1. PICK ok \in BOOLEAN : Connect(ok)
    BY <1>3 DEF OfferReconnect, FsReconnect
  <2>2. CASE RemovePendingParts(TRUE)
    <3>1. /\ DOMAIN server'.parts \subseteq (DOMAIN server.parts \ pendingParts) \cup stray'
          /\ stray \subseteq stray'
      BY <1>0, <2>2, RemoveParts
    <3>. QED  BY <1>0, <3>1
  <2>3. CASE server' = server /\ pendingParts' = pendingParts /\ stray' = stray
    BY <1>0, <2>3
  <2>. QED  BY <2>1, <2>2, <2>3 DEF Connect
<1>4. CASE OtherClient \/ FsMakeDirectory \/ FsDelete \/ FsRename \/ ClearTarget
  <2>1. server' = server \/ \E x : server' = [server EXCEPT !.tree = x]
    BY <1>4 DEF OtherClient, FsMakeDirectory, FsDelete, FsRename, ClearTarget, Result
  <2>2. server'.parts = server.parts
    <3>1. CASE server' = server
      BY <3>1
    <3>2. CASE \E x : server' = [server EXCEPT !.tree = x]
      BY <1>0, <3>2, ServerWith
    <3>. QED  BY <2>1, <3>1, <3>2
  <2>3. pendingParts \subseteq pendingParts' /\ stray' = stray
    BY <1>4 DEF OtherClient, FsMakeDirectory, FsDelete, FsRename, ClearTarget, NotPlaced, AfterFailure
  <2>. QED  BY <1>0, <2>2, <2>3
<1>5. CASE UploadPart
  <2>1. pendingParts' = pendingParts \cup {call.path} /\ stray' = stray
    BY <1>5 DEF UploadPart, AfterFailure
  <2>2. server' = server \/ \E x : server' = [server EXCEPT !.parts = With(server.parts, call.path, x)]
    BY <1>5 DEF UploadPart, Result, Interrupted
  <2>3. DOMAIN server'.parts \subseteq DOMAIN server.parts \cup {call.path}
    <3>1. CASE server' = server
      BY <3>1
    <3>2. CASE \E x : server' = [server EXCEPT !.parts = With(server.parts, call.path, x)]
      <4>1. PICK x : server' = [server EXCEPT !.parts = With(server.parts, call.path, x)]
        BY <3>2
      <4>2. server'.parts = With(server.parts, call.path, x)
        BY <1>0, <4>1, ServerWith
      <4>. QED  BY <4>2 DEF With
    <3>. QED  BY <2>2, <3>1, <3>2
  <2>. QED  BY <1>0, <2>1, <2>3
<1>6. CASE UndoPart
  <2>1. pendingParts' = pendingParts \ {call.path} /\ stray' = stray \cup ({call.path} \cap DOMAIN server'.parts)
    BY <1>6 DEF UndoPart
  <2>2. server' = server \/ server' = [server EXCEPT !.parts = Without(server.parts, call.path)]
    BY <1>6 DEF UndoPart, Result
  <2>3. DOMAIN server'.parts \subseteq DOMAIN server.parts
    <3>1. CASE server' = server
      BY <3>1
    <3>2. CASE server' = [server EXCEPT !.parts = Without(server.parts, call.path)]
      <4>1. server'.parts = Without(server.parts, call.path)
        BY <1>0, <3>2, ServerWith
      <4>. QED  BY <4>1 DEF Without, Restrict
    <3>. QED  BY <2>2, <3>1, <3>2
  <2>. QED  BY <1>0, <2>1, <2>3
<1>7. CASE PlacePart
  <2>1. PICK st \in Statuses :
           /\ Place(st)
           /\ \/ st = "Ok" /\ pendingParts' = pendingParts \ {call.path}
              \/ st # "Ok" /\ pendingParts \subseteq pendingParts'
    BY <1>7 DEF PlacePart, Placed, NotPlaced, AfterFailure
  <2>2. stray' = stray
    BY <1>7 DEF PlacePart
  <2>3. PICK tree : tree = With(server.tree, call.path, IF HasPart(call.path) THEN server.parts[call.path] ELSE Partial)
    OBVIOUS
  <2>4. \/ server' = server /\ st # "Ok"
        \/ server' = [tree |-> tree, parts |-> Without(server.parts, call.path)]
    BY <2>1, <2>3 DEF Place, Result
  <2>5. CASE server' = server /\ st # "Ok"
    BY <1>0, <2>1, <2>2, <2>5
  <2>6. CASE server' = [tree |-> tree, parts |-> Without(server.parts, call.path)]
    <3>1. server'.parts = Without(server.parts, call.path)
      BY <2>6
    <3>2. DOMAIN server'.parts = DOMAIN server.parts \ {call.path}
      BY <3>1 DEF Without, Restrict
    <3>. QED  BY <1>0, <2>1, <2>2, <3>2
  <2>. QED  BY <2>4, <2>5, <2>6
<1>. QED  BY <1>1, <1>2, <1>3, <1>4, <1>5, <1>6, <1>7 DEF Outside, Session

\* What the place of the part does.
LEMMA PlaceIs ==
    ASSUME DOMAIN server = ServerFields, DOMAIN call = CallFields, PlacePart
    PROVE  \/ /\ call'.step = "done" /\ call'.st = "Ok" /\ HasPart(call.path) /\ IsFree(server.tree, call.path)
              /\ server'.tree = With(server.tree, call.path, server.parts[call.path])
              /\ server'.parts = Without(server.parts, call.path)
              /\ cache' = CacheUpsert(call.path, FALSE) /\ touched' = touched
           \/ call'.step = "clear" /\ call.step = "place" /\ server' = server /\ UNCHANGED <<cache, touched>>
           \/ /\ call'.step \in {"done", "undo"} /\ call'.st # "Ok"
              /\ cache' = cache /\ touched' = touched \cup {call.path}
<1>1. PICK st \in Statuses :
         /\ Place(st)
         /\ \/ st = "Ok" /\ Placed
            \/ /\ st = "Failed" /\ call.step = "place"
               /\ call' = [call EXCEPT !.step = "clear"]
               /\ UNCHANGED <<pendingParts, cache, touched>>
            \/ st # "Ok" /\ NotPlaced(st)
  BY DEF PlacePart
<1>2. CASE st = "Ok" /\ Placed
  <2>1. call' = [call EXCEPT !.step = "done", !.st = "Ok"]
    BY <1>2 DEF Placed, Return
  <2>2. call'.step = "done" /\ call'.st = "Ok"
    BY <2>1, CallWith
  <2>3. PICK tree : tree = With(server.tree, call.path, IF HasPart(call.path) THEN server.parts[call.path] ELSE Partial)
    OBVIOUS
  <2>4. /\ HasPart(call.path) /\ IsFree(server.tree, call.path)
        /\ server' = [tree |-> tree, parts |-> Without(server.parts, call.path)]
    BY <1>1, <1>2, <2>3 DEF Place, Result
  <2>5. server'.tree = tree /\ server'.parts = Without(server.parts, call.path)
    BY <2>4
  <2>. QED  BY <1>2, <2>2, <2>3, <2>4, <2>5 DEF Placed
<1>3. CASE /\ st = "Failed" /\ call.step = "place"
           /\ call' = [call EXCEPT !.step = "clear"]
           /\ UNCHANGED <<pendingParts, cache, touched>>
  <2>1. call'.step = "clear"
    BY <1>3, CallWith
  <2>2. server' = server
    BY <1>1, <1>3 DEF Place, Result
  <2>. QED  BY <1>3, <2>1, <2>2
<1>4. CASE st # "Ok" /\ NotPlaced(st)
  <2>1. \E step \in {"done", "undo"} : call' = [call EXCEPT !.step = step, !.st = st]
    BY <1>4 DEF NotPlaced, AfterFailure
  <2>2. call'.step \in {"done", "undo"} /\ call'.st = st
    BY <2>1, CallWith
  <2>3. cache' = cache /\ touched' = touched \cup {call.path}
    BY <1>4 DEF NotPlaced, Touch
  <2>. QED  BY <1>4, <2>2, <2>3
<1>. QED  BY <1>1, <1>2, <1>3, <1>4

\* The deletion of the target before the second rename.
LEMMA ClearIs ==
    ASSUME DOMAIN server = ServerFields, DOMAIN call = CallFields, ClearTarget
    PROVE  /\ server'.parts = server.parts /\ cache' = cache
           /\ \/ call'.step = "again" /\ touched' = touched
              \/ /\ call'.step \in {"done", "undo"} /\ call'.st # "Ok"
                 /\ touched' = touched \cup {call.path}
<1>1. PICK st \in Statuses :
         /\ Result(st, IsFile(server.tree, call.path),
                   [server EXCEPT !.tree = Without(server.tree, call.path)])
         /\ \/ call' = [call EXCEPT !.step = "again"] /\ UNCHANGED <<pendingParts, cache, touched>>
            \/ NotPlaced("Failed")
  BY DEF ClearTarget
<1>2. server' = server \/ server' = [server EXCEPT !.tree = Without(server.tree, call.path)]
  BY <1>1 DEF Result
<1>3. server'.parts = server.parts
  <2>1. CASE server' = server
    BY <2>1
  <2>2. CASE server' = [server EXCEPT !.tree = Without(server.tree, call.path)]
    BY <2>2, ServerWith
  <2>. QED  BY <1>2, <2>1, <2>2
<1>4. CASE call' = [call EXCEPT !.step = "again"] /\ UNCHANGED <<pendingParts, cache, touched>>
  BY <1>3, <1>4, CallWith
<1>5. CASE NotPlaced("Failed")
  <2>1. \E step \in {"done", "undo"} : call' = [call EXCEPT !.step = step, !.st = "Failed"]
    BY <1>5 DEF NotPlaced, AfterFailure
  <2>2. call'.step \in {"done", "undo"} /\ call'.st = "Failed"
    BY <2>1, CallWith
  <2>3. cache' = cache /\ touched' = touched \cup {call.path}
    BY <1>5 DEF NotPlaced, Touch
  <2>. QED  BY <1>3, <2>2, <2>3
<1>. QED  BY <1>1, <1>4, <1>5

\* Sending a part leads to its rename, or to a failure.
LEMMA SendIs ==
    ASSUME DOMAIN call = CallFields, UploadPart
    PROVE  call'.step = "place" \/ (call'.step \in {"done", "undo"} /\ call'.st # "Ok")
<1>1. \/ call' = [call EXCEPT !.step = "place"]
      \/ \E st \in Statuses \ {"Ok"} : \E step \in {"done", "undo"} : call' = [call EXCEPT !.step = step, !.st = st]
  BY DEF UploadPart, AfterFailure
<1>2. CASE call' = [call EXCEPT !.step = "place"]
  BY <1>2, CallWith
<1>3. CASE \E st \in Statuses \ {"Ok"} : \E step \in {"done", "undo"} : call' = [call EXCEPT !.step = step, !.st = st]
  <2>1. PICK st \in Statuses \ {"Ok"} : \E step \in {"done", "undo"} : call' = [call EXCEPT !.step = step, !.st = st]
    BY <1>3
  <2>2. call'.step \in {"done", "undo"} /\ call'.st = st
    BY <2>1, CallWith
  <2>. QED  BY <2>2
<1>. QED  BY <1>1, <1>2, <1>3

\* Removing a part after a failure ends the call.
LEMMA UndoIs ==
    ASSUME DOMAIN call = CallFields, UndoPart
    PROVE  call'.step = "done" /\ call'.st = call.st /\ call.step = "undo"
<1>1. call' = [call EXCEPT !.step = "done", !.st = call.st] /\ call.step = "undo"
  BY DEF UndoPart, Return, At
<1>. QED  BY <1>1, CallWith

\* Which steps of the session belong to which call.
LEMMA SessionOps ==
    ASSUME DOMAIN call = CallFields, Session
    PROVE  /\ call.op = "Upload" => UploadPart \/ PlacePart \/ ClearTarget \/ UndoPart
           /\ call.op = "Download" => FsDownloadToFile
           /\ call.op \in {"Stat", "List"} => FsStatCached \/ ListFolder \/ OfferReconnect
           /\ call.op = "Delete" => FsDelete
           /\ call.op = "Rename" => FsRename
           /\ call.op = "Mkdir" => FsMakeDirectory
           /\ call.op = "Reconnect" => FsReconnect
BY DEF Session, FsStatCached, ListFolder, OfferReconnect, FsReconnect, FsDelete, FsMakeDirectory,
       FsRename, FsDownloadToFile, UploadPart, PlacePart, ClearTarget, UndoPart, At

\* A step of the session keeps the parts known.
LEMMA UploadSession ==
    ASSUME TaskInv, TreeInv, UploadInv, Session
    PROVE  UploadInv'
<1>0. DOMAIN call = CallFields /\ DOMAIN server = ServerFields /\ CallOK
  BY SessionIsCall, CallNow DEF TreeInv, ServerFields
<1>1. SameCall /\ (call.op # "Download" => call'.data = call.data)
  BY <1>0, SessionCall
<1>2. DOMAIN server'.parts \subseteq pendingParts' \cup stray'
  BY PartsKnown DEF Outside
<1>3. CASE call.op = "Upload"
  <2>1. call'.op = "Upload" /\ call'.data = call.data /\ call'.path = call.path /\ call.data \in Whole \ {Folder}
    BY <1>1, <1>3 DEF SameCall, UploadInv
  <2>2. CASE UploadPart
    <3>1. call'.step = "place" \/ (call'.step \in {"done", "undo"} /\ call'.st # "Ok")
      BY <1>0, <2>2, SendIs
    <3>2. call'.step \in {"place", "clear", "again"} => server'.parts = With(server.parts, call.path, call.data)
      BY <1>0, <2>2, SentPart
    <3>3. With(server.parts, call.path, call.data)[call.path] = call.data
      BY DEF With
    <3>4. call'.step \in {"place", "clear", "again"} => server'.parts[call'.path] = call'.data
      BY <2>1, <3>2, <3>3
    <3>. QED  BY <1>2, <2>1, <3>1, <3>4 DEF UploadInv
  <2>3. CASE PlacePart
    <3>1. CASE /\ call'.step = "done" /\ call'.st = "Ok" /\ HasPart(call.path) /\ IsFree(server.tree, call.path)
               /\ server'.tree = With(server.tree, call.path, server.parts[call.path])
      <4>1. server.parts[call.path] = call.data
        BY <2>3, <3>1, PlaceIsUpload
      <4>2. call.path \in DOMAIN server'.tree /\ server'.tree[call.path] = call.data
        BY <3>1, <4>1 DEF With
      <4>. QED  BY <1>2, <2>1, <3>1, <4>2 DEF UploadInv
    <3>2. CASE call'.step = "clear" /\ call.step = "place" /\ server' = server
      <4>1. call'.path \in DOMAIN server'.parts => server'.parts[call'.path] = call'.data
        BY <1>3, <2>1, <3>2 DEF UploadInv, HasPart
      <4>. QED  BY <1>2, <2>1, <3>2, <4>1 DEF UploadInv, HasPart
    <3>3. CASE call'.step \in {"done", "undo"} /\ call'.st # "Ok"
      BY <1>2, <2>1, <3>3 DEF UploadInv
    <3>. QED  BY <1>0, <2>3, <3>1, <3>2, <3>3, PlaceIs
  <2>4. CASE ClearTarget
    <3>1. server'.parts = server.parts
          /\ (call'.step = "again" \/ (call'.step \in {"done", "undo"} /\ call'.st # "Ok"))
      BY <1>0, <2>4, ClearIs
    <3>2. call.step = "clear"
      BY <2>4 DEF ClearTarget, At
    <3>3. call'.path \in DOMAIN server'.parts => server'.parts[call'.path] = call'.data
      BY <1>3, <2>1, <3>1, <3>2 DEF UploadInv, HasPart
    <3>. QED  BY <1>2, <2>1, <3>1, <3>3 DEF UploadInv, HasPart
  <2>5. CASE UndoPart
    <3>1. call'.step = "done" /\ call'.st # "Ok"
      BY <1>0, <1>3, <2>5, UndoIs DEF UploadInv
    <3>. QED  BY <1>2, <2>1, <3>1 DEF UploadInv
  <2>. QED  BY <1>0, <1>3, <2>2, <2>3, <2>4, <2>5, SessionOps
<1>4. CASE call.op = "Download"
  <2>1. FsDownloadToFile
    BY <1>0, <1>4, SessionOps
  <2>2. /\ call'.st = "Ok" => IsFile(server.tree, call.path) /\ call'.data = server.tree[call.path]
        /\ server' = server
    BY <1>0, <2>1, DownloadCall
  <2>3. call'.op = "Download" /\ call'.path = call.path
    BY <1>1, <1>4 DEF SameCall
  <2>4. call'.st = "Ok" => IsFile(server'.tree, call'.path) /\ call'.data = server'.tree[call'.path]
    BY <2>2, <2>3
  <2>. QED  BY <1>2, <2>3, <2>4 DEF UploadInv, IsFile
<1>5. CASE call.op \notin {"Upload", "Download"}
  <2>1. call'.op \notin {"Upload", "Download"}
    BY <1>1, <1>5 DEF SameCall
  <2>. QED  BY <1>2, <2>1 DEF UploadInv
<1>. QED  BY <1>3, <1>4, <1>5

\* A step of the engine does not touch the parts.
LEMMA UploadEngine ==
    ASSUME TaskInv, TreeInv, UploadInv, LocalInv, Engines
    PROVE  UploadInv'
<1>0. server' = server /\ pendingParts' = pendingParts /\ stray' = stray
  BY EngineStep DEF sessionVars
<1>1. DOMAIN server'.parts \subseteq pendingParts' \cup stray'
  BY <1>0 DEF UploadInv
<1>2. CASE call' = NoCall
  BY <1>1, <1>2, NoCallIs DEF UploadInv
<1>3. CASE WriteFails
  <2>1. CallOK /\ call.step = "done"
    BY <1>3, AnsweredIs DEF WriteFails, Downloaded, AnsweredOk
  <2>2. DOMAIN call = CallFields /\ call' = [call EXCEPT !.st = "Failed"]
    BY <1>3, <2>1, CallNow DEF WriteFails
  <2>3. call'.op = call.op /\ call'.data = call.data /\ call'.step = call.step /\ call'.st = "Failed"
    BY <2>2 DEF CallFields
  <2>. QED  BY <1>1, <2>1, <2>3 DEF UploadInv
<1>4. CASE Call
  <2>1. Now \in Tasks /\ Now.op \notin {"Drop", "End"} /\ todo # << >>
    BY <1>4, CallBegins
  <2>2. CASE call' = CallOf(Now)
    <3>1. call'.step = "start"
      BY <2>1, <2>2, CallHas
    <3>2. ASSUME call'.op = "Upload" PROVE call'.data \in Whole \ {Folder}
      <4>1. Now.op = "Write" /\ ~ Downloads(Now) /\ call'.data = (IF job.from = "local" THEN local[Now.from] ELSE Now.stage)
        BY <2>1, <2>2, <3>2, CallHas
      <4>2. CASE job.from = "local"
        <5>1. Now \in Range(todo)
          BY <2>1, NowIs
        <5>2. IsFile(local, Now.from)
          BY <4>1, <4>2, <5>1 DEF LocalInv
        <5>. QED  BY <4>1, <4>2, <5>2 DEF TreeInv, TreeOK, IsFile
      <4>3. CASE job.from # "local"
        <5>1. job.from = "remote"
          BY <4>3, JobIs DEF TaskInv
        <5>2. Now.stage # Folder
          BY <4>1, <5>1 DEF Downloads
        <5>. QED  BY <2>1, <4>1, <4>3, <5>2 DEF Tasks
      <4>. QED  BY <4>2, <4>3
    <3>. QED  BY <1>1, <3>1, <3>2 DEF UploadInv
  <2>3. CASE SideOf(Now) = "local" /\ Now.op # "Write" /\ LocalCall(CallOf(Now))
    <3>1. PICK c : c = CallOf(Now)
      OBVIOUS
    <3>2. DOMAIN c = CallFields /\ c.st = "Ok" /\ c.found = << >> /\ c.op \notin {"Upload", "Download"}
      BY <2>1, <2>3, <3>1, CallHas
    <3>3. call'.op = c.op
      BY <2>3, <3>1, <3>2, LocalAnswer
    <3>. QED  BY <1>1, <3>2, <3>3 DEF UploadInv
  <2>. QED  BY <1>4, <2>2, <2>3, CallBegins
<1>. QED  BY <1>2, <1>3, <1>4, EngineStep

\* Parts stay known at every step.
LEMMA UploadNext ==
    ASSUME TaskInv, TreeInv, UploadInv, LocalInv, [Next]_vars
    PROVE  UploadInv'
<1>1. CASE Engines
  BY <1>1, UploadEngine
<1>2. CASE Session
  BY <1>2, UploadSession
<1>3. CASE FsClose
  <2>1. DOMAIN server'.parts \subseteq pendingParts' \cup stray'
    BY <1>3, PartsKnown DEF Outside
  <2>2. call'.op = "Closed"
    BY <1>3, NoCallIs DEF FsClose
  <2>. QED  BY <2>1, <2>2 DEF UploadInv
<1>4. CASE OtherClient
  <2>0. DOMAIN server = ServerFields
    BY DEF TreeInv, ServerFields
  <2>1. call' = call /\ pendingParts' = pendingParts /\ stray' = stray
    BY <1>4 DEF OtherClient
  <2>2. PICK p \in OtherPaths : IsFree(server.tree, p) /\ server' = [server EXCEPT !.tree = With(server.tree, p, Other)]
    BY <1>4 DEF OtherClient
  <2>3. server'.tree = With(server.tree, p, Other) /\ server'.parts = server.parts
    BY <2>0, <2>2, ServerWith
  <2>4. \A q \in DOMAIN server.tree : q \in DOMAIN server'.tree /\ server'.tree[q] = server.tree[q]
    BY <2>2, <2>3 DEF With, IsFree
  <2>5. IsFile(server.tree, call.path) => IsFile(server'.tree, call.path)
    BY <2>4 DEF IsFile
  <2>. QED  BY <2>1, <2>3, <2>4, <2>5 DEF UploadInv, IsFile, HasPart
<1>5. CASE UNCHANGED vars
  BY <1>5 DEF vars, sessionVars, UploadInv, IsFile, HasPart
<1>. QED  BY <1>1, <1>2, <1>3, <1>4, <1>5, StepIs

-----------------------------------------------------------------------------
(* The cache.                                                                 *)

\* The cache stays right where the tree stays, and where it changes is unknown.
LEMMA CacheStill ==
    ASSUME CacheInv, cache' = cache, touched \subseteq touched',
           \A q : Cleared(q) => Cleared(q)' \/ Unknown(q)',
           \A q : \/ Unknown(q)' \/ Cleared(q)'
                  \/ /\ q \in DOMAIN server'.tree <=> q \in DOMAIN server.tree
                     /\ q \in DOMAIN server.tree => server'.tree[q] = server.tree[q]
    PROVE  CacheInv'
<1>1. SUFFICES ASSUME NEW p \in Seen(cache', server'.tree), ~ Unknown(p)', ~ Cleared(p)'
               PROVE  Agrees(cache', server'.tree, p)
  BY DEF CacheInv, Seen, Agrees, Unknown, Cleared, Children, Parent
<1>2. /\ p \in DOMAIN server'.tree <=> p \in DOMAIN server.tree
      /\ p \in DOMAIN server.tree => server'.tree[p] = server.tree[p]
  BY <1>1
<1>3. ~ Unknown(p) /\ ~ Cleared(p)
  BY <1>1 DEF Unknown
<1>4. p \in Seen(cache, server.tree)
  BY <1>1, <1>2 DEF Seen, Children
<1>5. Agrees(cache, server.tree, p)
  BY <1>3, <1>4 DEF CacheInv
<1>. QED  BY <1>2, <1>5 DEF Agrees

\* A deletion on the server, and what the cache makes of it.
LEMMA DeleteIs ==
    ASSUME DOMAIN server = ServerFields, FsDelete
    PROVE  \/ /\ cache' = CacheRemove(call.path) /\ touched' = touched
              /\ server'.tree = Without(server.tree, call.path)
           \/ cache' = cache /\ touched' = touched \cup {call.path}
<1>1. PICK st \in Statuses :
         /\ Result(st, Deletable(call.path), [server EXCEPT !.tree = Without(server.tree, call.path)])
         /\ cache' = CacheAfterDelete(st) /\ Touch(st, {call.path})
  BY DEF FsDelete
<1>2. CASE st = "Ok"
  <2>1. server' = [server EXCEPT !.tree = Without(server.tree, call.path)]
    BY <1>1, <1>2 DEF Result
  <2>2. server'.tree = Without(server.tree, call.path)
    BY <2>1, ServerWith
  <2>. QED  BY <1>1, <1>2, <2>2 DEF CacheAfterDelete, Touch
<1>3. CASE st # "Ok"
  BY <1>1, <1>3 DEF CacheAfterDelete, Touch
<1>. QED  BY <1>2, <1>3

\* A folder made on the server, and what the cache makes of it.
LEMMA MkdirIs ==
    ASSUME DOMAIN server = ServerFields, FsMakeDirectory
    PROVE  \/ /\ cache' = CacheUpsert(call.path, TRUE) /\ touched' = touched
              /\ server'.tree = With(server.tree, call.path, Folder)
           \/ cache' = cache /\ touched' = touched \cup {call.path}
<1>1. PICK st \in Statuses :
         /\ Result(st, IsFree(server.tree, call.path), [server EXCEPT !.tree = With(server.tree, call.path, Folder)])
         /\ cache' = (IF st = "Ok" THEN CacheUpsert(call.path, TRUE) ELSE cache) /\ Touch(st, {call.path})
  BY DEF FsMakeDirectory
<1>2. CASE st = "Ok"
  <2>1. server' = [server EXCEPT !.tree = With(server.tree, call.path, Folder)]
    BY <1>1, <1>2 DEF Result
  <2>2. server'.tree = With(server.tree, call.path, Folder)
    BY <2>1, ServerWith
  <2>. QED  BY <1>1, <1>2, <2>2 DEF Touch
<1>3. CASE st # "Ok"
  BY <1>1, <1>3 DEF Touch
<1>. QED  BY <1>2, <1>3

\* A rename on the server empties the cache, or is not known to have happened.
LEMMA RenameIs ==
    ASSUME FsRename
    PROVE  \/ cache' = NoCache
           \/ cache' = cache /\ touched' = touched \cup {call.path, call.to}
<1>1. PICK st \in Statuses : cache' = (IF st = "Ok" THEN NoCache ELSE cache) /\ Touch(st, {call.path, call.to})
  BY DEF FsRename
<1>. QED  BY <1>1 DEF Touch

\* The path of the call is touched, and only there the tree changed.
LEMMA CacheTouched ==
    ASSUME CacheInv, cache' = cache, touched' = touched \cup {call.path}, call.path \in Path,
           \A q : q # call.path =>
                /\ q \in DOMAIN server'.tree <=> q \in DOMAIN server.tree
                /\ q \in DOMAIN server.tree => server'.tree[q] = server.tree[q]
    PROVE  CacheInv'
<1>1. IsPrefix(call.path, call.path)
  BY PrefixRefl DEF Path
<1>2. \A q : q = call.path => Unknown(q)'
  BY <1>1 DEF Unknown
<1>3. \A q : Cleared(q) => Unknown(q)'
  BY <1>2 DEF Cleared
<1>. QED  BY <1>2, <1>3, CacheStill

\* The cache stays right where neither it nor the tree changes.
LEMMA CacheSameTree ==
    ASSUME CacheInv, cache' = cache, touched' = touched, server'.tree = server.tree,
           call' = call \/ call.op # "Upload" \/ call.step # "again"
    PROVE  CacheInv'
<1>1. \A q : Cleared(q) => Cleared(q)'
  BY DEF Cleared
<1>. QED  BY <1>1, CacheStill

\* Something is made at the path of the call, and the cache told.
LEMMA CacheTold ==
    ASSUME TreeInv, CacheInv, touched' = touched, call.path \in Named,
           NEW b \in BOOLEAN, NEW c, b = (c = Folder),
           cache' = CacheUpsert(call.path, b), server'.tree = With(server.tree, call.path, c)
    PROVE  CacheInv'
<1>0. DOMAIN cache = {"dir", "list"} /\ FoundOK(cache.list) /\ call.path \in Path /\ call.path # << >>
  BY DEF TreeInv, Named
<1>1. /\ cache'.dir = cache.dir
      /\ cache.dir # Parent(call.path) => cache'.list = cache.list
      /\ cache.dir = Parent(call.path) => /\ DOMAIN cache'.list = DOMAIN cache.list \cup {call.path}
                                          /\ cache'.list[call.path] = b
                                          /\ \A q \in DOMAIN cache.list \ {call.path} : cache'.list[q] = cache.list[q]
  BY <1>0, UpsertIs
<1>2. /\ DOMAIN server'.tree = DOMAIN server.tree \cup {call.path} /\ server'.tree[call.path] = c
      /\ \A q \in DOMAIN server.tree \ {call.path} : server'.tree[q] = server.tree[q]
  BY DEF With
<1>3. ASSUME NEW p \in DOMAIN cache'.list
      PROVE  p # << >> /\ Parent(p) = cache'.dir
  BY <1>0, <1>1, <1>3 DEF CacheInv
<1>4. ASSUME NEW p \in Seen(cache', server'.tree), ~ Unknown(p)
      PROVE  Agrees(cache', server'.tree, p)
  <2>1. CASE p = call.path
    <3>1. Parent(p) = cache.dir
      BY <1>1, <1>3, <1>4, <2>1 DEF Seen, Children
    <3>2. p \in DOMAIN cache'.list /\ cache'.list[p] = b
      BY <1>1, <2>1, <3>1
    <3>. QED  BY <1>2, <2>1, <3>2 DEF Agrees
  <2>2. CASE p # call.path
    <3>1. p \in Seen(cache, server.tree) /\ ~ Cleared(p)
      BY <1>1, <1>2, <1>4, <2>2 DEF Seen, Children, Cleared
    <3>2. Agrees(cache, server.tree, p)
      BY <1>4, <3>1 DEF CacheInv
    <3>3. p \in DOMAIN cache.list /\ p \in DOMAIN cache'.list /\ cache'.list[p] = cache.list[p]
      BY <1>1, <2>2, <3>2 DEF Agrees
    <3>4. p \in DOMAIN server.tree /\ p \in DOMAIN server'.tree /\ server'.tree[p] = server.tree[p]
      BY <1>2, <2>2, <3>2 DEF Agrees
    <3>. QED  BY <3>2, <3>3, <3>4 DEF Agrees
  <2>. QED  BY <2>1, <2>2
<1>5. \A p : Unknown(p)' <=> Unknown(p)
  BY DEF Unknown
<1>. QED  BY <1>3, <1>4, <1>5 DEF CacheInv, Seen, Agrees, Children, Parent

\* It is deleted, and the cache told.
LEMMA CacheToldGone ==
    ASSUME TreeInv, CacheInv, touched' = touched, call.path \in Named,
           cache' = CacheRemove(call.path), server'.tree = Without(server.tree, call.path)
    PROVE  CacheInv'
<1>0. DOMAIN cache = {"dir", "list"} /\ FoundOK(cache.list) /\ call.path \in Path /\ call.path # << >>
  BY DEF TreeInv, Named
<1>1. /\ cache'.dir = cache.dir
      /\ cache.dir # Parent(call.path) => cache'.list = cache.list
      /\ cache.dir = Parent(call.path) => /\ DOMAIN cache'.list = DOMAIN cache.list \ {call.path}
                                          /\ \A q \in DOMAIN cache.list \ {call.path} : cache'.list[q] = cache.list[q]
  BY <1>0, RemoveIs
<1>2. /\ DOMAIN server'.tree = DOMAIN server.tree \ {call.path}
      /\ \A q \in DOMAIN server.tree \ {call.path} : server'.tree[q] = server.tree[q]
  BY DEF Without, Restrict
<1>3. ASSUME NEW p \in DOMAIN cache'.list
      PROVE  p # << >> /\ Parent(p) = cache'.dir /\ p # call.path
  BY <1>0, <1>1, <1>3 DEF CacheInv
<1>4. ASSUME NEW p \in Seen(cache', server'.tree), ~ Unknown(p)
      PROVE  Agrees(cache', server'.tree, p)
  <2>1. p # call.path
    BY <1>2, <1>3, <1>4 DEF Seen, Children
  <2>2. p \in Seen(cache, server.tree) /\ ~ Cleared(p)
    BY <1>1, <1>2, <1>4, <2>1 DEF Seen, Children, Cleared
  <2>3. Agrees(cache, server.tree, p)
    BY <1>4, <2>2 DEF CacheInv
  <2>4. p \in DOMAIN cache.list /\ p \in DOMAIN cache'.list /\ cache'.list[p] = cache.list[p]
    BY <1>1, <2>1, <2>3 DEF Agrees
  <2>5. p \in DOMAIN server.tree /\ p \in DOMAIN server'.tree /\ server'.tree[p] = server.tree[p]
    BY <1>2, <2>1, <2>3 DEF Agrees
  <2>. QED  BY <2>3, <2>4, <2>5 DEF Agrees
<1>5. \A p : Unknown(p)' <=> Unknown(p)
  BY DEF Unknown
<1>. QED  BY <1>3, <1>4, <1>5 DEF CacheInv, Seen, Agrees, Children, Parent

\* The tree after each call.
LEMMA DeleteTree ==
    ASSUME DOMAIN server = ServerFields, FsDelete
    PROVE  server'.tree = server.tree \/ server'.tree = Without(server.tree, call.path)
<1>1. \/ server' = server
      \/ server' = [server EXCEPT !.tree = Without(server.tree, call.path)]  BY DEF FsDelete, Result
<1>2. CASE server' = server
  BY <1>2
<1>3. CASE server' = [server EXCEPT !.tree = Without(server.tree, call.path)]
  BY <1>3, ServerWith
<1>. QED  BY <1>1, <1>2, <1>3

\* A folder is made or not.
LEMMA MkdirTree ==
    ASSUME DOMAIN server = ServerFields, FsMakeDirectory
    PROVE  server'.tree = server.tree \/ server'.tree = With(server.tree, call.path, Folder)
<1>1. \/ server' = server
      \/ server' = [server EXCEPT !.tree = With(server.tree, call.path, Folder)]  BY DEF FsMakeDirectory, Result
<1>2. CASE server' = server
  BY <1>2
<1>3. CASE server' = [server EXCEPT !.tree = With(server.tree, call.path, Folder)]
  BY <1>3, ServerWith
<1>. QED  BY <1>1, <1>2, <1>3

\* A rename happens or not.
LEMMA RenameTree ==
    ASSUME DOMAIN server = ServerFields, FsRename
    PROVE  server'.tree = server.tree \/ server'.tree = Renamed(server.tree, call.path, call.to)
<1>1. \/ server' = server
      \/ server' = [server EXCEPT !.tree = Renamed(server.tree, call.path, call.to)]  BY DEF FsRename, Result
<1>2. CASE server' = server
  BY <1>2
<1>3. CASE server' = [server EXCEPT !.tree = Renamed(server.tree, call.path, call.to)]
  BY <1>3, ServerWith
<1>. QED  BY <1>1, <1>2, <1>3

\* The target is deleted or not.
LEMMA ClearTree ==
    ASSUME DOMAIN server = ServerFields, ClearTarget
    PROVE  server'.tree = server.tree \/ server'.tree = Without(server.tree, call.path)
<1>1. \/ server' = server
      \/ server' = [server EXCEPT !.tree = Without(server.tree, call.path)]  BY DEF ClearTarget, Result
<1>2. CASE server' = server
  BY <1>2
<1>3. CASE server' = [server EXCEPT !.tree = Without(server.tree, call.path)]
  BY <1>3, ServerWith
<1>. QED  BY <1>1, <1>2, <1>3

\* Sending and removing a part leave the tree alone.
LEMMA SendTree ==
    ASSUME DOMAIN server = ServerFields, UploadPart \/ UndoPart
    PROVE  server'.tree = server.tree
<1>1. \/ server' = server
      \/ \E x : server' = [server EXCEPT !.parts = x]
  BY DEF UploadPart, UndoPart, Result, Interrupted
<1>2. CASE server' = server
  BY <1>2
<1>3. CASE \E x : server' = [server EXCEPT !.parts = x]
  BY <1>3, ServerWith
<1>. QED  BY <1>1, <1>2, <1>3

\* Placing a part changes only the target.
LEMMA PlaceTree ==
    ASSUME DOMAIN server = ServerFields, PlacePart
    PROVE  server'.tree = server.tree \/ \E c : server'.tree = With(server.tree, call.path, c)
<1>1. PICK tree : tree = With(server.tree, call.path, IF HasPart(call.path) THEN server.parts[call.path] ELSE Partial)
  OBVIOUS
<1>2. \/ server' = server
      \/ server' = [tree |-> tree, parts |-> Without(server.parts, call.path)]
  BY <1>1 DEF PlacePart, Place, Result
<1>3. server' = server \/ server'.tree = tree
  BY <1>2
<1>. QED  BY <1>1, <1>3

\* Connecting and closing leave the tree alone.
LEMMA ReconnectTree ==
    ASSUME DOMAIN server = ServerFields, FsReconnect \/ OfferReconnect \/ FsClose
    PROVE  server'.tree = server.tree
<1>1. server' = server \/ \E up : RemovePendingParts(up)
  BY DEF FsReconnect, OfferReconnect, FsClose, Connect
<1>. QED  BY <1>1, RemoveParts

\* A step of the session keeps the cache right about what the session did.
LEMMA CacheSession ==
    ASSUME TaskInv, TreeInv, CacheInv, UploadInv, Session
    PROVE  CacheInv'
<1>0. /\ DOMAIN call = CallFields /\ DOMAIN server = ServerFields /\ call.path \in Named /\ call.to \in Path
      /\ call.path \in Path
  BY SessionIsCall, CallNow DEF TreeInv, ServerFields, Named
<1>1. CASE FsStatCached
  BY <1>1, CacheSameTree DEF FsStatCached, At
<1>2. CASE ListFolder
  <2>0. server' = server
    BY <1>2 DEF ListFolder, Result
  <2>1. CASE UNCHANGED <<cache, touched>>
    BY <1>2, <2>0, <2>1, CacheSameTree DEF ListFolder
  <2>2. CASE /\ cache' = [dir |-> ListedDir, list |-> Listing(server.tree, ListedDir)]
             /\ touched' = {q \in touched : Parent(q) # ListedDir}
    <3>1. ListedDir \in Path
      BY <1>0, ParentIs DEF ListedDir, Named, Path
    <3>2. PICK list : list = Listing(server.tree, ListedDir)
      OBVIOUS
    <3>3. /\ DOMAIN list = Children(server.tree, ListedDir)
          /\ \A p \in Children(server.tree, ListedDir) :
                p \in DOMAIN server.tree /\ p # << >> /\ Parent(p) = ListedDir /\ list[p] = (server.tree[p] = Folder)
      BY <3>1, <3>2, ListingIs DEF TreeInv
    <3>4. cache'.dir = ListedDir /\ cache'.list = list
      BY <2>2, <3>2
    <3>5. ASSUME NEW p \in DOMAIN list
          PROVE  p # << >> /\ Parent(p) = cache'.dir /\ Agrees(cache', server'.tree, p)
      BY <2>0, <3>3, <3>4, <3>5 DEF Agrees
    <3>6. Seen(cache', server'.tree) \subseteq DOMAIN list
      BY <2>0, <3>3, <3>4 DEF Seen
    <3>. QED  BY <3>4, <3>5, <3>6 DEF CacheInv, Seen, Agrees, Children, Parent
  <2>. QED  BY <1>0, <1>2, <2>1, <2>2, ListFolderCall
<1>3. CASE OfferReconnect \/ FsReconnect
  <2>0. server'.tree = server.tree
    BY <1>0, <1>3, ReconnectTree
  <2>1. touched' = touched /\ (cache' = cache \/ cache' = NoCache) /\ call.op # "Upload"
    BY <1>3 DEF OfferReconnect, FsReconnect, At
  <2>2. CASE cache' = NoCache
    BY <2>2, NoCacheIs DEF CacheInv, Seen
  <2>. QED  BY <2>0, <2>1, <2>2, CacheSameTree
<1>4. CASE FsDelete
  <2>1. CASE /\ cache' = CacheRemove(call.path) /\ touched' = touched
             /\ server'.tree = Without(server.tree, call.path)
    BY <1>0, <2>1, CacheToldGone
  <2>2. CASE cache' = cache /\ touched' = touched \cup {call.path}
    <3>1. server'.tree = server.tree \/ server'.tree = Without(server.tree, call.path)
      BY <1>0, <1>4, DeleteTree
    <3>. QED  BY <1>0, <2>2, <3>1, CacheTouched DEF Without, Restrict
  <2>. QED  BY <1>0, <1>4, <2>1, <2>2, DeleteIs
<1>5. CASE FsMakeDirectory
  <2>1. CASE /\ cache' = CacheUpsert(call.path, TRUE) /\ touched' = touched
             /\ server'.tree = With(server.tree, call.path, Folder)
    <3>1. PICK b \in BOOLEAN : b = TRUE
      OBVIOUS
    <3>2. cache' = CacheUpsert(call.path, b) /\ b = (Folder = Folder)
      BY <2>1, <3>1
    <3>. QED  BY <1>0, <2>1, <3>2, CacheTold
  <2>2. CASE cache' = cache /\ touched' = touched \cup {call.path}
    <3>1. server'.tree = server.tree \/ server'.tree = With(server.tree, call.path, Folder)
      BY <1>0, <1>5, MkdirTree
    <3>. QED  BY <1>0, <2>2, <3>1, CacheTouched DEF With
  <2>. QED  BY <1>0, <1>5, <2>1, <2>2, MkdirIs
<1>6. CASE FsRename
  <2>1. CASE cache' = NoCache
    BY <2>1, NoCacheIs DEF CacheInv, Seen
  <2>2. CASE cache' = cache /\ touched' = touched \cup {call.path, call.to}
    <3>1. server'.tree = server.tree \/ server'.tree = Renamed(server.tree, call.path, call.to)
      BY <1>0, <1>6, RenameTree
    <3>2. ASSUME NEW q, ~ Unknown(q)'
          PROVE  /\ q \in DOMAIN server'.tree <=> q \in DOMAIN server.tree
                 /\ q \in DOMAIN server.tree => server'.tree[q] = server.tree[q]
      <4>1. ~ IsPrefix(call.path, q) /\ ~ IsPrefix(call.to, q)
        BY <2>2, <3>2 DEF Unknown
      <4>2. CASE server'.tree = server.tree
        BY <4>2
      <4>3. CASE server'.tree = Renamed(server.tree, call.path, call.to)
        BY <1>0, <4>1, <4>3, RenamedIs DEF TreeInv, TreeOK, Path
      <4>. QED  BY <3>1, <4>2, <4>3
    <3>3. \A q : ~ Cleared(q)
      BY <1>6 DEF FsRename, At, Cleared
    <3>. QED  BY <2>2, <3>2, <3>3, CacheStill
  <2>. QED  BY <1>6, <2>1, <2>2, RenameIs
<1>7. CASE FsDownloadToFile
  <2>1. server' = server
    BY <1>0, <1>7, DownloadCall
  <2>. QED  BY <1>7, <2>1, CacheSameTree DEF FsDownloadToFile, At
<1>8. CASE UploadPart \/ UndoPart
  <2>1. server'.tree = server.tree
    BY <1>0, <1>8, SendTree
  <2>. QED  BY <1>8, <2>1, CacheSameTree DEF UploadPart, UndoPart, At
<1>9. CASE PlacePart
  <2>1. CASE /\ HasPart(call.path) /\ server'.tree = With(server.tree, call.path, server.parts[call.path])
             /\ cache' = CacheUpsert(call.path, FALSE) /\ touched' = touched
    <3>1. server.parts[call.path] # Folder
      BY <1>9, <2>1, PlaceIsUpload
    <3>2. PICK c : c = server.parts[call.path]
      OBVIOUS
    <3>3. PICK b \in BOOLEAN : b = FALSE
      OBVIOUS
    <3>4. cache' = CacheUpsert(call.path, b) /\ b = (c = Folder) /\ server'.tree = With(server.tree, call.path, c)
      BY <2>1, <3>1, <3>2, <3>3
    <3>. QED  BY <1>0, <2>1, <3>4, CacheTold
  <2>2. CASE call'.step = "clear" /\ call.step = "place" /\ server' = server /\ UNCHANGED <<cache, touched>>
    BY <2>2, CacheSameTree
  <2>3. CASE cache' = cache /\ touched' = touched \cup {call.path}
    <3>1. server'.tree = server.tree \/ \E c : server'.tree = With(server.tree, call.path, c)
      BY <1>0, <1>9, PlaceTree
    <3>. QED  BY <1>0, <2>3, <3>1, CacheTouched DEF With
  <2>. QED  BY <1>0, <1>9, <2>1, <2>2, <2>3, PlaceIs
<1>10. CASE ClearTarget
  <2>1. server'.tree = server.tree \/ server'.tree = Without(server.tree, call.path)
    BY <1>0, <1>10, ClearTree
  <2>2. cache' = cache
    BY <1>0, <1>10, ClearIs
  <2>3. CASE touched' = touched \cup {call.path}
    BY <1>0, <2>1, <2>2, <2>3, CacheTouched DEF Without, Restrict
  <2>4. CASE call'.step = "again" /\ touched' = touched
    <3>1. call'.op = "Upload" /\ call'.path = call.path
      BY <1>0, <1>10, UploadCall DEF SameCall
    <3>2. \A q : q = call.path => Cleared(q)'
      BY <2>4, <3>1 DEF Cleared
    <3>3. \A q : Cleared(q) => Cleared(q)'
      BY <3>2 DEF Cleared
    <3>4. \A q : \/ Cleared(q)'
                 \/ /\ q \in DOMAIN server'.tree <=> q \in DOMAIN server.tree
                    /\ q \in DOMAIN server.tree => server'.tree[q] = server.tree[q]
      BY <2>1, <3>2 DEF Without, Restrict
    <3>. QED  BY <2>2, <2>4, <3>3, <3>4, CacheStill
  <2>. QED  BY <1>0, <1>10, <2>3, <2>4, ClearIs
<1>. QED  BY <1>1, <1>2, <1>3, <1>4, <1>5, <1>6, <1>7, <1>8, <1>9, <1>10 DEF Session

-----------------------------------------------------------------------------
(* The local tree.                                                            *)

\* What a call of the local provider changes.
LEMMA LocalAfterIs ==
    ASSUME NEW c
    PROVE  \/ c.op = "Mkdir" /\ LocalAfter(c) = With(local, c.path, Folder)
           \/ c.op = "Delete" /\ LocalAfter(c) = Without(local, c.path)
           \/ c.op \notin {"Mkdir", "Delete"} /\ LocalAfter(c) = local
<1>1. CASE c.op = "Mkdir"
  BY <1>1, Zenon DEF LocalAfter
<1>2. CASE c.op = "Delete"
  BY <1>2, Zenon DEF LocalAfter
<1>3. CASE c.op \notin {"Mkdir", "Delete"}
  <2>1. c.op # "Mkdir" /\ c.op # "Delete"
    BY <1>3
  <2>2. LocalAfter(c) = local
    BY <2>1, Zenon DEF LocalAfter
  <2>. QED  BY <1>3, <2>2
<1>. QED  BY <1>1, <1>2, <1>3

\* What a step does to the local tree.
LEMMA LocalStep ==
    ASSUME TaskInv, TreeInv, UploadInv, [Next]_vars
    PROVE  \/ local' = local
           \/ /\ Call /\ SideOf(Now) = "local" /\ CallOf(Now).op = "Mkdir" /\ LocalCan(CallOf(Now))
              /\ local' = With(local, CallOf(Now).path, Folder)
           \/ /\ Call /\ SideOf(Now) = "local" /\ CallOf(Now).op = "Delete" /\ LocalCan(CallOf(Now))
              /\ local' = Without(local, CallOf(Now).path)
           \/ /\ Downloaded /\ job.to = "local" /\ ~ IsFolder(local, Now.to) /\ call.data \in Whole
              /\ local' = With(local, Now.to, call.data)
<1>1. CASE Call
  <2>1. CASE SideOf(Now) = "local" /\ LocalCall(CallOf(Now))
    <3>1. PICK c : c = CallOf(Now)
      OBVIOUS
    <3>2. local' = local \/ (LocalCan(c) /\ local' = LocalAfter(c))
      BY <2>1, <3>1 DEF LocalCall
    <3>. QED  BY <1>1, <2>1, <3>1, <3>2, LocalAfterIs
  <2>. QED  BY <1>1, <2>1, CallBegins
<1>2. CASE Downloaded
  <2>1. call.op = "Download" /\ call.step = "done" /\ call.st = "Ok"
    BY <1>2 DEF Downloaded, AnsweredOk, Answered
  <2>2. call.data \in Whole
    BY <2>1 DEF UploadInv, TreeInv, IsFile, TreeOK
  <2>3. local' = local \/ (job.to = "local" /\ ~ IsFolder(local, Now.to) /\ local' = With(local, Now.to, call.data))
    BY <1>2 DEF Downloaded
  <2>. QED  BY <1>2, <2>2, <2>3
<1>3. CASE Engines /\ ~ Call /\ ~ Downloaded
  BY <1>3, EngineStep
<1>4. CASE ~ Engines
  BY <1>4, StepIs DEF OutsideEngine, vars
<1>. QED  BY <1>1, <1>2, <1>3, <1>4

\* Every step leaves trees on both sides.
LEMMA TreeNext ==
    ASSUME TaskInv, TreeInv, UploadInv, [Next]_vars
    PROVE  TreeInv'
<1>0. TreeOK(local) /\ DOMAIN server = {"tree", "parts"} /\ TreeOK(server.tree) /\ PartsOK(server.parts)
      /\ DOMAIN cache = {"dir", "list"} /\ FoundOK(cache.list)
  BY DEF TreeInv
<1>1. TreeOK(local')
  <2>1. CASE local' = local
    BY <1>0, <2>1
  <2>2. CASE Call /\ (local' = With(local, CallOf(Now).path, Folder) \/ local' = Without(local, CallOf(Now).path))
    <3>1. Now \in Tasks /\ Now.op \notin {"Drop", "End"}
      BY <2>2, CallBegins
    <3>2. CallOf(Now).path \in Path
      BY <3>1, CallHas DEF Named
    <3>3. TreeOK(With(local, CallOf(Now).path, Folder)) /\ TreeOK(Without(local, CallOf(Now).path))
      BY <1>0, <3>2, WithOK, WithoutOK, Marks
    <3>. QED  BY <2>2, <3>3
  <2>3. CASE Downloaded /\ call.data \in Whole /\ local' = With(local, Now.to, call.data)
    <3>1. Now \in Tasks
      BY <2>3, NowIs DEF Downloaded, AnsweredOk, Answered
    <3>2. Now.to \in Path
      BY <3>1 DEF Tasks, Named
    <3>3. TreeOK(With(local, Now.to, call.data))
      BY <1>0, <2>3, <3>2, WithOK
    <3>. QED  BY <2>3, <3>3
  <2>. QED  BY <2>1, <2>2, <2>3, LocalStep
<1>2. DOMAIN server' = {"tree", "parts"} /\ TreeOK(server'.tree) /\ PartsOK(server'.parts)
  <2>1. CASE Outside
    BY <2>1, ServerStep, PartsNext
  <2>2. CASE server' = server
    BY <1>0, <2>2
  <2>. QED  BY <2>1, <2>2, StepIs, EngineStep DEF Outside, sessionVars, vars
<1>3. DOMAIN cache' = {"dir", "list"} /\ FoundOK(cache'.list)
  <2>1. CASE Session
    BY <2>1, CacheStep
  <2>2. CASE cache' = cache
    BY <1>0, <2>2
  <2>. QED  BY <2>1, <2>2, StepIs, EngineStep DEF sessionVars, vars, OtherClient, FsClose
<1>. QED  BY <1>1, <1>2, <1>3 DEF TreeInv, TreeOK, PartsOK, FoundOK

\* The files to resolve or to write are those before, or were just found.
LEMMA NewSources ==
    ASSUME TaskInv, TreeInv, UploadInv, LocalInv, Engines, job.from = "local",
           NEW t \in Range(todo'), t.op \in {"Resolve", "Write"}
    PROVE  IsFile(local, t.from)
<1>0. \A x \in Range(todo) : x.op \in {"Resolve", "Write"} => IsFile(local, x.from)
  BY DEF LocalInv
<1>1. todo' = todo => IsFile(local, t.from)
  BY <1>0
<1>2. todo' # << >>
  <2>1. todo' = << >> => Range(todo') = {}
    BY NoTask
  <2>. QED  BY <2>1
<1>3. todo # << >> => \A x \in Later : x.op \in {"Resolve", "Write"} => IsFile(local, x.from)
  BY <1>0, NowIs
<1>4. ASSUME NEW new, Went(new), todo # << >>, t \notin new
      PROVE  IsFile(local, t.from)
  BY <1>3, <1>4 DEF Went
<1>5. todo # << >> /\ Now.op \in {"Resolve", "Write"} => IsFile(local, Now.from)
  BY <1>0, NowIs
<1>6. ~ SameProvider
  BY JobIs DEF TaskInv
<1>7. CASE Call
  BY <1>1, <1>7 DEF Call
<1>8. CASE Attempt
  <2>1. todo # << >> /\ Now.op # "Reconnect"
    BY <1>8 DEF Attempt
  <2>2. /\ Again.op = Now.op /\ Again.from = Now.from /\ Recon.op = "Reconnect"
    BY <2>1, AgainIs
  <2>3. t \in {Recon, Again} => IsFile(local, t.from)
    BY <1>5, <2>1, <2>2
  <2>4. Went({}) \/ Went({Again}) \/ Went({Recon, Again})
    BY <1>2, <1>8, AttemptTasks
  <2>. QED  BY <1>4, <2>1, <2>3, <2>4
<1>9. CASE Reconnected \/ Uploaded
  <2>1. todo # << >>
    BY <1>9 DEF Reconnected, Uploaded, AnsweredOk, Answered
  <2>. QED  BY <1>4, <1>9, <2>1, SimpleTasks
<1>10. CASE Escape
  BY <1>2, <1>10 DEF Escape, Stop
<1>11. CASE Decide
  <2>1. todo # << >>
    BY <1>11 DEF Decide
  <2>2. Task("Delete", Now.from, Now.to, Now.dir).op = "Delete"
    BY DEF Task
  <2>3. t # Task("Delete", Now.from, Now.to, Now.dir)
    BY <2>2
  <2>. QED  BY <1>4, <1>11, <2>1, <2>3, DecideTasks
<1>12. CASE ItemFound
  <2>0. AnsweredOk("Item")
    BY <1>12 DEF ItemFound
  <2>1. todo # << >> /\ Now.op = "Item" /\ CallOK /\ call.step = "done" /\ call.st = "Ok"
    BY <2>0, AnsweredIs DEF AnsweredOk
  <2>2. PICK dir \in BOOLEAN :
              /\ dir = call.found[Now.from]
              /\ \/ Went({ThisDelete(dir), ThisEnd(dir)})
                 \/ Went({ThisCopy(dir), ThisEnd(dir)})
                 \/ Went({})
                 \/ Went({Task("Look", Now.from, Now.to, dir)})
                 \/ Went({ThisCopy(dir), ThisDrop(dir), ThisEnd(dir)})
    BY <1>12, ItemFoundTasks
  <2>3. /\ ThisDelete(dir).op = "Delete" /\ ThisEnd(dir).op = "End" /\ ThisDrop(dir).op = "Drop"
        /\ Task("Look", Now.from, Now.to, dir).op = "Look"
    BY DEF ThisDelete, ThisEnd, ThisDrop, Task
  <2>4. Now \in Tasks /\ Now.from \in Named /\ Now.to \in Named
    BY <2>1, NowIs DEF Tasks
  <2>5. t = ThisCopy(dir) => IsFile(local, t.from)
    <3>1. SUFFICES ASSUME t = ThisCopy(dir) PROVE IsFile(local, t.from)
      OBVIOUS
    <3>2. t.from = Now.from
      BY <2>4, <3>1, CopyNodeIs DEF ThisCopy
    <3>3. ~ dir
      BY <3>1 DEF ThisCopy, CopyNode, Task
    <3>4. SideOf(Now) = "local"
      BY <2>1, Zenon DEF SideOf
    <3>5. CallOf(Now).op = "Stat" /\ CallOf(Now).path = Now.from
      <4>1. CallOf(Now) = NewCall("Stat", Now.from, Now.to, Folder)
        BY <2>1, Zenon DEF CallOf
      <4>. QED  BY <4>1, NewCallIs
    <3>6. call.op = "Stat" /\ call.path = Now.from /\ Now.from \in DOMAIN call.found
      BY <2>1, <3>5 DEF CallOK
    <3>7. Now.from \in DOMAIN local /\ call.found[Now.from] = IsFolder(local, Now.from)
      BY <2>1, <3>4, <3>6 DEF LocalInv
    <3>. QED  BY <2>2, <3>2, <3>3, <3>7 DEF IsFile, IsFolder
  <2>6. t \notin {ThisDelete(dir), ThisEnd(dir), ThisDrop(dir), Task("Look", Now.from, Now.to, dir)}
    BY <2>3
  <2>. QED  BY <1>4, <2>1, <2>2, <2>5, <2>6
<1>13. CASE Looked
  <2>0. Answered("Look")
    BY <1>13 DEF Looked
  <2>1. todo # << >> /\ Now.op = "Look"
    BY <2>0 DEF Answered
  <2>2. Good(Now)
    BY <2>1, NowIs
  <2>. QED  BY <1>6, <2>1, <2>2 DEF Good
<1>14. CASE RenameDone
  <2>1. todo # << >> /\ Now.op = "Rename"
    BY <1>14 DEF RenameDone, Answered
  <2>2. Good(Now)
    BY <2>1, NowIs
  <2>. QED  BY <1>6, <2>1, <2>2 DEF Good, Moves
<1>15. CASE FolderSeen \/ FolderMade
  <2>1. todo # << >>
    BY <1>15 DEF FolderSeen, FolderMade, AnsweredOk, Answered
  <2>2. Now \in Tasks
    BY <2>1, NowIs
  <2>3. \A op \in {"Mkdir", "Kids"} : t # [Now EXCEPT !.op = op]
    <3>1. \A op \in TaskOps : [Now EXCEPT !.op = op].op = op
      BY <2>2, TaskWith
    <3>2. {"Mkdir", "Kids"} \subseteq TaskOps
      BY DEF TaskOps, CopyOps
    <3>. QED  BY <3>1, <3>2
  <2>. QED  BY <1>2, <1>4, <1>15, <2>1, <2>3, FolderTasks
<1>16. CASE KidsListed
  <2>0. AnsweredOk("Kids")
    BY <1>16 DEF KidsListed
  <2>1. todo # << >> /\ Now.op = "Kids" /\ CallOK /\ call.step = "done" /\ call.st = "Ok"
    BY <2>0, AnsweredIs DEF AnsweredOk
  <2>2. Went({ThisKid(p) : p \in DOMAIN call.found})
    BY <1>16, KidsTasks
  <2>3. ASSUME NEW p \in DOMAIN call.found, t = ThisKid(p)
        PROVE  IsFile(local, t.from)
    <3>1. t.from = p
      BY <2>1, <2>3, KidIs
    <3>2. ~ call.found[p]
      BY <2>3 DEF ThisKid, CopyNode, Task
    <3>3. SideOf(Now) = "local"
      BY <2>1, Zenon DEF SideOf
    <3>4. CallOf(Now).op = "List"
      <4>1. CallOf(Now) = NewCall("List", Now.from, Now.to, Folder)
        BY <2>1, Zenon DEF CallOf
      <4>. QED  BY <4>1, NewCallIs
    <3>5. call.op = "List"
      BY <2>1, <3>4 DEF CallOK
    <3>6. p \in DOMAIN local /\ call.found[p] = IsFolder(local, p)
      BY <2>1, <2>3, <3>3, <3>5 DEF LocalInv
    <3>. QED  BY <3>1, <3>2, <3>6 DEF IsFile, IsFolder
  <2>. QED  BY <1>4, <2>1, <2>2, <2>3
<1>17. CASE Downloaded
  <2>1. CallOK /\ Now.op = "Write" /\ call.op = "Download" /\ todo # << >>
    BY <1>17, AnsweredIs DEF Downloaded, AnsweredOk
  <2>. QED  BY <2>1, WriteCall
<1>18. CASE Deleted
  <2>1. todo # << >> /\ CallOK
    BY <1>18, DeletedTasks
  <2>2. \/ Went({})
        \/ /\ Went({ThisGone(p) : p \in DOMAIN call.found} \cup {ThisRemove})
           /\ ThisRemove.op = "Remove" /\ \A p \in DOMAIN call.found : ThisGone(p).op = "Delete"
    BY <1>18, DeletedTasks
  <2>. QED  BY <1>4, <2>1, <2>2
<1>19. CASE ResolveFileConflict
  <2>0. Answered("Resolve")
    BY <1>19 DEF ResolveFileConflict
  <2>1. todo # << >> /\ Now.op = "Resolve"
    BY <2>0 DEF Answered
  <2>3. CASE \E n \in Names : Went({ThisOther(n)}) /\ ThisOther(n).from = Now.from
    BY <1>4, <1>5, <2>1, <2>3
  <2>4. CASE \E exists \in BOOLEAN : Went({ThisPut(exists)})
    BY <1>4, <1>5, <2>1, <2>4, PutIs
  <2>. QED  BY <1>2, <1>4, <1>19, <2>1, <2>3, <2>4, ResolveTasks
<1>. QED  BY <1>7, <1>8, <1>9, <1>10, <1>11, <1>12, <1>13, <1>14, <1>15, <1>16, <1>17, <1>18, <1>19 DEF Engines

\* What the local disk said was found stays so while the answer is read.
LEMMA NewFound ==
    ASSUME TaskInv, TreeInv, UploadInv, LocalInv, Engines, job.from = "local",
           call'.op \in {"Stat", "List"}, todo' # << >>, SideOf(Now)' = "local",
           NEW p \in DOMAIN call'.found
    PROVE  p \in DOMAIN local' /\ call'.found[p] = IsFolder(local', p)
<1>1. CASE call' = NoCall
  BY <1>1, NoCallIs
<1>2. CASE WriteFails
  <2>1. CallOK /\ Now.op = "Write" /\ todo # << >>
    BY <1>2, AnsweredIs DEF WriteFails, Downloaded, AnsweredOk
  <2>2. DOMAIN call = CallFields /\ call' = [call EXCEPT !.st = "Failed"]
    BY <1>2, <2>1, CallNow DEF WriteFails
  <2>3. call'.op = call.op
    BY <2>2 DEF CallFields
  <2>. QED  BY <2>1, <2>3, WriteCall
<1>3. CASE Call
  <2>1. /\ job' = job /\ todo' = todo /\ todo # << >> /\ Now \in Tasks /\ Now.op \notin {"Drop", "End"}
        /\ \/ SideOf(Now) # "local"
           \/ SideOf(Now) = "local" /\ Now.op # "Write" /\ LocalCall(CallOf(Now))
    BY <1>3, CallBegins
  <2>2. SideOf(Now) = "local"
    BY <2>1, CallFrame
  <2>3. PICK c : c = CallOf(Now)
    OBVIOUS
  <2>4. DOMAIN c = CallFields /\ c.st = "Ok" /\ c.found = << >> /\ c.path \in Named
    BY <2>1, <2>3, CallHas
  <2>5. /\ call'.op = c.op
        /\ \/ call'.found = LocalFound(c) /\ local' = LocalAfter(c)
           \/ call'.found = << >>
    BY <2>1, <2>2, <2>3, <2>4, LocalAnswer
  <2>6. DOMAIN << >> = {}
    OBVIOUS
  <2>7. call'.found = LocalFound(c) /\ local' = LocalAfter(c)
    BY <2>5, <2>6
  <2>8. local' = local
    BY <2>5, <2>7, LocalAfterIs
  <2>9. CASE c.op = "Stat"
    <3>1. LocalCan(c)
      BY <2>1, <2>2, <2>3, <2>4, <2>6, LocalAnswer
    <3>2. c.path \in DOMAIN local
      BY <2>9, <3>1, Zenon DEF LocalCan
    <3>3. DOMAIN LocalFound(c) = {c.path} /\ LocalFound(c)[c.path] = IsFolder(local, c.path)
      BY <2>4, <2>9, LocalFoundIs DEF TreeInv
    <3>. QED  BY <2>7, <2>8, <3>2, <3>3
  <2>10. CASE c.op = "List"
    <3>1. LocalFound(c) = Listing(local, c.path)
      BY <2>4, <2>10, LocalFoundIs DEF TreeInv
    <3>2. c.path \in Path
      BY <2>4 DEF Named
    <3>3. /\ DOMAIN Listing(local, c.path) = Children(local, c.path)
          /\ \A q \in Children(local, c.path) : q \in DOMAIN local /\ Listing(local, c.path)[q] = (local[q] = Folder)
      BY <3>2, ListingIs DEF TreeInv
    <3>4. p \in DOMAIN local /\ call'.found[p] = (local[p] = Folder)
      BY <2>7, <3>1, <3>3
    <3>. QED  BY <2>8, <3>4 DEF IsFolder
  <2>. QED  BY <2>5, <2>9, <2>10
<1>. QED  BY <1>1, <1>2, <1>3, EngineStep

\* A file to be resolved or written is not deleted.
LEMMA SourcesStay ==
    ASSUME TaskInv, TreeInv, UploadInv, LocalInv, [Next]_vars, job.from = "local",
           NEW t \in Range(todo'), t.op \in {"Resolve", "Write"}, IsFile(local, t.from)
    PROVE  IsFile(local', t.from)
<1>1. CASE local' = local
  BY <1>1
<1>2. CASE Call /\ SideOf(Now) = "local" /\ CallOf(Now).op = "Mkdir"
  <2>1. Now \in Tasks /\ Now.op \notin {"Drop", "End"}
    BY <1>2, CallBegins
  <2>2. Now.op = "Mkdir"
    BY <1>2, <2>1, CallHas
  <2>3. SideOf(Now) = job.to
    BY <2>2, Zenon DEF SideOf
  <2>. QED  BY <1>2, <2>3, JobIs DEF TaskInv
<1>3. CASE Call /\ SideOf(Now) = "local" /\ CallOf(Now).op = "Delete"
  <2>1. Now \in Tasks /\ Now.op \notin {"Drop", "End"} /\ todo # << >> /\ todo' = todo
    BY <1>3, CallBegins
  <2>2. Good(Now) /\ Range(todo) = {Now} \cup Later /\ \A y \in Later : Follows(Now, y)
    BY <2>1, NowIs
  <2>3. ~ SameProvider
    BY JobIs DEF TaskInv
  <2>4. Now.op \in DeleteOps
    BY <1>3, <2>1, <2>2, <2>3, CallHas DEF Good, Moves
  <2>5. t = Now \/ t \in Later
    BY <2>1, <2>2
  <2>. QED  BY <2>2, <2>4, <2>5 DEF Follows, DeleteOps
<1>4. CASE Downloaded
  <2>1. CallOK /\ Now.op = "Write" /\ call.op = "Download"
    BY <1>4, AnsweredIs DEF Downloaded, AnsweredOk
  <2>. QED  BY <2>1, WriteCall
<1>. QED  BY <1>1, <1>2, <1>3, <1>4, LocalStep

\* The invariant of local sources holds after every step.
LEMMA LocalNext ==
    ASSUME TaskInv, TreeInv, UploadInv, LocalInv, [Next]_vars
    PROVE  LocalInv'
<1>1. CASE Engines
  <2>1. job' = job
    BY <1>1, EngineStep
  <2>2. SUFFICES ASSUME job.from = "local" PROVE LocalInv'
    BY <2>1 DEF LocalInv
  <2>3. ASSUME NEW t \in Range(todo'), t.op \in {"Resolve", "Write"}
        PROVE  IsFile(local', t.from)
    BY <1>1, <2>2, <2>3, NewSources, SourcesStay
  <2>4. ASSUME call'.op \in {"Stat", "List"}, todo' # << >>, SideOf(Now)' = "local", NEW p \in DOMAIN call'.found
        PROVE  p \in DOMAIN local' /\ call'.found[p] = IsFolder(local', p)
    BY <1>1, <2>2, <2>4, NewFound
  <2>. QED  BY <2>3, <2>4 DEF LocalInv, IsFile, IsFolder
<1>2. CASE ~ Engines
  <2>1. job' = job /\ todo' = todo /\ local' = local
    BY <1>2, StepIs DEF OutsideEngine, vars
  <2>2. SideOf(Now)' = SideOf(Now)
    BY <2>1, CallFrame
  <2>3. ASSUME call'.op \in {"Stat", "List"}, todo # << >>, SideOf(Now) = "local"
        PROVE  call' = call
    <3>1. ~ Session
      <4>1. SUFFICES ASSUME Session PROVE FALSE
        OBVIOUS
      <4>2. CallOK /\ DOMAIN call = CallFields
        BY <4>1, SessionIsCall, CallNow
      <4>3. call.step # "done"
        BY <4>1, <4>2, SessionCall
      <4>. QED  BY <2>3, <4>2, <4>3 DEF CallOK
    <3>. QED  BY <1>2, <2>3, <3>1, StepIs DEF OtherClient, FsClose, vars
  <2>. QED  BY <2>1, <2>2, <2>3 DEF LocalInv, IsFile, IsFolder
<1>. QED  BY <1>1, <1>2

\* The cache stays right at every step.
LEMMA CacheNext ==
    ASSUME TaskInv, TreeInv, CacheInv, UploadInv, [Next]_vars
    PROVE  CacheInv'
<1>0. DOMAIN server = ServerFields
  BY DEF TreeInv, ServerFields
<1>1. CASE Engines
  <2>1. server' = server /\ cache' = cache /\ touched' = touched
    BY <1>1, EngineStep DEF sessionVars
  <2>2. call.op # "Upload" \/ call.step # "again"
    <3>1. call = NoCall \/ call.step = "done"
      BY <1>1, EngineStep DEF Call
    <3>. QED  BY <3>1, NoCallIs
  <2>. QED  BY <2>1, <2>2, CacheSameTree
<1>2. CASE Session
  BY <1>2, CacheSession
<1>3. CASE FsClose
  <2>1. server'.tree = server.tree
    BY <1>0, <1>3, ReconnectTree
  <2>. QED  BY <1>3, <2>1, NoCallIs, CacheSameTree DEF FsClose
<1>4. CASE OtherClient
  <2>1. PICK p \in OtherPaths : /\ server' = [server EXCEPT !.tree = With(server.tree, p, Other)]
                                /\ touched' = touched \cup {p}
    BY <1>4 DEF OtherClient
  <2>2. server'.tree = With(server.tree, p, Other)
    BY <1>0, <2>1, ServerWith
  <2>3. cache' = cache /\ call' = call
    BY <1>4 DEF OtherClient
  <2>4. IsPrefix(p, p)
    BY PrefixRefl, RemoteAssumption
  <2>5. \A q : q = p => Unknown(q)'
    BY <2>1, <2>4 DEF Unknown
  <2>6. \A q : Cleared(q) => Cleared(q)'
    BY <2>3 DEF Cleared
  <2>7. \A q : \/ Unknown(q)'
               \/ /\ q \in DOMAIN server'.tree <=> q \in DOMAIN server.tree
                  /\ q \in DOMAIN server.tree => server'.tree[q] = server.tree[q]
    BY <2>2, <2>5 DEF With
  <2>. QED  BY <2>1, <2>3, <2>6, <2>7, CacheStill
<1>5. CASE UNCHANGED vars
  BY <1>5 DEF vars, sessionVars, CacheInv, Seen, Agrees, Unknown, Cleared, Children
<1>. QED  BY <1>1, <1>2, <1>3, <1>4, <1>5, StepIs

-----------------------------------------------------------------------------
(* The invariant of the session.                                              *)

SessionInv == TaskInv /\ TreeInv /\ CacheInv /\ UploadInv /\ LocalInv

\* The operation begins with good tasks in order.
LEMMA InitTasks ==
    ASSUME Init
    PROVE  TaskInv
<1>. DEFINE N == Len(job.items)
            P(i) == Append(job.sdir, job.items[i])
            T(i) == Append(job.tdir, job.items[i])
            F(i) == Task("Item", P(i), T(i), FALSE)
<1>1. job \in Jobs /\ todo = [i \in DOMAIN job.items |-> F(i)] /\ Idle
  BY DEF Init, RemoteInit, Idle
<1>2. job.items \in Seq(Names) /\ \A i \in DOMAIN job.items : P(i) \in Named /\ T(i) \in Named
  BY <1>1, JobIs
<1>3. DOMAIN job.items = 1..N /\ N \in Nat
  BY <1>2
<1>4. ASSUME NEW i \in DOMAIN job.items
      PROVE  F(i) \in GoodTasks /\ F(i).op = "Item" /\ F(i).then = "None"
  <2>1. P(i) \in Named /\ T(i) \in Named
    BY <1>2
  <2>2. F(i).op = "Item" /\ F(i).then = "None" /\ F(i).from = P(i) /\ F(i).to = T(i)
    BY DEF Task
  <2>3. F(i) \in Tasks
    BY <2>1, Marks DEF Task, Tasks, TaskOps
  <2>4. ItemOf(F(i))
    BY <1>4, <2>2 DEF ItemOf
  <2>5. Good(F(i))
    BY <2>2, <2>4 DEF Good, Moves
  <2>. QED  BY <2>2, <2>3, <2>5 DEF GoodTasks
<1>. HIDE DEF F, P, T
<1>5. todo \in [1..N -> GoodTasks]
  BY <1>1, <1>3, <1>4
<1>6. \A T1, s : \A n \in Nat : s \in [1..n -> T1] => s \in Seq(T1)
  OBVIOUS
<1>7. todo \in Seq(GoodTasks)
  BY <1>3, <1>5, <1>6
<1>8. DOMAIN todo = DOMAIN job.items /\ \A i \in DOMAIN todo : todo[i].op = "Item" /\ todo[i].then = "None"
  BY <1>1, <1>4
<1>9. Ordered(todo)
  BY <1>8 DEF Ordered, Follows, Moves, CopyOps, DeleteOps
<1>. QED  BY <1>1, <1>7, <1>9 DEF TaskInv

\* The invariant of the session holds initially.
LEMMA InitSession ==
    ASSUME Init
    PROVE  SessionInv
<1>1. TaskInv
  BY InitTasks
<1>2. job \in Jobs /\ local = job.local /\ server = [tree |-> job.server, parts |-> << >>] /\ cache = NoCache
      /\ call = NoCall /\ pendingParts = {} /\ stray = {} /\ touched = {}
  BY DEF Init, RemoteInit
<1>3. TreeOK(job.local) /\ TreeOK(job.server)
  BY <1>2, JobIs
<1>4. DOMAIN << >> = {}
  OBVIOUS
<1>5. server.tree = job.server /\ server.parts = << >> /\ DOMAIN server = {"tree", "parts"}
  BY <1>2
<1>6. TreeInv
  BY <1>2, <1>3, <1>4, <1>5, NoCacheIs DEF TreeInv, PartsOK
<1>7. CacheInv
  BY <1>2, NoCacheIs DEF CacheInv, Seen
<1>8. UploadInv
  BY <1>2, <1>4, <1>5, NoCallIs DEF UploadInv
<1>9. LocalInv
  <2>1. \A i \in DOMAIN todo : todo[i].op = "Item"
    BY DEF Init, Task
  <2>2. \A t \in Range(todo) : t.op = "Item"
    BY <2>1 DEF Range
  <2>. QED  BY <1>2, <2>2, NoCallIs DEF LocalInv
<1>. QED  BY <1>1, <1>6, <1>7, <1>8, <1>9 DEF SessionInv

\* And every step keeps it.
LEMMA SessionNext ==
    ASSUME SessionInv, [Next]_vars
    PROVE  SessionInv'
BY TaskNext, TreeNext, CacheNext, UploadNext, LocalNext DEF SessionInv

\* Whatever fails or is lost, the provider call in progress is the current task's, what a
\* task does may follow what was done, both sides hold trees, the cached listing and the
\* part files are accounted for (RemotePanel.cpp, ProviderCopy.cpp).
THEOREM SessionHolds == Spec => []SessionInv
<1>1. Init => SessionInv
  BY InitSession
<1>2. SessionInv /\ [Next]_vars => SessionInv'
  BY SessionNext
<1>. QED  BY <1>1, <1>2, PTL DEF Spec

\* The listing a session keeps agrees with the server about everything that the session
\* itself did to it (the cache of RemotePanel.cpp).
THEOREM CacheIsTrue == Spec => []CacheTracksOwnChanges
<1>1. SessionInv => CacheTracksOwnChanges
  BY DEF SessionInv, CacheInv, CacheTracksOwnChanges, Seen, Agrees, Unknown, Cleared
<1>. QED  BY <1>1, SessionHolds, PTL

\* A part file on the server is being written, is remembered for removal, or its removal
\* was tried and failed (pendingParts_ of RemotePanel.cpp).
THEOREM PartsAreKnown == Spec => []PartsRemembered
<1>1. ASSUME SessionInv PROVE PartsRemembered
  <2>1. \A p \in DOMAIN server.tree : server.tree[p] # Partial
    BY <1>1, Marks DEF SessionInv, TreeInv, TreeOK
  <2>. QED  BY <1>1, <2>1 DEF SessionInv, UploadInv, PartsRemembered
<1>2. SessionInv => PartsRemembered
  BY <1>1
<1>. QED  BY <1>2, SessionHolds, PTL
=============================================================================
