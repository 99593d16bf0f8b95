---------------------------- MODULE PermStoreProofs ----------------------------
(***************************************************************************)
(* Theorems about PermStore: while no compaction is begun, the file holds   *)
(* the last commit point whatever fails, and the table, the cache and the   *)
(* free list agree with it, for every number of entries and slots.          *)
(***************************************************************************)
EXTENDS PermStore, InductionProofs, SequenceTheorems, FiniteSetTheorems, FunctionTheorems, TLAPS

-----------------------------------------------------------------------------
(* What the file and the coordinator hold *)

DataBlocks == [kind : {"data"}, val : Data]
BaseBlocks == [kind : {"base"}, primary : Handles \cup {Nil}, avail : Handles \cup {Nil},
               ent : Seq(Entries)]
DeltaBlocks == [kind : {"delta"}, primary : Handles \cup {Nil}, avail : Handles \cup {Nil},
                count : 0 .. MaxIndex, base : 0 .. MaxPos, magic : Nat, ent : EntryMaps]
Blocks == {Free, Garbage} \cup DataBlocks \cup BaseBlocks \cup DeltaBlocks
Headers == [dirty : BOOLEAN, backup : 0 .. MaxPos \cup {Torn}, rel : {Nil, Torn},
            ref : 0 .. MaxPos \cup {Torn},
            crc : {Torn} \cup ((0 .. MaxPos) \X {Nil} \X (0 .. MaxPos))]
Files == [hdr : Headers, body : [Pos -> Blocks], atomic : BOOLEAN]

Sizes == [kind : {"size"}, pos : 0 .. MaxPos]
BlockWrites == [kind : {"block"}, pos : Pos, block : Blocks]
Backups == [kind : {"backup"}, toc : 0 .. MaxPos]
HeaderSets == [kind : {"header"}, hdr : Headers]
Cleans == [kind : {"clean"}]
Writes == Sizes \cup BlockWrites \cup Backups \cup HeaderSets \cup Cleans

Coords == [active : BOOLEAN, toc : 0 .. MaxPos, reloc : {Nil}, target : {0}, backup : BOOLEAN,
           clip : BOOLEAN, ext : 0 .. MaxPos, extend : {Nil} \cup Extending]

TypeInv ==
    /\ disk \in Files /\ view \in Files /\ wq \in Seq(Writes)
    /\ tab \in Tables \cup {Nil}
    /\ coord \in Coords
    /\ cache = [h \in DOMAIN cache |-> cache[h]] /\ DOMAIN cache \subseteq Handles
    /\ coll = Nil
    /\ reader \in Opened \cup {Nil}
    /\ root \in Handles \cup {Nil}
    /\ phase \in {"ready", "toc", "header", "closed"}

-----------------------------------------------------------------------------
(* Tables that are in order *)

\* All entries of a table, those in memory and those in the base.
Image(t, body) == [i \in 1 .. t.count |-> EntryAt(t, body, i)]

\* Every stream with data has it in a slot up to hi.
Placed(e, body, hi) ==
    \A i \in DOMAIN e : ~e[i].inv =>
        e[i].ref = Empty \/ (e[i].ref \in 1 .. hi /\ body[e[i].ref].kind = "data")

\* s are the free entries, each linked to the next, but for the ones being made.
Chain(s, e, avail, made) ==
    /\ avail = IF s = <<>> THEN Nil ELSE s[1]
    /\ \A k \in 1 .. Len(s) :
          /\ s[k][1] \in DOMAIN e /\ s[k][1] \notin made
          /\ e[s[k][1]].inv /\ e[s[k][1]].gen = s[k][2]
          /\ e[s[k][1]].ref = IF k = Len(s) THEN Nil ELSE s[k + 1]
    /\ \A k, l \in 1 .. Len(s) : s[k][1] = s[l][1] => k = l
    /\ \A i \in DOMAIN e : e[i].inv /\ i \notin made => \E k \in 1 .. Len(s) : s[k][1] = i

Linked(e, avail, made) == \E s \in Seq(Handles) : Chain(s, e, avail, made)

\* The entries that are not in memory are in the base.
Based(t, body, hi) ==
    /\ t \in Tables /\ t.toc <= hi /\ t.off <= hi
    /\ DOMAIN t.ent \subseteq 1 .. t.count
    /\ t.toc = 0 => DOMAIN t.ent = 1 .. t.count
    /\ t.toc # 0 => /\ body[t.toc].kind = "base" /\ Len(body[t.toc].ent) <= t.count
                    /\ \A i \in 1 .. t.count : i \in DOMAIN t.ent \/ i <= Len(body[t.toc].ent)

Good(t, body, hi, made) ==
    /\ Based(t, body, hi)
    /\ Placed(Image(t, body), body, hi)
    /\ Linked(Image(t, body), t.avail, made)

-----------------------------------------------------------------------------
(* The invariant *)

SameUpTo(b, c, n) == \A p \in 1 .. n : b[p] = c[p]

\* The table of the last commit point that this process knows of.
Committed == Load(view.body, coord.toc, 0)

\* The header makes toc the TOC that counts.
HeaderSays(h, toc) ==
    \/ h.dirty /\ h.backup = toc
    \/ ~h.dirty /\ h.rel = Nil /\ h.ref = toc /\ h.crc = <<toc, Nil, toc>>

\* It does so as iBackup of coordinator k remembers.
HeaderKnown(h, k) ==
    /\ HeaderSays(h, k.toc)
    /\ k.backup => ~h.dirty
    /\ ~k.backup => h.backup = k.toc

\* A write that leaves the last commit point alone.
Harmless(w, k) ==
    \/ w \in Sizes /\ w.pos >= k.toc
    \/ w \in BlockWrites /\ w.pos > k.toc
    \/ w \in Backups /\ w.toc = k.toc /\ k.backup

\* The file d, what the process sees of it, v, and the writes in between, q.
FileOK(d, v, q, k) ==
    /\ v = Replay(d, q) /\ Len(q) <= 3
    /\ d.atomic = v.atomic
    /\ SameUpTo(d.body, v.body, k.toc)
    /\ Good(Load(v.body, k.toc, 0), v.body, k.toc, {})
    /\ Load(v.body, k.toc, 0).off = k.toc
FileInv == FileOK(disk, view, wq, coord)

\* Between commits.
Quiet(d, v, q, k) ==
    /\ HeaderKnown(d.hdr, k) /\ HeaderKnown(v.hdr, k)
    /\ \A i \in 1 .. Len(q) : Harmless(q[i], k)

NewHeader(k) == Header(k.ext + 1, Nil, k.ext + 1, k.toc, FALSE)
DirtyHeader(k) == Header(k.ext + 1, Nil, k.ext + 1, k.toc, TRUE)

\* In a commit: the writes of BeginL that are left, and what the file holds then.
Switching(d, q, k) ==
    \/ q = <<>> /\ d.hdr = NewHeader(k)
    \/ /\ d.atomic /\ HeaderSays(d.hdr, k.toc)
       /\ q = <<[kind |-> "header", hdr |-> NewHeader(k)]>>
    \/ ~d.atomic /\ d.hdr = DirtyHeader(k) /\ q = <<[kind |-> "clean"]>>
    \/ /\ ~d.atomic /\ HeaderSays(d.hdr, k.toc) /\ d.hdr.backup = k.toc
       /\ q = <<[kind |-> "header", hdr |-> DirtyHeader(k)], [kind |-> "clean"]>>
    \/ /\ ~d.atomic /\ HeaderSays(d.hdr, k.toc) /\ ~d.hdr.dirty
       /\ q = <<[kind |-> "backup", toc |-> k.toc],
                [kind |-> "header", hdr |-> DirtyHeader(k)], [kind |-> "clean"]>>

HeaderInv ==
    /\ phase # "header" => HeaderSays(disk.hdr, coord.toc)
    /\ coord.active => phase \in {"ready", "toc"} /\ Quiet(disk, view, wq, coord)
    /\ ~coord.active /\ phase # "header" => wq = <<>>
    /\ phase = "toc" => coord.active
    /\ phase = "header" => ~coord.active /\ disk.body = view.body /\ Switching(disk, wq, coord)

\* The entry of a stream that is being created.
MadeOf(k) == IF k.extend # Nil /\ k.extend.new THEN {k.extend.h[1]} ELSE {}

\* Handle h is of a stream that is there.
IsLive(e, h) == h[1] \in DOMAIN e /\ ~e[h[1]].inv /\ e[h[1]].gen = h[2]

\* The places remembered in cache c are those of the entries e.
Cached(e, c) == \A h \in DOMAIN c : IsLive(e, h) /\ c[h] = e[h[1]].ref

\* The stream being written.
Extended(e, b, k) ==
    k.extend # Nil =>
        /\ k.extend.pos # Empty => k.extend.pos = k.ext + 1 /\ b[k.ext + 1].kind = "data"
        /\ IF k.extend.new
           THEN k.extend.h[1] \in DOMAIN e /\ e[k.extend.h[1]].inv /\ e[k.extend.h[1]].gen = k.extend.h[2]
           ELSE IsLive(e, k.extend.h)

\* Table t with the body b of the file, coordinator k, cache c, reader rd and root rt.
InUse(t, b, k, c, rd, rt) ==
    /\ Good(t, b, k.ext, MadeOf(k))
    /\ k.toc <= k.ext /\ t.off = k.toc /\ t.primary = Load(b, k.toc, 0).primary
    /\ ~t.virtual => rt = t.primary /\ k.ext = k.toc
    /\ Cached(Image(t, b), c)
    /\ Extended(Image(t, b), b, k)
    /\ rd # Nil => rd.pos <= k.ext /\ b[rd.pos] = DataBlock(rd.val)

\* The table in memory, while it can be used.
TableInv == Usable /\ tab # Nil => InUse(tab, view.body, coord, cache, reader, root)

\* Without a table nothing refers to it; one of a store shut down is good for
\* a revert only.
NoTableInv ==
    /\ tab = Nil => cache = NoEntries /\ reader = Nil /\ coord.extend = Nil /\ phase \in {"ready", "closed"}
    /\ phase = "closed" => tab = Nil /\ ~coord.active
    /\ phase = "ready" /\ tab = Nil => root = Committed.primary
    /\ phase = "ready" /\ tab # Nil /\ ~coord.active =>
          tab.primary = Committed.primary /\ (~tab.virtual => root = tab.primary)

\* How far the file reaches.
LastOf(t, k) == IF k.extend # Nil /\ k.extend.pos # Empty THEN k.extend.pos
                ELSE IF t # Nil THEN k.ext ELSE k.toc
EndsAt(b, n) == \A p \in Pos : p > n => b[p] = Free
TrimInv ==
    /\ phase = "ready" /\ coord.active /\ ~coord.clip => EndsAt(view.body, LastOf(tab, coord))
    /\ phase \in {"toc", "header"} =>
          /\ tab # Nil /\ tab.virtual /\ coord.extend = Nil /\ coord.ext < MaxPos
          /\ coord.clip
          /\ view.body[coord.ext + 1] = Realize(tab, view.body, root)
          /\ EndsAt(view.body, coord.ext + 1)

StoreInv == TypeInv /\ FileInv /\ HeaderInv /\ TableInv /\ NoTableInv /\ TrimInv

-----------------------------------------------------------------------------
(* Replaying writes *)

\* a are the states that the writes ws lead through.
Through(a, f, ws) == a = [n \in 0 .. Len(ws) |-> IF n = 0 THEN f ELSE Apply(a[n - 1], ws[n])]

\* The recursive definition in Replay has a value for the few writes of an operation.
LEMMA ThroughExists ==
    ASSUME NEW f, NEW ws, Len(ws) \in 0 .. 3
    PROVE  \E a : Through(a, f, ws)
<1> DEFINE f1 == Apply(f, ws[1])
           f2 == Apply(f1, ws[2])
           f3 == Apply(f2, ws[3])
           a == [n \in 0 .. Len(ws) |-> IF n = 0 THEN f ELSE IF n = 1 THEN f1 ELSE IF n = 2 THEN f2 ELSE f3]
<1>1. ASSUME NEW n \in 0 .. Len(ws)
      PROVE  a[n] = IF n = 0 THEN f ELSE Apply(a[n - 1], ws[n])
    <2>1. n = 0 \/ n = 1 \/ n = 2 \/ n = 3
        OBVIOUS
    <2>2. CASE n = 0
        BY <2>2
    <2>3. CASE n = 1
        BY <2>3
    <2>4. CASE n = 2
        BY <2>4
    <2>5. CASE n = 3
        BY <2>5
    <2> QED BY <2>1, <2>2, <2>3, <2>4, <2>5
<1>2. a = [n \in 0 .. Len(ws) |-> IF n = 0 THEN f ELSE Apply(a[n - 1], ws[n])]
    <2>1. a = [n \in 0 .. Len(ws) |-> a[n]]
        OBVIOUS
    <2> HIDE DEF a
    <2> QED BY <1>1, <2>1
<1> QED BY <1>2 DEF Through

LEMMA ReplayThrough ==
    ASSUME NEW f, NEW ws, Len(ws) \in 0 .. 3
    PROVE  \E a : Through(a, f, ws) /\ Replay(f, ws) = a[Len(ws)]
<1> DEFINE a == CHOOSE b : Through(b, f, ws)
<1>1. Through(a, f, ws)
    BY ThroughExists
<1>2. Replay(f, ws) = a[Len(ws)]
    BY DEF Replay, Through
<1> HIDE DEF a
<1> QED BY <1>1, <1>2

\* No write, one, two, three writes.
LEMMA ReplayFew ==
    ASSUME NEW f, NEW ws, Len(ws) \in 0 .. 3
    PROVE  /\ Len(ws) = 0 => Replay(f, ws) = f
           /\ Len(ws) = 1 => Replay(f, ws) = Apply(f, ws[1])
           /\ Len(ws) = 2 => Replay(f, ws) = Apply(Apply(f, ws[1]), ws[2])
           /\ Len(ws) = 3 => Replay(f, ws) = Apply(Apply(Apply(f, ws[1]), ws[2]), ws[3])
<1>1. PICK a : Through(a, f, ws) /\ Replay(f, ws) = a[Len(ws)]
    BY ReplayThrough
<1>2. /\ a[0] = f
      /\ Len(ws) >= 1 => a[1] = Apply(a[0], ws[1])
      /\ Len(ws) >= 2 => a[2] = Apply(a[1], ws[2])
      /\ Len(ws) >= 3 => a[3] = Apply(a[2], ws[3])
    BY <1>1 DEF Through
<1>3. Len(ws) = 0 => Replay(f, ws) = f
    BY <1>1, <1>2
<1>4. Len(ws) = 1 => Replay(f, ws) = Apply(f, ws[1])
    BY <1>1, <1>2
<1>5. Len(ws) = 2 => Replay(f, ws) = Apply(Apply(f, ws[1]), ws[2])
    <2> HAVE Len(ws) = 2
    <2>1. Replay(f, ws) = a[2] /\ a[2] = Apply(a[1], ws[2]) /\ a[1] = Apply(a[0], ws[1]) /\ a[0] = f
        BY <1>1, <1>2
    <2> QED BY ONLY <2>1, Zenon
<1>6. Len(ws) = 3 => Replay(f, ws) = Apply(Apply(Apply(f, ws[1]), ws[2]), ws[3])
    <2> HAVE Len(ws) = 3
    <2>1. /\ Replay(f, ws) = a[3] /\ a[3] = Apply(a[2], ws[3])
          /\ a[2] = Apply(a[1], ws[2]) /\ a[1] = Apply(a[0], ws[1]) /\ a[0] = f
        BY <1>1, <1>2
    <2> QED BY ONLY <2>1, Zenon
<1> QED BY <1>3, <1>4, <1>5, <1>6

\* The first write may be done before the others.
LEMMA ReplayHead ==
    ASSUME NEW f, NEW ws \in Seq(Writes), Len(ws) \in 1 .. 3
    PROVE  /\ Replay(Apply(f, Head(ws)), Tail(ws)) = Replay(f, ws)
           /\ Tail(ws) \in Seq(Writes) /\ Len(Tail(ws)) = Len(ws) - 1
<1>1. Tail(ws) \in Seq(Writes) /\ Len(Tail(ws)) = Len(ws) - 1
    OBVIOUS
<1>2. (Len(ws) >= 2 => Tail(ws)[1] = ws[2]) /\ (Len(ws) >= 3 => Tail(ws)[2] = ws[3])
    OBVIOUS
<1>3. Head(ws) = ws[1]
    OBVIOUS
<1> DEFINE g == Apply(f, ws[1])
           vs == Tail(ws)
<1>4. /\ Len(vs) = 0 => Replay(g, vs) = g
      /\ Len(vs) = 1 => Replay(g, vs) = Apply(g, vs[1])
      /\ Len(vs) = 2 => Replay(g, vs) = Apply(Apply(g, vs[1]), vs[2])
    <2>1. Len(vs) \in 0 .. 3
        BY <1>1
    <2> HIDE DEF g, vs
    <2> QED BY <2>1, ReplayFew
<1>5. /\ Len(ws) = 1 => Replay(f, ws) = g
      /\ Len(ws) = 2 => Replay(f, ws) = Apply(g, ws[2])
      /\ Len(ws) = 3 => Replay(f, ws) = Apply(Apply(g, ws[2]), ws[3])
    BY ReplayFew
<1>6. Len(ws) = 1 \/ Len(ws) = 2 \/ Len(ws) = 3
    OBVIOUS
<1> HIDE DEF g
<1>7. CASE Len(ws) = 1
    BY <1>1, <1>3, <1>4, <1>5, <1>7 DEF g
<1>8. CASE Len(ws) = 2
    <2>1. Tail(ws)[1] = ws[2] /\ Len(Tail(ws)) = 1
        BY <1>1, <1>2, <1>8
    <2>2. Replay(g, Tail(ws)) = Apply(g, Tail(ws)[1]) /\ Replay(f, ws) = Apply(g, ws[2])
        BY <1>4, <1>5, <1>8, <2>1
    <2> QED BY <1>1, <1>3, <2>1, <2>2, Zenon DEF g
<1>9. CASE Len(ws) = 3
    <2>1. Tail(ws)[1] = ws[2] /\ Tail(ws)[2] = ws[3] /\ Len(Tail(ws)) = 2
        <3>1. Len(Tail(ws)) = 2
            BY <1>1, <1>9
        <3>2. Len(ws) >= 2 /\ Len(ws) >= 3
            BY <1>9
        <3> QED BY <1>2, <3>1, <3>2, Zenon
    <2>2. /\ Replay(g, Tail(ws)) = Apply(Apply(g, Tail(ws)[1]), Tail(ws)[2])
          /\ Replay(f, ws) = Apply(Apply(g, ws[2]), ws[3])
        BY <1>4, <1>5, <1>9, <2>1
    <2> QED BY <1>1, <1>3, <2>1, <2>2, Zenon DEF g
<1> QED BY <1>6, <1>7, <1>8, <1>9

-----------------------------------------------------------------------------
(* Single writes *)

\* What a write does to the file.
LEMMA ApplyKinds ==
    ASSUME NEW f \in Files, NEW w \in Writes
    PROVE  /\ Apply(f, w) \in Files /\ Apply(f, w).atomic = f.atomic
           /\ w \in Sizes => /\ Apply(f, w).hdr = f.hdr
                             /\ Apply(f, w).body = [p \in Pos |-> IF p > w.pos THEN Free ELSE f.body[p]]
           /\ w \in BlockWrites => /\ Apply(f, w).hdr = f.hdr
                                   /\ Apply(f, w).body = [f.body EXCEPT ![w.pos] = w.block]
           /\ w \in Backups => /\ Apply(f, w).body = f.body
                               /\ Apply(f, w).hdr = [f.hdr EXCEPT !.backup = w.toc]
           /\ w \in HeaderSets => Apply(f, w).body = f.body /\ Apply(f, w).hdr = w.hdr
           /\ w \in Cleans => /\ Apply(f, w).body = f.body
                              /\ Apply(f, w).hdr = [f.hdr EXCEPT !.dirty = FALSE]
<1>1. CASE w \in Sizes
    <2>1. w.kind = "size" /\ w \notin BlockWrites \cup Backups \cup HeaderSets \cup Cleans
        BY <1>1 DEF Sizes, BlockWrites, Backups, HeaderSets, Cleans
    <2>2. Apply(f, w) = [f EXCEPT !.body = [p \in Pos |-> IF p > w.pos THEN Free ELSE f.body[p]]]
        BY <2>1 DEF Apply
    <2>3. [p \in Pos |-> IF p > w.pos THEN Free ELSE f.body[p]] \in [Pos -> Blocks]
        BY DEF Files, Blocks
    <2>4. /\ Apply(f, w) \in Files /\ Apply(f, w).atomic = f.atomic /\ Apply(f, w).hdr = f.hdr
          /\ Apply(f, w).body = [p \in Pos |-> IF p > w.pos THEN Free ELSE f.body[p]]
        BY <2>2, <2>3 DEF Files
    <2> QED BY <1>1, <2>1, <2>4
<1>2. CASE w \in BlockWrites
    <2>1. w.kind = "block" /\ w \notin Sizes \cup Backups \cup HeaderSets \cup Cleans
        BY <1>2 DEF Sizes, BlockWrites, Backups, HeaderSets, Cleans
    <2>2. Apply(f, w) = [f EXCEPT !.body = [f.body EXCEPT ![w.pos] = w.block]]
        BY <2>1 DEF Apply
    <2>3. [f.body EXCEPT ![w.pos] = w.block] \in [Pos -> Blocks]
        BY <1>2 DEF Files, BlockWrites
    <2>4. /\ Apply(f, w) \in Files /\ Apply(f, w).atomic = f.atomic /\ Apply(f, w).hdr = f.hdr
          /\ Apply(f, w).body = [f.body EXCEPT ![w.pos] = w.block]
        BY <2>2, <2>3 DEF Files
    <2> QED BY <1>2, <2>1, <2>4
<1>3. CASE w \in Backups
    <2>1. w.kind = "backup" /\ w \notin Sizes \cup BlockWrites \cup HeaderSets \cup Cleans
        BY <1>3 DEF Sizes, BlockWrites, Backups, HeaderSets, Cleans
    <2>2. Apply(f, w) = [f EXCEPT !.hdr = [f.hdr EXCEPT !.backup = w.toc]]
        BY <2>1 DEF Apply
    <2>3. [f.hdr EXCEPT !.backup = w.toc] \in Headers
        BY <1>3 DEF Files, Headers, Backups
    <2>4. /\ Apply(f, w) \in Files /\ Apply(f, w).atomic = f.atomic /\ Apply(f, w).body = f.body
          /\ Apply(f, w).hdr = [f.hdr EXCEPT !.backup = w.toc]
        BY <2>2, <2>3 DEF Files
    <2> QED BY <1>3, <2>1, <2>4
<1>4. CASE w \in HeaderSets
    <2>1. w.kind = "header" /\ w \notin Sizes \cup BlockWrites \cup Backups \cup Cleans
        BY <1>4 DEF Sizes, BlockWrites, Backups, HeaderSets, Cleans
    <2>2. Apply(f, w) = [f EXCEPT !.hdr = w.hdr]
        BY <2>1 DEF Apply
    <2>3. w.hdr \in Headers
        BY <1>4 DEF HeaderSets
    <2>4. /\ Apply(f, w) \in Files /\ Apply(f, w).atomic = f.atomic /\ Apply(f, w).body = f.body
          /\ Apply(f, w).hdr = w.hdr
        BY <2>2, <2>3 DEF Files
    <2> QED BY <1>4, <2>1, <2>4
<1>5. CASE w \in Cleans
    <2>1. w.kind = "clean" /\ w \notin Sizes \cup BlockWrites \cup Backups \cup HeaderSets
        BY <1>5 DEF Sizes, BlockWrites, Backups, HeaderSets, Cleans
    <2>2. Apply(f, w) = [f EXCEPT !.hdr = [f.hdr EXCEPT !.dirty = FALSE]]
        BY <2>1 DEF Apply
    <2>3. [f.hdr EXCEPT !.dirty = FALSE] \in Headers
        BY <1>5 DEF Files, Headers
    <2>4. /\ Apply(f, w) \in Files /\ Apply(f, w).atomic = f.atomic /\ Apply(f, w).body = f.body
          /\ Apply(f, w).hdr = [f.hdr EXCEPT !.dirty = FALSE]
        BY <2>2, <2>3 DEF Files
    <2> QED BY <1>5, <2>1, <2>4
<1> QED BY <1>1, <1>2, <1>3, <1>4, <1>5 DEF Writes

\* A harmless write leaves the last commit point alone.
LEMMA HarmlessApply ==
    ASSUME NEW f \in Files, NEW w \in Writes, NEW k \in Coords, Harmless(w, k), HeaderKnown(f.hdr, k)
    PROVE  /\ HeaderKnown(Apply(f, w).hdr, k)
           /\ SameUpTo(Apply(f, w).body, f.body, k.toc)
<1> DEFINE g == Apply(f, w)
<1>0. k.toc \in 0 .. MaxPos /\ f.body \in [Pos -> Blocks] /\ f.hdr \in Headers
    BY DEF Coords, Files
<1>1. CASE w \in Sizes /\ w.pos >= k.toc
    <2>1. g.hdr = f.hdr /\ g.body = [p \in Pos |-> IF p > w.pos THEN Free ELSE f.body[p]]
        BY <1>1, ApplyKinds
    <2>2. w.pos \in Int
        BY <1>1 DEF Sizes
    <2>3. SameUpTo(g.body, f.body, k.toc)
        BY <1>0, <1>1, <2>1, <2>2, BoundsAssumption DEF SameUpTo, Pos
    <2> QED BY <2>1, <2>3
<1>2. CASE w \in BlockWrites /\ w.pos > k.toc
    <2>1. g.hdr = f.hdr /\ g.body = [f.body EXCEPT ![w.pos] = w.block]
        BY <1>2, ApplyKinds
    <2>2. w.pos \in Pos
        BY <1>2 DEF BlockWrites
    <2>3. SameUpTo(g.body, f.body, k.toc)
        BY <1>0, <1>2, <2>1, <2>2, BoundsAssumption DEF SameUpTo, Pos
    <2> QED BY <2>1, <2>3
<1>3. CASE w \in Backups /\ w.toc = k.toc /\ k.backup
    <2>1. g.body = f.body /\ g.hdr = [f.hdr EXCEPT !.backup = w.toc]
        BY <1>3, ApplyKinds, Zenon
    <2>2. HeaderKnown(g.hdr, k)
        BY <1>0, <1>3, <2>1 DEF HeaderKnown, HeaderSays, Headers
    <2> QED BY <2>1, <2>2 DEF SameUpTo
<1> QED BY <1>1, <1>2, <1>3 DEF Harmless

\* Nor does one that is cut short.
LEMMA HarmlessCutShort ==
    ASSUME NEW f \in Files, NEW w \in Writes, NEW k \in Coords, Harmless(w, k), HeaderKnown(f.hdr, k),
           NEW g \in CutShort(f, w)
    PROVE  /\ g \in Files /\ g.atomic = f.atomic
           /\ HeaderSays(g.hdr, k.toc)
           /\ SameUpTo(g.body, f.body, k.toc)
<1>0. k.toc \in 0 .. MaxPos /\ f.body \in [Pos -> Blocks] /\ f.hdr \in Headers
    BY DEF Coords, Files
<1>1. CASE w \in Sizes
    <2>1. w.kind = "size"
        BY <1>1 DEF Sizes
    <2> QED BY <2>1 DEF CutShort
<1>2. CASE w \in BlockWrites /\ w.pos > k.toc
    <2>1. w.kind = "block" /\ w.pos \in Pos
        BY <1>2 DEF BlockWrites
    <2>2. g = [f EXCEPT !.body = [f.body EXCEPT ![w.pos] = Garbage]]
        BY <2>1 DEF CutShort
    <2>3. [f.body EXCEPT ![w.pos] = Garbage] \in [Pos -> Blocks]
        BY <1>0 DEF Blocks
    <2>4. /\ g \in Files /\ g.atomic = f.atomic /\ g.hdr = f.hdr
          /\ g.body = [f.body EXCEPT ![w.pos] = Garbage]
        BY <2>2, <2>3 DEF Files
    <2>5. SameUpTo(g.body, f.body, k.toc)
        BY <1>0, <1>2, <2>1, <2>4, BoundsAssumption DEF SameUpTo, Pos
    <2> QED BY <2>4, <2>5 DEF HeaderKnown
<1>3. CASE w \in Backups /\ k.backup
    <2>1. w.kind = "backup"
        BY <1>3 DEF Backups
    <2>2. g = [f EXCEPT !.hdr = [f.hdr EXCEPT !.backup = Torn]]
        BY <2>1 DEF CutShort
    <2>3. [f.hdr EXCEPT !.backup = Torn] \in Headers
        BY <1>0 DEF Headers
    <2>4. /\ g \in Files /\ g.atomic = f.atomic /\ g.hdr = [f.hdr EXCEPT !.backup = Torn]
          /\ g.body = f.body
        BY <2>2, <2>3 DEF Files
    <2>5. HeaderSays(g.hdr, k.toc)
        BY <1>0, <1>3, <2>4 DEF HeaderKnown, HeaderSays, Headers
    <2> QED BY <2>4, <2>5 DEF SameUpTo
<1> QED BY <1>1, <1>2, <1>3 DEF Harmless

-----------------------------------------------------------------------------
(* Tables and their entries *)

\* The entries in memory are a function on some of the indices.
LEMMA EntryMapsAre ==
    ASSUME NEW e
    PROVE  e \in EntryMaps <=> DOMAIN e \subseteq 1 .. MaxIndex /\ e \in [DOMAIN e -> Entries]
<1>1. ASSUME e \in EntryMaps PROVE DOMAIN e \subseteq 1 .. MaxIndex /\ e \in [DOMAIN e -> Entries]
    <2>1. PICK I \in SUBSET (1 .. MaxIndex) : e \in [I -> Entries]
        BY <1>1 DEF EntryMaps
    <2> QED BY <2>1
<1>2. ASSUME DOMAIN e \subseteq 1 .. MaxIndex, e \in [DOMAIN e -> Entries] PROVE e \in EntryMaps
    BY <1>2 DEF EntryMaps
<1> QED BY <1>1, <1>2

LEMMA PutIs ==
    ASSUME NEW e \in EntryMaps, NEW i \in 1 .. MaxIndex, NEW x \in Entries
    PROVE  /\ Put(e, i, x) \in EntryMaps /\ DOMAIN Put(e, i, x) = DOMAIN e \cup {i}
           /\ Put(e, i, x)[i] = x /\ \A k \in DOMAIN e : k # i => Put(e, i, x)[k] = e[k]
<1>1. DOMAIN e \subseteq 1 .. MaxIndex /\ e \in [DOMAIN e -> Entries]
    BY EntryMapsAre
<1>2. /\ DOMAIN Put(e, i, x) = DOMAIN e \cup {i}
      /\ Put(e, i, x)[i] = x /\ \A k \in DOMAIN e : k # i => Put(e, i, x)[k] = e[k]
    BY DEF Put
<1>3. Put(e, i, x) \in [DOMAIN e \cup {i} -> Entries]
    BY <1>1 DEF Put
<1> HIDE DEF Put
<1>4. Put(e, i, x) \in EntryMaps
    <2>1. DOMAIN e \cup {i} \subseteq 1 .. MaxIndex
        BY <1>1
    <2> QED BY <1>2, <1>3, <2>1, EntryMapsAre
<1> QED BY <1>2, <1>4

\* An entry that is not in memory is in the base.
LEMMA ImageIs ==
    ASSUME NEW t, NEW body \in [Pos -> Blocks], NEW hi \in 0 .. MaxPos, Based(t, body, hi)
    PROVE  /\ Image(t, body) \in [1 .. t.count -> Entries]
           /\ \A i \in DOMAIN t.ent : Image(t, body)[i] = t.ent[i]
           /\ \A i \in 1 .. t.count : i \notin DOMAIN t.ent =>
                 /\ t.toc \in Pos /\ body[t.toc] \in BaseBlocks /\ i <= Len(body[t.toc].ent)
                 /\ Image(t, body)[i] = body[t.toc].ent[i]
<1>1. t.ent \in [DOMAIN t.ent -> Entries] /\ t.count \in 0 .. MaxIndex /\ t.toc \in 0 .. MaxPos
    BY EntryMapsAre DEF Based, Tables
<1>2. DOMAIN t.ent \subseteq 1 .. t.count
    BY DEF Based
<1>3. ASSUME NEW i \in 1 .. t.count, i \notin DOMAIN t.ent
      PROVE  /\ t.toc \in Pos /\ body[t.toc] \in BaseBlocks /\ i <= Len(body[t.toc].ent)
             /\ body[t.toc].ent[i] \in Entries
    <2>1. t.toc # 0 /\ body[t.toc].kind = "base" /\ i <= Len(body[t.toc].ent)
        BY <1>3 DEF Based
    <2>2. t.toc \in Pos
        BY <1>1, <2>1, BoundsAssumption DEF Pos
    <2>3. body[t.toc] \in BaseBlocks
        BY <2>1, <2>2 DEF Blocks, Free, Garbage, DataBlocks, DeltaBlocks
    <2>4. body[t.toc].ent \in Seq(Entries)
        BY <2>3 DEF BaseBlocks
    <2>5. body[t.toc].ent[i] \in Entries
        BY <1>1, <2>1, <2>4
    <2> QED BY <2>1, <2>2, <2>3, <2>5
<1>4. ASSUME NEW i \in 1 .. t.count PROVE EntryAt(t, body, i) \in Entries
    BY <1>1, <1>3 DEF EntryAt
<1>5. Image(t, body) \in [1 .. t.count -> Entries]
    BY <1>4 DEF Image
<1>6. \A i \in DOMAIN t.ent : Image(t, body)[i] = t.ent[i]
    BY <1>2 DEF Image, EntryAt
<1>7. \A i \in 1 .. t.count : i \notin DOMAIN t.ent => Image(t, body)[i] = body[t.toc].ent[i]
    BY DEF Image, EntryAt
<1> QED BY <1>3, <1>5, <1>6, <1>7

\* A change of one entry, of the number of entries or of the head of the list.
Changed(t, i, x, n, avail, virtual) ==
    [t EXCEPT !.ent = Put(t.ent, i, x), !.count = n, !.avail = avail, !.virtual = virtual]

\* One field of a table is set.
LEMMA TableEnt ==
    ASSUME NEW t \in Tables, NEW m \in EntryMaps
    PROVE  LET u == [t EXCEPT !.ent = m] IN
           /\ u \in Tables /\ u.primary = t.primary /\ u.virtual = t.virtual /\ u.avail = t.avail
           /\ u.count = t.count /\ u.ent = m /\ u.toc = t.toc /\ u.off = t.off /\ u.magic = t.magic
<1>1. [t EXCEPT !.ent = m] \in Tables
    BY DEF Tables
<1>2. LET u == [t EXCEPT !.ent = m] IN
      /\ u.primary = t.primary /\ u.virtual = t.virtual /\ u.avail = t.avail
      /\ u.count = t.count /\ u.ent = m /\ u.toc = t.toc /\ u.off = t.off /\ u.magic = t.magic
    BY DEF Tables
<1> QED BY <1>1, <1>2, Zenon

LEMMA TableCount ==
    ASSUME NEW t \in Tables, NEW n \in 0 .. MaxIndex
    PROVE  LET u == [t EXCEPT !.count = n] IN
           /\ u \in Tables /\ u.primary = t.primary /\ u.virtual = t.virtual /\ u.avail = t.avail
           /\ u.count = n /\ u.ent = t.ent /\ u.toc = t.toc /\ u.off = t.off /\ u.magic = t.magic
<1>1. [t EXCEPT !.count = n] \in Tables
    BY DEF Tables
<1>2. LET u == [t EXCEPT !.count = n] IN
      /\ u.primary = t.primary /\ u.virtual = t.virtual /\ u.avail = t.avail
      /\ u.count = n /\ u.ent = t.ent /\ u.toc = t.toc /\ u.off = t.off /\ u.magic = t.magic
    BY DEF Tables
<1> QED BY <1>1, <1>2, Zenon

LEMMA TableAvail ==
    ASSUME NEW t \in Tables, NEW h \in Handles \cup {Nil}
    PROVE  LET u == [t EXCEPT !.avail = h] IN
           /\ u \in Tables /\ u.primary = t.primary /\ u.virtual = t.virtual /\ u.avail = h
           /\ u.count = t.count /\ u.ent = t.ent /\ u.toc = t.toc /\ u.off = t.off /\ u.magic = t.magic
<1>1. [t EXCEPT !.avail = h] \in Tables
    BY DEF Tables
<1>2. LET u == [t EXCEPT !.avail = h] IN
      /\ u.primary = t.primary /\ u.virtual = t.virtual /\ u.avail = h
      /\ u.count = t.count /\ u.ent = t.ent /\ u.toc = t.toc /\ u.off = t.off /\ u.magic = t.magic
    BY DEF Tables
<1> QED BY <1>1, <1>2, Zenon

LEMMA TableVirtual ==
    ASSUME NEW t \in Tables, NEW v \in BOOLEAN
    PROVE  LET u == [t EXCEPT !.virtual = v] IN
           /\ u \in Tables /\ u.primary = t.primary /\ u.virtual = v /\ u.avail = t.avail
           /\ u.count = t.count /\ u.ent = t.ent /\ u.toc = t.toc /\ u.off = t.off /\ u.magic = t.magic
<1>1. [t EXCEPT !.virtual = v] \in Tables
    BY DEF Tables
<1>2. LET u == [t EXCEPT !.virtual = v] IN
      /\ u.primary = t.primary /\ u.virtual = v /\ u.avail = t.avail
      /\ u.count = t.count /\ u.ent = t.ent /\ u.toc = t.toc /\ u.off = t.off /\ u.magic = t.magic
    BY DEF Tables
<1> QED BY <1>1, <1>2, Zenon

\* What such a change needs, and what it leads to.
MayChange(t, body, hi, i, x, n, avail, virtual) ==
    /\ body \in [Pos -> Blocks] /\ hi \in 0 .. MaxPos /\ Based(t, body, hi)
    /\ n \in 1 .. MaxIndex /\ i \in 1 .. n /\ x \in Entries
    /\ n = t.count \/ (n = t.count + 1 /\ i = n)
    /\ avail \in Handles \cup {Nil} /\ virtual \in BOOLEAN
IsChanged(u, t, body, hi, i, x, n, avail, virtual) ==
    /\ Based(u, body, hi)
    /\ Image(u, body) = [k \in 1 .. n |-> IF k = i THEN x ELSE Image(t, body)[k]]
    /\ u.avail = avail /\ u.virtual = virtual /\ u.count = n
    /\ u.off = t.off /\ u.primary = t.primary

LEMMA ChangedIs ==
    ASSUME NEW t, NEW body, NEW hi, NEW i, NEW x, NEW n, NEW avail, NEW virtual,
           MayChange(t, body, hi, i, x, n, avail, virtual)
    PROVE  IsChanged(Changed(t, i, x, n, avail, virtual), t, body, hi, i, x, n, avail, virtual)
<1> DEFINE u == Changed(t, i, x, n, avail, virtual)
<1> USE DEF MayChange
<1> DEFINE m == Put(t.ent, i, x)
<1>0. t \in Tables /\ t.ent \in EntryMaps /\ t.count \in 0 .. MaxIndex /\ t.toc \in 0 .. MaxPos
    BY DEF Based, Tables
<1>1. /\ m \in EntryMaps /\ DOMAIN m = DOMAIN t.ent \cup {i}
      /\ m[i] = x /\ \A k \in DOMAIN t.ent : k # i => m[k] = t.ent[k]
    <2>1. i \in 1 .. MaxIndex
        BY BoundsAssumption
    <2> QED BY <1>0, <2>1, PutIs
<1> HIDE DEF m
<1>2. /\ u \in Tables /\ u.ent = m /\ u.count = n /\ u.avail = avail /\ u.virtual = virtual
      /\ u.off = t.off /\ u.toc = t.toc /\ u.primary = t.primary
    <2> DEFINE a == [t EXCEPT !.ent = m]
               b == [a EXCEPT !.count = n]
               c == [b EXCEPT !.avail = avail]
               d == [c EXCEPT !.virtual = virtual]
    <2>1. u = d
        BY DEF Changed, m
    <2> HIDE DEF u
    <2>2. n \in 0 .. MaxIndex
        BY BoundsAssumption
    <2>3. /\ a \in Tables /\ a.ent = m
          /\ a.off = t.off /\ a.toc = t.toc /\ a.primary = t.primary
        BY <1>0, <1>1, TableEnt, Zenon
    <2> HIDE DEF a
    <2>4. /\ b \in Tables /\ b.ent = m /\ b.count = n
          /\ b.off = t.off /\ b.toc = t.toc /\ b.primary = t.primary
        BY <2>2, <2>3, TableCount, Zenon
    <2> HIDE DEF b
    <2>5. /\ c \in Tables /\ c.ent = m /\ c.count = n /\ c.avail = avail
          /\ c.off = t.off /\ c.toc = t.toc /\ c.primary = t.primary
        BY <2>4, TableAvail, Zenon
    <2> HIDE DEF c
    <2>6. /\ d \in Tables /\ d.ent = m /\ d.count = n /\ d.avail = avail /\ d.virtual = virtual
          /\ d.off = t.off /\ d.toc = t.toc /\ d.primary = t.primary
        BY <2>5, TableVirtual, Zenon
    <2> HIDE DEF d
    <2> QED BY <2>1, <2>6
<1> HIDE DEF u
<1>3. Based(u, body, hi)
    <2>1. DOMAIN t.ent \subseteq 1 .. t.count
        BY DEF Based
    <2>2. DOMAIN u.ent \subseteq 1 .. n
        BY <1>0, <1>1, <1>2, <2>1
    <2>3. t.toc = 0 => DOMAIN u.ent = 1 .. n
        BY <1>0, <1>1, <1>2, <2>1 DEF Based
    <2>4. t.toc # 0 => /\ body[t.toc].kind = "base" /\ Len(body[t.toc].ent) <= t.count
                       /\ \A k \in 1 .. t.count : k \in DOMAIN t.ent \/ k <= Len(body[t.toc].ent)
        BY DEF Based
    <2>5. t.toc # 0 => Len(body[t.toc].ent) \in Nat
        <3> HAVE t.toc # 0
        <3>1. body[t.toc] \in BaseBlocks
            BY <1>0, <2>4, BoundsAssumption DEF Blocks, Free, Garbage, DataBlocks, DeltaBlocks, Pos
        <3> QED BY <3>1 DEF BaseBlocks
    <2>6. t.toc # 0 => Len(body[t.toc].ent) <= n
        BY <1>0, <2>4, <2>5
    <2>7. t.toc # 0 => \A k \in 1 .. n : k \in DOMAIN u.ent \/ k <= Len(body[t.toc].ent)
        BY <1>0, <1>1, <1>2, <2>4
    <2> QED BY <1>2, <2>2, <2>3, <2>4, <2>6, <2>7 DEF Based
<1>4. ASSUME NEW k \in 1 .. n PROVE EntryAt(u, body, k) = IF k = i THEN x ELSE Image(t, body)[k]
    <2>1. CASE k = i
        BY <1>1, <1>2, <2>1 DEF EntryAt
    <2>2. CASE k # i
        <3>1. k \in 1 .. t.count
            BY <1>0, <2>2
        <3>2. Image(t, body)[k] = EntryAt(t, body, k)
            BY <3>1 DEF Image
        <3> QED BY <1>1, <1>2, <2>2, <3>2 DEF EntryAt
    <2> QED BY <2>1, <2>2
<1>5. Image(u, body) = [k \in 1 .. n |-> IF k = i THEN x ELSE Image(t, body)[k]]
    <2>1. Image(u, body) = [k \in 1 .. n |-> EntryAt(u, body, k)]
        BY <1>2 DEF Image
    <2> HIDE DEF Image
    <2> QED BY <1>4, <2>1
<1> QED BY <1>2, <1>3, <1>5 DEF IsChanged, u

-----------------------------------------------------------------------------
(* The list of free entries *)

\* Entry i of e becomes x.
Update(e, n, i, x) == [k \in 1 .. n |-> IF k = i THEN x ELSE e[k]]

LEMMA PrefixIs ==
    ASSUME NEW S, NEW s \in Seq(S), NEW h \in S
    PROVE  /\ <<h>> \o s \in Seq(S) /\ Len(<<h>> \o s) = Len(s) + 1
           /\ (<<h>> \o s)[1] = h /\ \A k \in 1 .. Len(s) : (<<h>> \o s)[k + 1] = s[k]
OBVIOUS

LEMMA TailIs ==
    ASSUME NEW S, NEW s \in Seq(S), s # <<>>
    PROVE  /\ Tail(s) \in Seq(S) /\ Len(Tail(s)) = Len(s) - 1 /\ Len(s) \in Nat \ {0}
           /\ \A k \in 1 .. Len(s) - 1 : Tail(s)[k] = s[k + 1]
           /\ \A k \in 1 .. Len(s) : s[k] \in S
OBVIOUS

\* The first free entry may be taken off the list, to be x.
MayPop(e, c, avail, made, x, next) ==
    /\ c \in Nat /\ e \in [1 .. c -> Entries] /\ Linked(e, avail, made) /\ avail # Nil
    /\ made \subseteq next /\ next \subseteq made \cup {avail[1]}
    /\ x.inv => avail[1] \in next

LEMMA ChainPop ==
    ASSUME NEW c, NEW e, NEW avail, NEW made, NEW x, NEW next, MayPop(e, c, avail, made, x, next)
    PROVE  /\ avail \in Handles /\ avail[1] \in 1 .. c /\ avail[1] \notin made
           /\ e[avail[1]].inv /\ e[avail[1]].gen = avail[2] /\ e[avail[1]].ref \in Handles \cup {Nil}
           /\ Linked(Update(e, c, avail[1], x), e[avail[1]].ref, next)
<1> USE DEF MayPop
<1>1. PICK s \in Seq(Handles) : Chain(s, e, avail, made)
    BY DEF Linked
<1>2. s # <<>> /\ s[1] = avail
    BY <1>1 DEF Chain
<1> DEFINE r == Tail(s)
<1>3. /\ r \in Seq(Handles) /\ Len(r) = Len(s) - 1 /\ Len(s) \in Nat \ {0}
      /\ \A k \in 1 .. Len(s) - 1 : r[k] = s[k + 1]
      /\ \A k \in 1 .. Len(s) : s[k] \in Handles
    BY <1>2, TailIs
<1> HIDE DEF r
<1>4. \A k \in 1 .. Len(s) :
          /\ s[k][1] \in 1 .. c /\ s[k][1] \notin made
          /\ e[s[k][1]].inv /\ e[s[k][1]].gen = s[k][2]
          /\ e[s[k][1]].ref = IF k = Len(s) THEN Nil ELSE s[k + 1]
    BY <1>1 DEF Chain
<1>5. \A k, l \in 1 .. Len(s) : s[k][1] = s[l][1] => k = l
    BY <1>1 DEF Chain
<1>6. \A i \in 1 .. c : e[i].inv /\ i \notin made => \E k \in 1 .. Len(s) : s[k][1] = i
    BY <1>1 DEF Chain
<1>7. 1 \in 1 .. Len(s)
    BY <1>3
<1>8. /\ avail \in Handles /\ avail[1] \in 1 .. c /\ avail[1] \notin made
      /\ e[avail[1]].inv /\ e[avail[1]].gen = avail[2]
      /\ e[avail[1]].ref = IF 1 = Len(s) THEN Nil ELSE s[2]
    BY <1>2, <1>3, <1>4, <1>7
<1>9. e[avail[1]].ref \in Handles \cup {Nil}
    BY <1>3, <1>8
<1> DEFINE d == Update(e, c, avail[1], x)
<1>10. DOMAIN d = 1 .. c /\ d[avail[1]] = x /\ \A i \in 1 .. c : i # avail[1] => d[i] = e[i]
    BY <1>8 DEF Update
<1> HIDE DEF d
<1>11. ASSUME NEW k \in 1 .. Len(r)
       PROVE  /\ r[k][1] \in DOMAIN d /\ r[k][1] \notin next
              /\ d[r[k][1]].inv /\ d[r[k][1]].gen = r[k][2]
              /\ d[r[k][1]].ref = IF k = Len(r) THEN Nil ELSE r[k + 1]
    <2>1. k + 1 \in 1 .. Len(s) /\ k \in 1 .. Len(s) - 1 /\ k + 1 # 1
        BY <1>3
    <2>2. r[k] = s[k + 1]
        BY <1>3, <2>1
    <2>3. s[k + 1][1] # avail[1]
        BY <1>2, <1>5, <1>7, <2>1
    <2>4. /\ s[k + 1][1] \in 1 .. c /\ s[k + 1][1] \notin made
          /\ e[s[k + 1][1]].inv /\ e[s[k + 1][1]].gen = s[k + 1][2]
          /\ e[s[k + 1][1]].ref = IF k + 1 = Len(s) THEN Nil ELSE s[k + 2]
        BY <1>4, <2>1
    <2>5. k # Len(r) => r[k + 1] = s[k + 2]
        BY <1>3
    <2> QED BY <1>3, <1>10, <2>2, <2>3, <2>4, <2>5
<1>12. \A k, l \in 1 .. Len(r) : r[k][1] = r[l][1] => k = l
    <2> TAKE k, l \in 1 .. Len(r)
    <2>1. k + 1 \in 1 .. Len(s) /\ l + 1 \in 1 .. Len(s) /\ r[k] = s[k + 1] /\ r[l] = s[l + 1]
        BY <1>3
    <2>2. r[k][1] = r[l][1] => k + 1 = l + 1
        BY <1>5, <2>1
    <2> QED BY <1>3, <2>2
<1>13. ASSUME NEW i \in DOMAIN d, d[i].inv, i \notin next
       PROVE  \E k \in 1 .. Len(r) : r[k][1] = i
    <2>1. i # avail[1] /\ e[i].inv /\ i \notin made /\ i \in 1 .. c
        BY <1>10, <1>13
    <2>2. PICK k \in 1 .. Len(s) : s[k][1] = i
        BY <1>6, <2>1
    <2>3. k # 1
        BY <1>2, <2>1, <2>2
    <2>4. k - 1 \in 1 .. Len(r) /\ r[k - 1] = s[k]
        BY <1>3, <2>3
    <2> QED BY <2>2, <2>4
<1>14. e[avail[1]].ref = IF r = <<>> THEN Nil ELSE r[1]
    <2>1. r = <<>> <=> Len(s) = 1
        BY <1>3
    <2>2. Len(s) # 1 => r[1] = s[2]
        BY <1>3
    <2> QED BY <1>8, <2>1, <2>2
<1>15. Chain(r, d, e[avail[1]].ref, next)
    BY <1>11, <1>12, <1>13, <1>14 DEF Chain
<1> QED BY <1>3, <1>8, <1>9, <1>15 DEF Linked, d

\* The list is empty, and a new entry is added to the table.
LEMMA ChainGrow ==
    ASSUME NEW c \in Nat, NEW e \in [1 .. c -> Entries], NEW made, Linked(e, Nil, made),
           NEW x, NEW next, made \subseteq next, x.inv => c + 1 \in next
    PROVE  Linked(Update(e, c + 1, c + 1, x), Nil, next)
<1>1. PICK s \in Seq(Handles) : Chain(s, e, Nil, made)
    BY DEF Linked
<1>2. s = <<>>
    <2> SUFFICES ASSUME s # <<>> PROVE FALSE
        OBVIOUS
    <2>1. s[1] \in Handles
        OBVIOUS
    <2> QED BY <1>1, <2>1, NilAssumption DEF Chain
<1>3. \A i \in 1 .. c : ~(e[i].inv /\ i \notin made)
    BY <1>1, <1>2 DEF Chain
<1> DEFINE d == Update(e, c + 1, c + 1, x)
<1>4. DOMAIN d = 1 .. c + 1 /\ d[c + 1] = x /\ \A i \in 1 .. c : d[i] = e[i]
    BY DEF Update
<1> HIDE DEF d
<1>5. ASSUME NEW i \in DOMAIN d PROVE ~(d[i].inv /\ i \notin next)
    <2>1. i = c + 1 \/ i \in 1 .. c
        BY <1>4
    <2> QED BY <1>3, <1>4, <2>1
<1>6. Chain(<<>>, d, Nil, next)
    BY <1>5 DEF Chain
<1>7. <<>> \in Seq(Handles)
    OBVIOUS
<1>8. Linked(d, Nil, next)
    BY <1>6, <1>7 DEF Linked
<1> QED BY <1>8 DEF d

\* An entry is put on the list.
LEMMA ChainPush ==
    ASSUME NEW c \in Nat, NEW e \in [1 .. c -> Entries], NEW avail, NEW made, Linked(e, avail, made),
           NEW h \in Handles, h[1] \in 1 .. c, ~e[h[1]].inv \/ h[1] \in made,
           NEW x, x.inv, x.gen = h[2], x.ref = avail
    PROVE  Linked(Update(e, c, h[1], x), h, made \ {h[1]})
<1>1. PICK s \in Seq(Handles) : Chain(s, e, avail, made)
    BY DEF Linked
<1> DEFINE r == <<h>> \o s
           d == Update(e, c, h[1], x)
<1>2. /\ r \in Seq(Handles) /\ Len(r) = Len(s) + 1 /\ Len(s) \in Nat
      /\ r[1] = h /\ \A k \in 1 .. Len(s) : r[k + 1] = s[k]
    BY PrefixIs
<1> HIDE DEF r
<1>3. DOMAIN d = 1 .. c /\ d[h[1]] = x /\ \A i \in 1 .. c : i # h[1] => d[i] = e[i]
    BY DEF Update
<1> HIDE DEF d
<1>4. \A k \in 1 .. Len(s) :
          /\ s[k][1] \in 1 .. c /\ s[k][1] \notin made
          /\ e[s[k][1]].inv /\ e[s[k][1]].gen = s[k][2]
          /\ e[s[k][1]].ref = IF k = Len(s) THEN Nil ELSE s[k + 1]
    BY <1>1 DEF Chain
<1>5. \A k, l \in 1 .. Len(s) : s[k][1] = s[l][1] => k = l
    BY <1>1 DEF Chain
<1>6. \A i \in 1 .. c : e[i].inv /\ i \notin made => \E k \in 1 .. Len(s) : s[k][1] = i
    BY <1>1 DEF Chain
<1>7. avail = IF s = <<>> THEN Nil ELSE s[1]
    BY <1>1 DEF Chain
<1>8. \A k \in 1 .. Len(s) : s[k][1] # h[1]
    BY <1>4
<1>9. ASSUME NEW k \in 1 .. Len(r), k # 1
      PROVE  k - 1 \in 1 .. Len(s) /\ r[k] = s[k - 1]
    BY <1>2, <1>9
<1>10. ASSUME NEW k \in 1 .. Len(r)
       PROVE  /\ r[k][1] \in DOMAIN d /\ r[k][1] \notin made \ {h[1]}
              /\ d[r[k][1]].inv /\ d[r[k][1]].gen = r[k][2]
              /\ d[r[k][1]].ref = IF k = Len(r) THEN Nil ELSE r[k + 1]
    <2>1. CASE k = 1
        <3>1. s = <<>> <=> Len(r) = 1
            BY <1>2
        <3>2. s # <<>> => r[2] = s[1]
            BY <1>2
        <3> QED BY <1>2, <1>3, <1>7, <2>1, <3>1, <3>2
    <2>2. CASE k # 1
        <3>1. k - 1 \in 1 .. Len(s) /\ r[k] = s[k - 1]
            BY <1>9, <2>2
        <3>2. k # Len(r) => r[k + 1] = s[k]
            BY <1>2, <2>2
        <3>3. /\ s[k - 1][1] \in 1 .. c /\ s[k - 1][1] \notin made /\ s[k - 1][1] # h[1]
              /\ e[s[k - 1][1]].inv /\ e[s[k - 1][1]].gen = s[k - 1][2]
              /\ e[s[k - 1][1]].ref = IF k - 1 = Len(s) THEN Nil ELSE s[(k - 1) + 1]
            BY <1>4, <1>8, <3>1
        <3> QED BY <1>2, <1>3, <3>1, <3>2, <3>3
    <2> QED BY <2>1, <2>2
<1>11. \A k, l \in 1 .. Len(r) : r[k][1] = r[l][1] => k = l
    <2> TAKE k, l \in 1 .. Len(r)
    <2> HAVE r[k][1] = r[l][1]
    <2>1. CASE k = 1 /\ l # 1
        BY <1>2, <1>8, <1>9, <2>1
    <2>2. CASE k # 1 /\ l = 1
        BY <1>2, <1>8, <1>9, <2>2
    <2>3. CASE k # 1 /\ l # 1
        <3>1. /\ k - 1 \in 1 .. Len(s) /\ r[k] = s[k - 1]
              /\ l - 1 \in 1 .. Len(s) /\ r[l] = s[l - 1]
            BY <1>9, <2>3
        <3>2. s[k - 1][1] = s[l - 1][1]
            BY <3>1
        <3>3. k - 1 = l - 1
            BY <1>5, <3>1, <3>2
        <3> QED BY <1>2, <3>3
    <2> QED BY <2>1, <2>2, <2>3
<1>12. ASSUME NEW i \in DOMAIN d, d[i].inv, i \notin made \ {h[1]}
       PROVE  \E k \in 1 .. Len(r) : r[k][1] = i
    <2>1. CASE i = h[1]
        BY <1>2, <2>1
    <2>2. CASE i # h[1]
        <3>1. PICK k \in 1 .. Len(s) : s[k][1] = i
            BY <1>3, <1>6, <1>12, <2>2
        <3>2. k + 1 \in 1 .. Len(r) /\ r[k + 1] = s[k]
            BY <1>2
        <3> QED BY <3>1, <3>2
    <2> QED BY <2>1, <2>2
<1>13. h = IF r = <<>> THEN Nil ELSE r[1]
    BY <1>2
<1>14. Chain(r, d, h, made \ {h[1]})
    BY <1>10, <1>11, <1>12, <1>13 DEF Chain
<1> QED BY <1>2, <1>14 DEF Linked, d

\* An entry that is not on the list gets valid, or stays so.
LEMMA ChainFill ==
    ASSUME NEW c \in Nat, NEW e \in [1 .. c -> Entries], NEW avail, NEW made, Linked(e, avail, made),
           NEW i \in 1 .. c, ~e[i].inv \/ i \in made, NEW x, ~x.inv
    PROVE  Linked(Update(e, c, i, x), avail, made \ {i})
<1>1. PICK s \in Seq(Handles) : Chain(s, e, avail, made)
    BY DEF Linked
<1> DEFINE d == Update(e, c, i, x)
<1>2. DOMAIN d = 1 .. c /\ d[i] = x /\ \A k \in 1 .. c : k # i => d[k] = e[k]
    BY DEF Update
<1> HIDE DEF d
<1>3. \A k \in 1 .. Len(s) : s[k][1] # i
    BY <1>1 DEF Chain
<1>4. ASSUME NEW k \in 1 .. Len(s)
      PROVE  /\ s[k][1] \in DOMAIN d /\ s[k][1] \notin made \ {i}
             /\ d[s[k][1]].inv /\ d[s[k][1]].gen = s[k][2]
             /\ d[s[k][1]].ref = IF k = Len(s) THEN Nil ELSE s[k + 1]
    <2>1. /\ s[k][1] \in 1 .. c /\ s[k][1] \notin made
          /\ e[s[k][1]].inv /\ e[s[k][1]].gen = s[k][2]
          /\ e[s[k][1]].ref = IF k = Len(s) THEN Nil ELSE s[k + 1]
        BY <1>1 DEF Chain
    <2>2. d[s[k][1]] = e[s[k][1]]
        BY <1>2, <1>3, <2>1
    <2> QED BY <1>2, <2>1, <2>2
<1>5. ASSUME NEW j \in DOMAIN d, d[j].inv, j \notin made \ {i}
      PROVE  \E k \in 1 .. Len(s) : s[k][1] = j
    BY <1>1, <1>2, <1>5 DEF Chain
<1>6. avail = (IF s = <<>> THEN Nil ELSE s[1]) /\ \A k, l \in 1 .. Len(s) : s[k][1] = s[l][1] => k = l
    BY <1>1 DEF Chain
<1>7. Chain(s, d, avail, made \ {i})
    BY <1>4, <1>5, <1>6 DEF Chain
<1> QED BY <1>7 DEF Linked, d

-----------------------------------------------------------------------------
(* Slots that nobody touches *)

\* A table does not see what happens behind the slots that it uses.
LEMMA SameGood ==
    ASSUME NEW t, NEW b \in [Pos -> Blocks], NEW c \in [Pos -> Blocks], NEW hi \in 0 .. MaxPos,
           Based(t, b, hi), SameUpTo(b, c, hi)
    PROVE  /\ Based(t, c, hi) /\ Image(t, c) = Image(t, b)
           /\ \A made : Good(t, b, hi, made) => Good(t, c, hi, made)
<1>1. t.toc \in 0 .. hi
    BY DEF Based, Tables
<1>2. t.toc # 0 => c[t.toc] = b[t.toc]
    BY <1>1 DEF SameUpTo
<1>3. Based(t, c, hi)
    BY <1>2 DEF Based
<1>4. ASSUME NEW i \in 1 .. t.count PROVE EntryAt(t, c, i) = EntryAt(t, b, i)
    BY <1>2, <1>4 DEF EntryAt, Based
<1>5. Image(t, c) = Image(t, b)
    BY <1>4 DEF Image
<1>6. ASSUME NEW e, Placed(e, b, hi) PROVE Placed(e, c, hi)
    BY <1>6 DEF Placed, SameUpTo
<1>7. ASSUME NEW made, Good(t, b, hi, made) PROVE Good(t, c, hi, made)
    BY <1>3, <1>5, <1>6, <1>7 DEF Good
<1> QED BY <1>3, <1>5, <1>7

\* A table that is in order stays so when more slots are used.
LEMMA MoreGood ==
    ASSUME NEW t, NEW b \in [Pos -> Blocks], NEW lo \in 0 .. MaxPos, NEW hi \in lo .. MaxPos,
           NEW made, Good(t, b, lo, made)
    PROVE  Good(t, b, hi, made)
<1>1. Based(t, b, hi)
    <2>1. t.toc \in Int /\ t.off \in Int
        BY DEF Good, Based, Tables
    <2> QED BY <2>1, BoundsAssumption DEF Good, Based
<1>2. Placed(Image(t, b), b, hi)
    BY BoundsAssumption DEF Good, Placed
<1> QED BY <1>1, <1>2 DEF Good

\* Nor does the TOC in slot toc.
LEMMA SameLoad ==
    ASSUME NEW b, NEW c, NEW toc \in 0 .. MaxPos, SameUpTo(b, c, toc)
    PROVE  Load(c, toc, 0) = Load(b, toc, 0)
<1>1. CASE toc = 0
    BY <1>1 DEF Load
<1>2. CASE toc # 0
    <2>1. c[toc] = b[toc]
        BY <1>2 DEF SameUpTo
    <2>2. \A base \in 1 .. (toc - 1) : c[base] = b[base]
        BY <1>2 DEF SameUpTo
    <2> QED BY <1>2, <2>1, <2>2 DEF Load
<1> QED BY <1>1, <1>2

\* The streams that the entries e lead to.
StreamsOf(e, body) ==
    [h \in {<<i, e[i].gen>> : i \in {j \in DOMAIN e : ~e[j].inv}} |->
        IF e[h[1]].ref = Empty THEN Empty
        ELSE IF e[h[1]].ref \in Pos /\ body[e[h[1]].ref].kind = "data" THEN body[e[h[1]].ref].val ELSE Torn]

LEMMA ContentsIs ==
    ASSUME NEW t, NEW body \in [Pos -> Blocks], NEW hi \in 0 .. MaxPos, Based(t, body, hi), NEW target
    PROVE  /\ Contents(t, body, Nil, target) = StreamsOf(Image(t, body), body)
           /\ Live(t, body) \subseteq Handles
           /\ \A h \in Handles : h \in Live(t, body) <=> IsLive(Image(t, body), h)
           /\ \A h \in Live(t, body) : At(t, body, h) = Image(t, body)[h[1]].ref
<1> DEFINE e == Image(t, body)
           L == {<<i, e[i].gen>> : i \in {j \in DOMAIN e : ~e[j].inv}}
<1>1. e \in [1 .. t.count -> Entries] /\ t.count \in 0 .. MaxIndex
    BY ImageIs DEF Based, Tables
<1>2. \A i \in 1 .. t.count : EntryAt(t, body, i) = e[i]
    BY DEF Image
<1> HIDE DEF e
<1>3. Live(t, body) = L
    BY <1>1, <1>2 DEF Live
<1>4. L \subseteq Handles
    BY <1>1, BoundsAssumption DEF Entries, Handles
<1>5. ASSUME NEW h \in Handles PROVE h \in L <=> IsLive(e, h)
    <2>1. h = <<h[1], h[2]>>
        BY DEF Handles
    <2>2. ASSUME h \in L PROVE IsLive(e, h)
        BY <2>2 DEF IsLive
    <2>3. ASSUME IsLive(e, h) PROVE h \in L
        BY <2>1, <2>3 DEF IsLive
    <2> QED BY <2>2, <2>3
<1>6. ASSUME NEW h \in L PROVE At(t, body, h) = e[h[1]].ref /\ h # Nil
    <2>1. h[1] \in 1 .. t.count
        BY <1>1
    <2> QED BY <1>2, <1>4, <2>1, NilAssumption DEF At
<1>7. Contents(t, body, Nil, target) = StreamsOf(e, body)
    BY <1>3, <1>6 DEF Contents, StreamsOf
<1> QED BY <1>3, <1>4, <1>5, <1>6, <1>7 DEF e

\* The streams are where the entries say.
LEMMA StreamsAre ==
    ASSUME NEW e, NEW body \in [Pos -> Blocks], NEW hi \in 0 .. MaxPos, Placed(e, body, hi),
           NEW h \in Handles, IsLive(e, h)
    PROVE  /\ h \in DOMAIN StreamsOf(e, body)
           /\ e[h[1]].ref = Empty => StreamsOf(e, body)[h] = Empty
           /\ e[h[1]].ref # Empty =>
                 /\ e[h[1]].ref \in Pos /\ e[h[1]].ref <= hi /\ StreamsOf(e, body)[h] \in Data
                 /\ body[e[h[1]].ref] = DataBlock(StreamsOf(e, body)[h])
<1>1. h = <<h[1], h[2]>>
    BY DEF Handles
<1>2. h \in DOMAIN StreamsOf(e, body)
    BY <1>1 DEF StreamsOf, IsLive
<1>3. StreamsOf(e, body)[h] = IF e[h[1]].ref = Empty THEN Empty
        ELSE IF e[h[1]].ref \in Pos /\ body[e[h[1]].ref].kind = "data" THEN body[e[h[1]].ref].val ELSE Torn
    BY <1>2 DEF StreamsOf
<1> DEFINE r == e[h[1]].ref
<1>4. ASSUME r # Empty
      PROVE  r \in Pos /\ r <= hi /\ body[r].val \in Data /\ body[r].kind = "data" /\ body[r] = DataBlock(body[r].val)
    <2>1. r \in 1 .. hi /\ body[r].kind = "data"
        BY <1>4 DEF Placed, IsLive
    <2>2. r \in Pos
        BY <2>1, BoundsAssumption DEF Pos
    <2>3. body[r] \in DataBlocks
        BY <2>1, <2>2 DEF Blocks, Free, Garbage, BaseBlocks, DeltaBlocks
    <2> HIDE DEF r
    <2> QED BY <2>1, <2>2, <2>3 DEF DataBlocks, DataBlock
<1> HIDE DEF r
<1> QED BY <1>2, <1>3, <1>4 DEF r

\* The streams do not see what happens behind the slots that are used.
LEMMA SameStreams ==
    ASSUME NEW e, NEW b, NEW c, NEW hi \in 0 .. MaxPos, Placed(e, b, hi), SameUpTo(b, c, hi)
    PROVE  StreamsOf(e, c) = StreamsOf(e, b)
<1> DEFINE L == {<<i, e[i].gen>> : i \in {j \in DOMAIN e : ~e[j].inv}}
<1>1. ASSUME NEW h \in L, e[h[1]].ref # Empty PROVE e[h[1]].ref \in 1 .. hi
    BY <1>1 DEF Placed
<1>2. ASSUME NEW h \in L, e[h[1]].ref # Empty PROVE c[e[h[1]].ref] = b[e[h[1]].ref]
    BY <1>1, <1>2 DEF SameUpTo
<1> QED BY <1>2 DEF StreamsOf

-----------------------------------------------------------------------------
(* What the operations on a table do *)

\* FreeL, AllocL and the others change one entry.
LEMMA OperationsAreChanges ==
    ASSUME NEW t \in Tables, NEW h \in Handles, NEW x \in Entries
    PROVE  /\ [Fetch(t, h[1], x) EXCEPT !.avail = h, !.virtual = TRUE]
                = Changed(t, h[1], x, t.count, h, TRUE)
           /\ [Fetch(t, h[1], x) EXCEPT !.virtual = TRUE] = Changed(t, h[1], x, t.count, t.avail, TRUE)
           /\ [Fetch(t, h[1], x) EXCEPT !.count = h[1], !.virtual = TRUE]
                = Changed(t, h[1], x, h[1], t.avail, TRUE)
           /\ \A a : [Fetch(t, h[1], x) EXCEPT !.avail = a, !.virtual = TRUE]
                       = Changed(t, h[1], x, t.count, a, TRUE)
           /\ Fetch(t, h[1], x) = Changed(t, h[1], x, t.count, t.avail, t.virtual)
<1> DEFINE f == Fetch(t, h[1], x)
<1>0. t.ent \in EntryMaps /\ t.count \in 0 .. MaxIndex /\ h[1] \in 1 .. MaxIndex
    BY DEF Tables, Handles
<1>1. Put(t.ent, h[1], x) \in EntryMaps
    BY <1>0, PutIs
<1>2. f = [t EXCEPT !.ent = Put(t.ent, h[1], x)]
    BY DEF Fetch
<1>3. f \in Tables /\ f.virtual = t.virtual /\ f.avail = t.avail /\ f.count = t.count
    <2> DEFINE m == Put(t.ent, h[1], x)
    <2>1. LET u == [t EXCEPT !.ent = m] IN
          u \in Tables /\ u.virtual = t.virtual /\ u.avail = t.avail /\ u.count = t.count
        <3> HIDE DEF m
        <3> QED BY <1>1, TableEnt, Zenon DEF m
    <2> QED BY <1>2, <2>1
<1> HIDE DEF f
<1>5. [f EXCEPT !.count = t.count] = f
    BY <1>3 DEF Tables
<1>6. [f EXCEPT !.avail = t.avail] = f
    BY <1>3 DEF Tables
<1>7. [f EXCEPT !.virtual = t.virtual] = f
    BY <1>3 DEF Tables
<1>8. \A a : [f EXCEPT !.avail = a, !.virtual = TRUE] = Changed(t, h[1], x, t.count, a, TRUE)
    <2> TAKE a
    <2>1. Changed(t, h[1], x, t.count, a, TRUE) = [[f EXCEPT !.count = t.count] EXCEPT !.avail = a, !.virtual = TRUE]
        BY <1>2 DEF Changed
    <2> QED BY <1>5, <2>1
<1>9. [f EXCEPT !.virtual = TRUE] = Changed(t, h[1], x, t.count, t.avail, TRUE)
    <2>1. Changed(t, h[1], x, t.count, t.avail, TRUE)
            = [[[f EXCEPT !.count = t.count] EXCEPT !.avail = t.avail] EXCEPT !.virtual = TRUE]
        BY <1>2 DEF Changed
    <2> QED BY <1>5, <1>6, <2>1
<1>10. [f EXCEPT !.count = h[1], !.virtual = TRUE] = Changed(t, h[1], x, h[1], t.avail, TRUE)
    <2> DEFINE g == [f EXCEPT !.count = h[1]]
    <2>1. g \in Tables /\ g.avail = t.avail
        <3>1. h[1] \in 0 .. MaxIndex
            BY <1>0, BoundsAssumption
        <3> QED BY <1>3, <3>1, TableCount
    <2>2. Changed(t, h[1], x, h[1], t.avail, TRUE) = [[g EXCEPT !.avail = t.avail] EXCEPT !.virtual = TRUE]
        BY <1>2 DEF Changed
    <2>3. [f EXCEPT !.count = h[1], !.virtual = TRUE] = [g EXCEPT !.virtual = TRUE]
        OBVIOUS
    <2> HIDE DEF g
    <2>4. [g EXCEPT !.avail = t.avail] = g
        BY <2>1 DEF Tables
    <2> QED BY <2>2, <2>3, <2>4
<1>11. f = Changed(t, h[1], x, t.count, t.avail, t.virtual)
    <2>1. Changed(t, h[1], x, t.count, t.avail, t.virtual)
            = [[[f EXCEPT !.count = t.count] EXCEPT !.avail = t.avail] EXCEPT !.virtual = t.virtual]
        BY <1>2 DEF Changed
    <2> QED BY <1>5, <1>6, <1>7, <2>1
<1> QED BY <1>8, <1>9, <1>10, <1>11 DEF f

\* Table u is t with entry h[1] set to x.
IsEntered(u, t, body, hi, h, x, made) ==
    /\ Good(u, body, hi, made)
    /\ Image(u, body) = Update(Image(t, body), t.count, h[1], x)
    /\ u.virtual = TRUE /\ u.off = t.off /\ u.primary = t.primary

\* A free entry, and the one of a stream in slot p.
Freed(h, avail) == [gen |-> h[2], inv |-> TRUE, ref |-> avail]
Filled(h, p) == [gen |-> h[2], inv |-> FALSE, ref |-> p]

\* An entry is freed, on deletion or when a stream that was begun is given up.
LEMMA FreeGood ==
    ASSUME NEW t, NEW body \in [Pos -> Blocks], NEW hi \in 0 .. MaxPos, NEW made, Good(t, body, hi, made),
           NEW h \in Handles, h[1] \in 1 .. t.count, ~Image(t, body)[h[1]].inv \/ h[1] \in made
    PROVE  IsEntered(FreeEntry(t, h), t, body, hi, h, Freed(h, t.avail), made \ {h[1]})
<1> DEFINE u == FreeEntry(t, h)
           x == [gen |-> h[2], inv |-> TRUE, ref |-> t.avail]
           e == Image(t, body)
<1>0. /\ Based(t, body, hi) /\ Placed(e, body, hi) /\ Linked(e, t.avail, made)
      /\ t \in Tables /\ t.count \in 1 .. MaxIndex /\ t.avail \in Handles \cup {Nil}
    BY DEF Good, Based, Tables
<1>1. x \in Entries
    BY <1>0 DEF Entries, Handles
<1>2. u = Changed(t, h[1], x, t.count, h, TRUE)
    BY <1>0, <1>1, OperationsAreChanges DEF FreeEntry
<1>3. /\ Based(u, body, hi) /\ Image(u, body) = Update(e, t.count, h[1], x)
      /\ u.avail = h /\ u.virtual = TRUE /\ u.off = t.off /\ u.primary = t.primary
    <2> HIDE DEF x, u
    <2>1. MayChange(t, body, hi, h[1], x, t.count, h, TRUE)
        BY <1>0, <1>1 DEF MayChange
    <2>2. IsChanged(u, t, body, hi, h[1], x, t.count, h, TRUE)
        BY <1>2, <2>1, ChangedIs
    <2> QED BY <2>2 DEF IsChanged, Update, e
<1>4. e \in [1 .. t.count -> Entries]
    BY <1>0, ImageIs
<1>5. Linked(Update(e, t.count, h[1], x), h, made \ {h[1]})
    <2>1. x.inv /\ x.gen = h[2] /\ x.ref = t.avail
        OBVIOUS
    <2>2. (~e[h[1]].inv \/ h[1] \in made) /\ t.count \in Nat
        BY <1>0
    <2> HIDE DEF x, e
    <2> QED BY <1>0, <1>4, <2>1, <2>2, ChainPush, Zenon
<1>6. Placed(Update(e, t.count, h[1], x), body, hi)
    <2> HIDE DEF e
    <2> QED BY <1>0, <1>4 DEF Placed, Update
<1> HIDE DEF u, x, e
<1>7. IsEntered(u, t, body, hi, h, x, made \ {h[1]})
    BY <1>3, <1>5, <1>6 DEF IsEntered, Good, e
<1> QED BY <1>7 DEF Freed, u, x

\* A stream is committed: its entry gets valid and leads to slot p.
LEMMA SetGood ==
    ASSUME NEW t, NEW body \in [Pos -> Blocks], NEW hi \in 0 .. MaxPos, NEW made, Good(t, body, hi, made),
           NEW h \in Handles, h[1] \in 1 .. t.count, ~Image(t, body)[h[1]].inv \/ h[1] \in made,
           NEW p, p = Empty \/ (p \in 1 .. hi /\ body[p].kind = "data")
    PROVE  IsEntered(Set(t, h, p), t, body, hi, h, Filled(h, p), made \ {h[1]})
<1> DEFINE u == Set(t, h, p)
           x == [gen |-> h[2], inv |-> FALSE, ref |-> p]
           e == Image(t, body)
<1>0. /\ Based(t, body, hi) /\ Placed(e, body, hi) /\ Linked(e, t.avail, made)
      /\ t \in Tables /\ t.count \in 1 .. MaxIndex /\ t.avail \in Handles \cup {Nil}
    BY DEF Good, Based, Tables
<1>1. x \in Entries
    BY <1>0, BoundsAssumption DEF Entries, Handles, Pos
<1>2. u = Changed(t, h[1], x, t.count, t.avail, TRUE)
    BY <1>0, <1>1, OperationsAreChanges DEF Set
<1>3. /\ Based(u, body, hi) /\ Image(u, body) = Update(e, t.count, h[1], x)
      /\ u.avail = t.avail /\ u.virtual = TRUE /\ u.off = t.off /\ u.primary = t.primary
    <2> HIDE DEF x, u
    <2>1. MayChange(t, body, hi, h[1], x, t.count, t.avail, TRUE)
        BY <1>0, <1>1 DEF MayChange
    <2>2. IsChanged(u, t, body, hi, h[1], x, t.count, t.avail, TRUE)
        BY <1>2, <2>1, ChangedIs
    <2> QED BY <2>2 DEF IsChanged, Update, e
<1>4. e \in [1 .. t.count -> Entries]
    BY <1>0, ImageIs
<1>5. Linked(Update(e, t.count, h[1], x), t.avail, made \ {h[1]})
    <2>1. ~x.inv
        OBVIOUS
    <2> HIDE DEF x, e
    <2> QED BY <1>0, <1>4, <2>1, ChainFill DEF e
<1>6. Placed(Update(e, t.count, h[1], x), body, hi)
    <2> HIDE DEF e
    <2> QED BY <1>0, <1>4 DEF Placed, Update
<1> HIDE DEF u, x, e
<1>7. IsEntered(u, t, body, hi, h, x, made \ {h[1]})
    BY <1>3, <1>5, <1>6 DEF IsEntered, Good, e
<1> QED BY <1>7 DEF Filled, u, x

\* An entry is fetched into memory and stays as it is.
LEMMA FetchGood ==
    ASSUME NEW t, NEW body \in [Pos -> Blocks], NEW hi \in 0 .. MaxPos, NEW made, Good(t, body, hi, made),
           NEW h \in Handles, h[1] \in 1 .. t.count
    PROVE  LET u == Fetch(t, h[1], EntryAt(t, body, h[1])) IN
           /\ Good(u, body, hi, made)
           /\ Image(u, body) = Image(t, body)
           /\ u.virtual = t.virtual /\ u.off = t.off /\ u.primary = t.primary /\ u.avail = t.avail
<1> DEFINE x == EntryAt(t, body, h[1])
           u == Fetch(t, h[1], x)
           e == Image(t, body)
<1>0. /\ Based(t, body, hi) /\ Placed(e, body, hi) /\ Linked(e, t.avail, made)
      /\ t \in Tables /\ t.count \in 1 .. MaxIndex /\ t.avail \in Handles \cup {Nil}
      /\ t.virtual \in BOOLEAN
    BY DEF Good, Based, Tables
<1>1. e \in [1 .. t.count -> Entries] /\ x = e[h[1]]
    BY <1>0, ImageIs DEF Image
<1> HIDE DEF x, e
<1>2. x \in Entries
    BY <1>1
<1>3. u = Changed(t, h[1], x, t.count, t.avail, t.virtual)
    BY <1>0, <1>2, OperationsAreChanges
<1> HIDE DEF u
<1>4. /\ Based(u, body, hi) /\ Image(u, body) = [k \in 1 .. t.count |-> IF k = h[1] THEN x ELSE e[k]]
      /\ u.avail = t.avail /\ u.virtual = t.virtual /\ u.off = t.off /\ u.primary = t.primary
    <2>1. MayChange(t, body, hi, h[1], x, t.count, t.avail, t.virtual)
        BY <1>0, <1>2 DEF MayChange
    <2>2. IsChanged(u, t, body, hi, h[1], x, t.count, t.avail, t.virtual)
        BY <1>3, <2>1, ChangedIs
    <2> QED BY <2>2 DEF IsChanged, e
<1>5. Image(u, body) = e
    BY <1>1, <1>4
<1> QED BY <1>0, <1>4, <1>5 DEF Good, u, x, e

\* What AllocL gives: an entry that was free or is new.
IsAllocated(u, t, body, hi, h, inv, next) ==
    /\ Good(u, body, hi, next)
    /\ h \in Handles /\ h[1] \in 1 .. u.count
    /\ u.count = t.count \/ (u.count = t.count + 1 /\ h[1] = u.count)
    /\ h[1] \in 1 .. t.count => Image(t, body)[h[1]].inv
    /\ Image(u, body) = Update(Image(t, body), u.count, h[1], [gen |-> h[2], inv |-> inv, ref |-> Empty])
    /\ u.virtual = TRUE /\ u.off = t.off /\ u.primary = t.primary

LEMMA AllocGood ==
    ASSUME NEW t, NEW body \in [Pos -> Blocks], NEW hi \in 0 .. MaxPos, NEW made, Good(t, body, hi, made),
           CanAlloc(t), NEW inv \in BOOLEAN, NEW next, made \subseteq next,
           next \subseteq made \cup {NewHandle(t)[1]}, inv => NewHandle(t)[1] \in next
    PROVE  /\ IsAllocated(Alloc(t, body, inv), t, body, hi, NewHandle(t), inv, next)
           /\ made \subseteq 1 .. t.count => NewHandle(t)[1] \notin made
<1> DEFINE h == NewHandle(t)
           x == [gen |-> h[2], inv |-> inv, ref |-> Empty]
           u == Alloc(t, body, inv)
           e == Image(t, body)
<1>0. /\ Based(t, body, hi) /\ Placed(e, body, hi) /\ Linked(e, t.avail, made)
      /\ t \in Tables /\ t.count \in 0 .. MaxIndex /\ t.avail \in Handles \cup {Nil}
    BY DEF Good, Based, Tables
<1>1. e \in [1 .. t.count -> Entries]
    BY <1>0, ImageIs
<1> HIDE DEF e
<1>2. CASE t.avail = Nil
    <2>1. h = <<t.count + 1, 0>> /\ t.count + 1 \in 1 .. MaxIndex
        BY <1>0, <1>2, BoundsAssumption DEF NewHandle, CanAlloc
    <2>2. h \in Handles /\ h[1] = t.count + 1
        BY <2>1, BoundsAssumption DEF Handles
    <2>3. x \in Entries
        BY <2>2 DEF Entries, Handles
    <2>4. u = [Fetch(t, h[1], x) EXCEPT !.count = h[1], !.virtual = TRUE]
        BY <1>2 DEF Alloc
    <2>5. x.inv => h[1] \in next
        OBVIOUS
    <2> HIDE DEF x, h, u
    <2>6. u = Changed(t, h[1], x, h[1], Nil, TRUE)
        BY <1>0, <1>2, <2>2, <2>3, <2>4, OperationsAreChanges
    <2>7. MayChange(t, body, hi, h[1], x, h[1], Nil, TRUE)
        BY <1>0, <2>1, <2>2, <2>3 DEF MayChange
    <2>8. IsChanged(u, t, body, hi, h[1], x, h[1], Nil, TRUE)
        BY <2>6, <2>7, ChangedIs
    <2>9. /\ Based(u, body, hi) /\ Image(u, body) = Update(e, h[1], h[1], x) /\ u.count = h[1]
          /\ u.avail = Nil /\ u.virtual = TRUE /\ u.off = t.off /\ u.primary = t.primary
        BY <2>8 DEF IsChanged, Update, e
    <2>10. Linked(Update(e, h[1], h[1], x), Nil, next)
        <3>1. Linked(e, Nil, made) /\ t.count \in Nat /\ (x.inv => t.count + 1 \in next)
            BY <1>0, <1>2, <2>2, <2>5
        <3>2. Linked(Update(e, t.count + 1, t.count + 1, x), Nil, next)
            BY <1>1, <3>1, ChainGrow
        <3> QED BY <2>2, <3>2
    <2>11. Placed(Update(e, h[1], h[1], x), body, hi)
        BY <1>0, <1>1, <2>2 DEF Placed, Update, x
    <2>12. Good(u, body, hi, next)
        BY <2>9, <2>10, <2>11 DEF Good
    <2>13. h[1] \in 1 .. u.count /\ h[1] \notin 1 .. t.count
        BY <1>0, <2>1, <2>2, <2>9
    <2> QED BY <2>2, <2>9, <2>12, <2>13 DEF IsAllocated, u, h, e, x
<1>3. CASE t.avail # Nil
    <2>1. h = <<t.avail[1], (t.avail[2] + 1) % Gens>> /\ t.avail \in Handles
        BY <1>0, <1>3 DEF NewHandle
    <2>2. h \in Handles /\ h[1] = t.avail[1]
        <3>1. t.avail[1] \in 1 .. MaxIndex /\ t.avail[2] + 1 \in Nat /\ Gens \in Nat \ {0}
            BY <2>1, BoundsAssumption DEF Handles
        <3>2. \A a \in Nat, b \in Nat \ {0} : a % b \in 0 .. b - 1
            OBVIOUS
        <3>3. (t.avail[2] + 1) % Gens \in 0 .. Gens - 1
            BY <3>1, <3>2
        <3> QED BY <2>1, <3>1, <3>3 DEF Handles
    <2>3. x \in Entries
        BY <2>2 DEF Entries, Handles
    <2> DEFINE a == At(t, body, h)
    <2>4. u = [Fetch(t, h[1], x) EXCEPT !.avail = a, !.virtual = TRUE]
        BY <1>3 DEF Alloc
    <2>5. x.inv => t.avail[1] \in next
        BY <2>2
    <2>6. /\ t.avail[1] \in 1 .. t.count /\ t.avail[1] \notin made
          /\ e[t.avail[1]].inv /\ e[t.avail[1]].ref \in Handles \cup {Nil}
          /\ Linked(Update(e, t.count, t.avail[1], x), e[t.avail[1]].ref, next)
        <3> HIDE DEF x
        <3>1. MayPop(e, t.count, t.avail, made, x, next)
            BY <1>0, <1>1, <1>3, <2>2, <2>5 DEF MayPop
        <3> QED BY <3>1, ChainPop
    <2>7. a = e[h[1]].ref
        BY <2>2, <2>6 DEF At, e, Image
    <2> HIDE DEF x, h, u, a
    <2>8. u = Changed(t, h[1], x, t.count, a, TRUE)
        <3>1. \A b : [Fetch(t, h[1], x) EXCEPT !.avail = b, !.virtual = TRUE]
                       = Changed(t, h[1], x, t.count, b, TRUE)
            BY <1>0, <2>2, <2>3, OperationsAreChanges
        <3> QED BY <2>4, <3>1
    <2>9. MayChange(t, body, hi, h[1], x, t.count, a, TRUE)
        BY <1>0, <2>2, <2>3, <2>6, <2>7 DEF MayChange
    <2>10. IsChanged(u, t, body, hi, h[1], x, t.count, a, TRUE)
        BY <2>8, <2>9, ChangedIs
    <2>11. /\ Based(u, body, hi) /\ Image(u, body) = Update(e, t.count, h[1], x) /\ u.count = t.count
           /\ u.avail = a /\ u.virtual = TRUE /\ u.off = t.off /\ u.primary = t.primary
        BY <2>10 DEF IsChanged, Update, e
    <2>12. Placed(Update(e, t.count, h[1], x), body, hi)
        BY <1>0, <1>1 DEF Placed, Update, x
    <2>13. Good(u, body, hi, next)
        BY <2>2, <2>6, <2>7, <2>11, <2>12 DEF Good
    <2> QED BY <2>2, <2>6, <2>11, <2>13 DEF IsAllocated, u, h, e, x
<1> QED BY <1>2, <1>3

-----------------------------------------------------------------------------
(* Writing and reading a table *)

\* A table with its fields.
ATable(primary, virtual, avail, count, ent, toc, off, magic) ==
    [primary |-> primary, virtual |-> virtual, avail |-> avail, count |-> count, ent |-> ent,
     toc |-> toc, off |-> off, magic |-> magic]

\* What is in memory once table t was written to slot new.
Written(t, new, primary) ==
    IF IsDelta(t) THEN ATable(primary, FALSE, t.avail, t.count, t.ent, t.toc, new, Magic(t))
    ELSE ATable(primary, FALSE, t.avail, t.count, NoEntries, new, new, 0)

LEMMA AdoptIs ==
    ASSUME NEW t \in Tables, NEW new, NEW primary
    PROVE  Adopt(t, new, primary) = Written(t, new, primary)
<1> DEFINE no == FALSE
           a == [t EXCEPT !.off = new]
           b == [a EXCEPT !.primary = primary]
           c == [b EXCEPT !.virtual = no]
<1>0. no = FALSE
    OBVIOUS
<1> HIDE DEF no
<1>1. t = ATable(t.primary, t.virtual, t.avail, t.count, t.ent, t.toc, t.off, t.magic)
    BY DEF Tables, ATable
<1>2. a = ATable(t.primary, t.virtual, t.avail, t.count, t.ent, t.toc, new, t.magic)
    BY <1>1 DEF ATable
<1>3. b = ATable(primary, t.virtual, t.avail, t.count, t.ent, t.toc, new, t.magic)
    <2> HIDE DEF a
    <2> QED BY <1>2 DEF ATable
<1>4. c = ATable(primary, no, t.avail, t.count, t.ent, t.toc, new, t.magic)
    <2> HIDE DEF b
    <2> QED BY <1>3 DEF ATable
<1>5. c = [t EXCEPT !.off = new, !.primary = primary, !.virtual = no]
    OBVIOUS
<1> HIDE DEF c
<1>6. [c EXCEPT !.magic = Magic(t)]
        = ATable(primary, no, t.avail, t.count, t.ent, t.toc, new, Magic(t))
    BY <1>4 DEF ATable
<1>7. [c EXCEPT !.toc = new, !.ent = NoEntries, !.magic = 0]
        = ATable(primary, no, t.avail, t.count, NoEntries, new, new, 0)
    <2> DEFINE d == [c EXCEPT !.toc = new]
               f == [d EXCEPT !.ent = NoEntries]
    <2>1. d = ATable(primary, no, t.avail, t.count, t.ent, new, new, t.magic)
        BY <1>4 DEF ATable
    <2>2. f = ATable(primary, no, t.avail, t.count, NoEntries, new, new, t.magic)
        <3> HIDE DEF d
        <3> QED BY <2>1 DEF ATable
    <2>3. [f EXCEPT !.magic = 0] = ATable(primary, no, t.avail, t.count, NoEntries, new, new, 0)
        <3> HIDE DEF f
        <3> QED BY <2>2 DEF ATable
    <2> QED BY <2>3
<1>8. Adopt(t, new, primary) = IF IsDelta(t) THEN [c EXCEPT !.magic = Magic(t)]
                               ELSE [c EXCEPT !.toc = new, !.ent = NoEntries, !.magic = 0]
    BY <1>0, <1>5 DEF Adopt
<1> QED BY <1>0, <1>6, <1>7, <1>8 DEF Written

\* A delta has a base: with all entries in memory it would not be shorter.
LEMMA DeltaHasBase ==
    ASSUME NEW t, NEW body, NEW hi, Based(t, body, hi), IsDelta(t)
    PROVE  t.toc # 0
<1> SUFFICES ASSUME t.toc = 0 PROVE FALSE
    OBVIOUS
<1> DEFINE n == Cardinality(DOMAIN t.ent)
<1>1. t.count \in 0 .. MaxIndex /\ t.magic \in Nat /\ DOMAIN t.ent = 1 .. t.count
    BY DEF Based, Tables
<1>2. n = t.count
    <2>1. Cardinality(1 .. t.count) = IF 1 > t.count THEN 0 ELSE t.count - 1 + 1
        <3>1. 1 \in Int /\ t.count \in Int
            BY <1>1
        <3> QED BY <3>1, FS_Interval, Zenon
    <2> QED BY <1>1, <2>1
<1>3. (t.magic + t.count) * KSizeTocDeltaEntry <= t.count * KSizeTocEntry - KSizeTocDeltaExtra
    BY <1>2 DEF IsDelta
<1>4. \A m, c, d, e, x \in Nat : e <= d /\ x # 0 => ~((m + c) * d <= c * e - x)
    <2> TAKE m, c, d, e, x \in Nat
    <2> HAVE e <= d /\ x # 0
    <2> DEFINE s == (m + c) * d
               md == m * d
               cd == c * d
               ce == c * e
               r == c * (d - e)
    <2>1. s = md + cd /\ cd = ce + r
        OBVIOUS
    <2>2. md \in Nat /\ r \in Nat /\ cd \in Int /\ ce \in Int /\ s \in Int
        OBVIOUS
    <2> HIDE DEF s, md, cd, ce, r
    <2>3. ~(s <= ce - x)
        BY <2>1, <2>2
    <2> QED BY <2>3 DEF s, ce
<1>5. KSizeTocDeltaEntry \in Nat /\ KSizeTocEntry \in Nat /\ KSizeTocDeltaExtra \in Nat \ {0}
    BY BoundsAssumption
<1>6. /\ t.magic \in Nat /\ t.count \in Nat
      /\ KSizeTocEntry <= KSizeTocDeltaEntry /\ KSizeTocDeltaExtra # 0 /\ KSizeTocDeltaExtra \in Nat
    BY <1>1, <1>5, SizesAssumption
<1> QED BY <1>3, <1>4, <1>5, <1>6, Zenon

LEMMA SeqOf ==
    ASSUME NEW S, NEW n \in Nat, NEW f \in [1 .. n -> S]
    PROVE  f \in Seq(S) /\ Len(f) = n
<1>1. f \in Seq(S)
    BY SeqDef
<1> QED BY <1>1

\* Table t can be written behind slot hi of body, and c is the file then.
MayWrite(t, body, hi, primary, c) ==
    /\ body \in [Pos -> Blocks] /\ c \in [Pos -> Blocks] /\ hi \in 0 .. MaxPos - 1
    /\ Good(t, body, hi, {}) /\ primary \in Handles \cup {Nil}
    /\ SameUpTo(body, c, hi) /\ c[hi + 1] = Realize(t, body, primary)

IsWritten(u, t, body, hi, primary, c) ==
    /\ Load(c, hi + 1, 0) = u
    /\ Good(u, c, hi + 1, {}) /\ Image(u, c) = Image(t, body)
    /\ u.off = hi + 1 /\ u.primary = primary /\ u.virtual = FALSE /\ u.avail = t.avail

\* A TOC is a block of the file.
LEMMA RealizeType ==
    ASSUME NEW t, NEW body \in [Pos -> Blocks], NEW hi \in 0 .. MaxPos, Based(t, body, hi),
           NEW primary \in Handles \cup {Nil}
    PROVE  /\ Realize(t, body, primary) \in Blocks
           /\ IsDelta(t) => Realize(t, body, primary) \in DeltaBlocks /\ Magic(t) \in Nat
           /\ ~IsDelta(t) => Realize(t, body, primary) \in BaseBlocks
<1>1. t.count \in 0 .. MaxIndex /\ t.magic \in Nat /\ t.ent \in EntryMaps /\ t.toc \in 0 .. MaxPos
      /\ t.avail \in Handles \cup {Nil}
    BY DEF Based, Tables
<1>2. Magic(t) \in Nat
    <2>1. DOMAIN t.ent \subseteq 1 .. MaxIndex
        BY <1>1, EntryMapsAre
    <2>2. IsFiniteSet(1 .. MaxIndex)
        <3>1. 1 \in Int /\ MaxIndex \in Int
            BY BoundsAssumption
        <3> QED BY <3>1, FS_Interval, Zenon
    <2>3. Cardinality(DOMAIN t.ent) \in Nat
        BY <2>1, <2>2, FS_Subset, FS_CardinalityType
    <2> QED BY <1>1, <2>3, BoundsAssumption DEF Magic
<1>3. CASE IsDelta(t)
    <2>1. Realize(t, body, primary) \in DeltaBlocks
        BY <1>1, <1>2, <1>3 DEF Realize, DeltaBlocks
    <2> QED BY <1>2, <1>3, <2>1 DEF Blocks
<1>4. CASE ~IsDelta(t)
    <2> DEFINE f == [i \in 1 .. t.count |-> EntryAt(t, body, i)]
    <2>1. f \in [1 .. t.count -> Entries]
        BY ImageIs DEF Image
    <2>2. f \in Seq(Entries)
        <3> HIDE DEF f
        <3> QED BY <1>1, <2>1, SeqOf
    <2>3. Realize(t, body, primary) = [kind |-> "base", primary |-> primary, avail |-> t.avail, ent |-> f]
        BY <1>4 DEF Realize
    <2> HIDE DEF f
    <2>4. Realize(t, body, primary) \in BaseBlocks
        BY <1>1, <2>2, <2>3 DEF BaseBlocks
    <2> QED BY <1>4, <2>4 DEF Blocks
<1> QED BY <1>3, <1>4

\* What was written is read again.
LEMMA WrittenIs ==
    ASSUME NEW t, NEW body, NEW hi, NEW primary, NEW c, MayWrite(t, body, hi, primary, c)
    PROVE  IsWritten(Written(t, hi + 1, primary), t, body, hi, primary, c)
<1> DEFINE new == hi + 1
           u == Written(t, new, primary)
<1>0. /\ body \in [Pos -> Blocks] /\ c \in [Pos -> Blocks] /\ hi \in 0 .. MaxPos - 1 /\ new \in Pos
      /\ hi \in 0 .. MaxPos /\ new \in 0 .. MaxPos /\ new # 0
      /\ Based(t, body, hi) /\ t \in Tables /\ primary \in Handles \cup {Nil}
      /\ SameUpTo(body, c, hi) /\ c[new] = Realize(t, body, primary)
    BY BoundsAssumption DEF MayWrite, Good, Based, Pos
<1>1. /\ t.count \in 0 .. MaxIndex /\ t.ent \in EntryMaps /\ t.toc \in 0 .. hi
      /\ t.avail \in Handles \cup {Nil}
    BY <1>0 DEF Based, Tables
<1>2. Based(t, c, hi) /\ Image(t, c) = Image(t, body)
    BY <1>0, SameGood
<1> HIDE DEF new
<1>3. /\ Load(c, new, 0) = u /\ Based(u, c, new) /\ Image(u, c) = Image(t, body)
      /\ u.off = new /\ u.primary = primary /\ u.virtual = FALSE /\ u.avail = t.avail
    <2>1. CASE IsDelta(t)
        <3>1. u = ATable(primary, FALSE, t.avail, t.count, t.ent, t.toc, new, Magic(t))
            BY <2>1 DEF Written
        <3>2. Magic(t) \in Nat
            BY <1>0, <2>1, RealizeType
        <3>3. /\ u \in Tables /\ u.off = new /\ u.primary = primary /\ u.virtual = FALSE /\ u.avail = t.avail
              /\ u.ent = t.ent /\ u.count = t.count /\ u.toc = t.toc
            BY <1>0, <1>1, <3>1, <3>2 DEF ATable, Tables
        <3>4. /\ t.toc # 0 /\ c[t.toc].kind = "base" /\ Len(c[t.toc].ent) <= t.count
              /\ \A i \in 1 .. t.count : i \in DOMAIN t.ent \/ i <= Len(c[t.toc].ent)
              /\ DOMAIN t.ent \subseteq 1 .. t.count
            BY <1>2, <2>1, DeltaHasBase DEF Based
        <3>5. t.toc <= new
            BY <1>0, <1>1 DEF new
        <3>6. Based(u, c, new)
            BY <1>0, <3>3, <3>4, <3>5 DEF Based
        <3>7. Image(u, c) = Image(t, c)
            BY <3>3 DEF Image, EntryAt
        <3>8. Load(c, new, 0) = u
            <4>1. /\ c[new].kind = "delta" /\ c[new].base = t.toc /\ c[new].primary = primary
                  /\ c[new].avail = t.avail /\ c[new].count = t.count /\ c[new].ent = t.ent
                  /\ c[new].magic = Magic(t)
                BY <1>0, <2>1 DEF Realize
            <4>2. t.toc \in 1 .. (new - 1)
                BY <1>0, <1>1, <3>4 DEF new
            <4>3. ~(Len(c[t.toc].ent) > t.count)
                <5>1. c[t.toc] \in BaseBlocks
                    <6>1. t.toc \in Pos /\ c[t.toc].kind = "base"
                        BY <1>0, <1>1, <3>4, BoundsAssumption DEF Pos
                    <6>2. c[t.toc] \in Blocks
                        BY <1>0, <6>1
                    <6> QED BY <6>1, <6>2 DEF Blocks, Free, Garbage, DataBlocks, DeltaBlocks
                <5>2. Len(c[t.toc].ent) \in Nat
                    BY <5>1 DEF BaseBlocks
                <5> QED BY <1>1, <3>4, <5>2
            <4> QED BY <1>0, <3>1, <3>4, <4>1, <4>2, <4>3 DEF Load, ATable
        <3> QED BY <1>2, <3>3, <3>6, <3>7, <3>8
    <2>2. CASE ~IsDelta(t)
        <3>1. u = ATable(primary, FALSE, t.avail, t.count, NoEntries, new, new, 0)
            BY <2>2 DEF Written
        <3>2. NoEntries \in EntryMaps /\ DOMAIN NoEntries = {}
            <4>1. DOMAIN NoEntries = {} /\ NoEntries \in [{} -> Entries]
                BY DEF NoEntries
            <4> QED BY <4>1, EntryMapsAre
        <3>3. /\ u \in Tables /\ u.off = new /\ u.primary = primary /\ u.virtual = FALSE /\ u.avail = t.avail
              /\ u.ent = NoEntries /\ u.count = t.count /\ u.toc = new
            BY <1>0, <1>1, <3>1, <3>2 DEF ATable, Tables
        <3>4. /\ c[new].kind = "base" /\ c[new].ent = Image(t, body)
              /\ c[new].primary = primary /\ c[new].avail = t.avail
            BY <1>0, <2>2 DEF Realize, Image
        <3>5. Image(t, body) \in [1 .. t.count -> Entries]
            BY <1>0, ImageIs
        <3>6. Len(c[new].ent) = t.count
            BY <1>1, <3>4, <3>5, SeqOf
        <3>7. Based(u, c, new)
            BY <1>0, <1>1, <3>2, <3>3, <3>4, <3>6 DEF Based
        <3>8. Image(u, c) = Image(t, body)
            <4>1. Image(u, c) = [i \in 1 .. t.count |-> c[new].ent[i]]
                BY <3>2, <3>3 DEF Image, EntryAt
            <4> HIDE DEF Image
            <4> QED BY <3>4, <3>5, <4>1
        <3>9. Load(c, new, 0) = u
            <4>1. Load(c, new, 0) = [NoToc EXCEPT !.primary = primary, !.avail = t.avail,
                                                  !.count = t.count, !.toc = new, !.off = new]
                BY <1>0, <3>4, <3>6 DEF Load
            <4> QED BY <3>1, <4>1 DEF NoToc, ATable
        <3> QED BY <3>3, <3>7, <3>8, <3>9
    <2> QED BY <2>1, <2>2
<1> HIDE DEF u
<1>4. Placed(Image(t, body), c, new)
    <2>1. Placed(Image(t, body), body, hi)
        BY DEF MayWrite, Good
    <2> QED BY <1>0, <2>1 DEF Placed, SameUpTo, new
<1>5. Linked(Image(t, body), t.avail, {})
    BY DEF MayWrite, Good
<1> QED BY <1>3, <1>4, <1>5 DEF IsWritten, Good, new, u

-----------------------------------------------------------------------------
(* What a process that opens the file finds *)

LEMMA HeaderRead ==
    ASSUME NEW f \in Files, NEW toc \in 0 .. MaxPos, HeaderSays(f.hdr, toc)
    PROVE  LET r == ReadHeader(f) IN
           /\ r.toc = toc /\ r.reloc = Nil /\ r.target = 0 /\ r.valid
           /\ r.backup \in BOOLEAN /\ (r.backup => ~f.hdr.dirty) /\ (~r.backup => f.hdr.backup = toc)
<1>1. f.hdr \in Headers
    BY DEF Files
<1>2. CASE f.hdr.dirty /\ f.hdr.backup = toc
    BY <1>2 DEF ReadHeader
<1>3. CASE ~f.hdr.dirty /\ f.hdr.rel = Nil /\ f.hdr.ref = toc /\ f.hdr.crc = <<toc, Nil, toc>>
    BY <1>3 DEF ReadHeader
<1> QED BY <1>2, <1>3 DEF HeaderSays

\* The coordinator that ReadHeader leads to.
LEMMA FreshIs ==
    ASSUME NEW f \in Files, NEW toc \in 0 .. MaxPos, HeaderSays(f.hdr, toc)
    PROVE  LET k == Fresh(ReadHeader(f)) IN
           /\ k \in Coords /\ k.toc = toc /\ k.active /\ k.clip /\ k.ext = 0 /\ k.extend = Nil
           /\ HeaderKnown(f.hdr, k)
<1> DEFINE r == ReadHeader(f)
           k == Fresh(r)
<1>1. /\ r.toc = toc /\ r.reloc = Nil /\ r.target = 0
      /\ r.backup \in BOOLEAN /\ (r.backup => ~f.hdr.dirty) /\ (~r.backup => f.hdr.backup = toc)
    BY HeaderRead
<1> HIDE DEF r
<1>2. /\ k.toc = toc /\ k.active = TRUE /\ k.clip = TRUE /\ k.ext = 0 /\ k.extend = Nil
      /\ k.backup = r.backup /\ k.reloc = Nil /\ k.target = 0
    BY <1>1 DEF Fresh
<1>3. k \in Coords
    <2>1. 0 \in 0 .. MaxPos
        BY BoundsAssumption
    <2> QED BY <1>1, <2>1 DEF Fresh, Coords
<1> HIDE DEF k
<1>4. HeaderKnown(f.hdr, k)
    BY <1>1, <1>2 DEF HeaderKnown
<1> QED BY <1>2, <1>3, <1>4 DEF k, r

LEMMA TheIs == \A x : The({x}) = x
BY DEF The

\* Table t with root rt as the streams it holds.
Snap(t, b, rt) == [root |-> rt, streams |-> StreamsOf(Image(t, b), b)]

LEMMA StableIs ==
    ASSUME disk \in Files, NEW toc \in 0 .. MaxPos, HeaderSays(disk.hdr, toc),
           Based(Load(disk.body, toc, 0), disk.body, toc)
    PROVE  Stable = Snap(Load(disk.body, toc, 0), disk.body, Load(disk.body, toc, 0).primary)
<1> DEFINE r == ReadHeader(disk)
           t == Load(disk.body, toc, 0)
<1>1. r.toc = toc /\ r.reloc = Nil /\ r.target = 0 /\ r.valid
    BY HeaderRead
<1>2. t # Nil
    BY NilAssumption DEF Based
<1>3. Contents(t, disk.body, Nil, 0) = StreamsOf(Image(t, disk.body), disk.body)
    <2>1. disk.body \in [Pos -> Blocks]
        BY DEF Files
    <2> HIDE DEF t
    <2> QED BY <2>1, ContentsIs DEF t
<1>4. Moved(Nil, 0) = 0
    BY DEF Moved
<1> DEFINE held(u) == IF u = Nil THEN Unreadable
                      ELSE [root |-> u.primary, streams |-> Contents(u, disk.body, r.reloc, r.target)]
<1>5. Held(disk, r) = held(t)
    <2>1. {held(u) : u \in {Load(disk.body, r.toc, Moved(r.reloc, r.target))}} = {held(t)}
        BY <1>1, <1>4
    <2>2. Held(disk, r) = The({held(u) : u \in {Load(disk.body, r.toc, Moved(r.reloc, r.target))}})
        BY DEF Held
    <2> HIDE DEF held
    <2> QED BY <2>1, <2>2, TheIs
<1>6. Stable = Held(disk, r)
    <2> DEFINE st(q) == IF q.valid THEN Held(disk, q) ELSE Unreadable
    <2>1. {st(q) : q \in {ReadHeader(disk)}} = {st(r)}
        OBVIOUS
    <2>2. st(r) = Held(disk, r)
        BY <1>1
    <2>3. Stable = The({st(q) : q \in {ReadHeader(disk)}})
        BY DEF Stable
    <2> HIDE DEF st, r
    <2> QED BY <2>1, <2>2, <2>3, TheIs
<1>7. held(t) = Snap(t, disk.body, t.primary)
    BY <1>1, <1>2, <1>3 DEF Snap
<1> QED BY <1>5, <1>6, <1>7

\* What is stable: the last commit point, or the new one once the commit has
\* taken effect.
LEMMA StableInv ==
    ASSUME StoreInv
    PROVE  /\ phase # "header" \/ wq # <<>> => Stable = Snap(Committed, view.body, Committed.primary)
           /\ phase = "header" /\ wq = <<>> => Stable = Snap(tab, view.body, root)
<1>0. /\ disk \in Files /\ view \in Files /\ disk.body \in [Pos -> Blocks] /\ view.body \in [Pos -> Blocks]
      /\ coord \in Coords /\ coord.toc \in 0 .. MaxPos /\ coord.ext \in 0 .. MaxPos
      /\ root \in Handles \cup {Nil}
    BY DEF StoreInv, TypeInv, Files, Coords
<1>1. ASSUME HeaderSays(disk.hdr, coord.toc)
      PROVE  Stable = Snap(Committed, view.body, Committed.primary)
    <2> DEFINE c == Committed
    <2>1. SameUpTo(disk.body, view.body, coord.toc) /\ Good(c, view.body, coord.toc, {})
        BY DEF StoreInv, FileInv, FileOK, Committed
    <2>2. SameUpTo(view.body, disk.body, coord.toc)
        BY <2>1 DEF SameUpTo
    <2>3. Load(disk.body, coord.toc, 0) = c
        BY <1>0, <2>2, SameLoad DEF Committed
    <2> HIDE DEF c
    <2>4. Based(c, disk.body, coord.toc) /\ Image(c, disk.body) = Image(c, view.body)
        BY <1>0, <2>1, <2>2, SameGood DEF Good
    <2>5. Stable = Snap(c, disk.body, c.primary)
        BY <1>0, <1>1, <2>3, <2>4, StableIs
    <2>6. StreamsOf(Image(c, view.body), disk.body) = StreamsOf(Image(c, view.body), view.body)
        BY <1>0, <2>1, <2>2, SameStreams DEF Good
    <2> QED BY <2>4, <2>5, <2>6 DEF Snap, c
<1>2. CASE phase # "header"
    BY <1>1, <1>2 DEF StoreInv, HeaderInv
<1>3. CASE phase = "header" /\ wq # <<>>
    <2>1. Switching(disk, wq, coord)
        BY <1>3 DEF StoreInv, HeaderInv
    <2>2. disk.hdr = DirtyHeader(coord) => HeaderSays(disk.hdr, coord.toc)
        BY DEF DirtyHeader, Header, HeaderSays
    <2>3. HeaderSays(disk.hdr, coord.toc)
        BY <1>3, <2>1, <2>2 DEF Switching
    <2> QED BY <1>1, <1>3, <2>3
<1>4. CASE phase = "header" /\ wq = <<>>
    <2>1. Switching(disk, wq, coord) /\ disk.body = view.body
        BY <1>4 DEF StoreInv, HeaderInv
    <2>2. disk.hdr = NewHeader(coord)
        BY <1>4, <2>1 DEF Switching
    <2>3. HeaderSays(disk.hdr, coord.ext + 1)
        BY <2>2 DEF NewHeader, Header, HeaderSays
    <2>4. /\ coord.ext < MaxPos /\ view.body[coord.ext + 1] = Realize(tab, view.body, root)
          /\ tab # Nil /\ coord.extend = Nil
        BY <1>4 DEF StoreInv, TrimInv
    <2>5. Good(tab, view.body, coord.ext, {})
        BY <1>4, <2>4 DEF StoreInv, TableInv, Usable, InUse, MadeOf
    <2>6. MayWrite(tab, view.body, coord.ext, root, view.body)
        BY <1>0, <2>4, <2>5, BoundsAssumption DEF MayWrite, SameUpTo
    <2> DEFINE u == Written(tab, coord.ext + 1, root)
    <2>7. IsWritten(u, tab, view.body, coord.ext, root, view.body)
        BY <2>6, WrittenIs
    <2> HIDE DEF u
    <2>8. /\ Load(disk.body, coord.ext + 1, 0) = u /\ Based(u, disk.body, coord.ext + 1)
          /\ u.primary = root /\ Image(u, view.body) = Image(tab, view.body)
        BY <2>1, <2>7 DEF IsWritten, Good
    <2>9. coord.ext + 1 \in 0 .. MaxPos
        BY <1>0, <2>4, BoundsAssumption
    <2>10. Stable = Snap(u, disk.body, u.primary)
        BY <1>0, <2>3, <2>8, <2>9, StableIs
    <2> QED BY <1>4, <2>1, <2>8, <2>10 DEF Snap
<1> QED BY <1>2, <1>3, <1>4

\* The last commit point, and what the client has, as the streams they hold.
CommitSnap(b, toc) == Snap(Load(b, toc, 0), b, Load(b, toc, 0).primary)
MemorySnap == Snap(tab, view.body, root)

\* Whether the client has a table, or the one of the last commit point.
HasTable == Usable /\ tab # Nil

\* The table that an operation works on.
LEMMA TableIs ==
    ASSUME StoreInv
    PROVE  /\ tab = Nil => Table = Committed
           /\ tab # Nil => Table = tab
           /\ coord.reloc = Nil /\ coord.target = 0
<1>1. coord.reloc = Nil /\ coord.target = 0
    BY DEF StoreInv, TypeInv, Coords
<1> QED BY <1>1 DEF Table, Committed, Moved

\* What the client has: its table, or else the last commit point.
LEMMA CurrentInv ==
    ASSUME StoreInv
    PROVE  Current = IF HasTable THEN MemorySnap ELSE CommitSnap(view.body, coord.toc)
<1>0. /\ view \in Files /\ view.body \in [Pos -> Blocks]
      /\ coord \in Coords /\ coord.toc \in 0 .. MaxPos /\ coord.ext \in 0 .. MaxPos
    BY DEF StoreInv, TypeInv, Files, Coords
<1>1. CASE ~Usable
    <2>1. phase # "header"
        BY <1>1 DEF Usable
    <2>2. Current = Stable
        BY <1>1 DEF Current
    <2> QED BY <1>1, <2>1, <2>2, StableInv DEF CommitSnap, Committed, HasTable
<1>2. ASSUME Usable, NEW t, Table = t, NEW hi \in 0 .. MaxPos, Based(t, view.body, hi)
      PROVE  Current = Snap(t, view.body, root)
    <2> DEFINE cur(u) == IF u = Nil THEN Unreadable
                         ELSE [root |-> root, streams |-> Contents(u, view.body, coord.reloc, coord.target)]
    <2>1. t # Nil
        BY <1>2, NilAssumption DEF Based
    <2>2. {cur(u) : u \in {Table}} = {cur(t)}
        BY <1>2
    <2>3. Current = The({cur(u) : u \in {Table}})
        BY <1>2 DEF Current
    <2>4. Contents(t, view.body, Nil, 0) = StreamsOf(Image(t, view.body), view.body)
        BY <1>0, <1>2, ContentsIs
    <2>5. cur(t) = Snap(t, view.body, root)
        BY <2>1, <2>4, TableIs DEF Snap
    <2> HIDE DEF cur
    <2> QED BY <2>2, <2>3, <2>5, TheIs
<1>3. CASE Usable /\ tab # Nil
    <2>1. Based(tab, view.body, coord.ext)
        BY <1>3 DEF StoreInv, TableInv, InUse, Good
    <2> QED BY <1>0, <1>2, <1>3, <2>1, TableIs DEF HasTable, MemorySnap
<1>4. CASE Usable /\ tab = Nil
    <2>1. Based(Committed, view.body, coord.toc)
        BY DEF StoreInv, FileInv, FileOK, Good, Committed
    <2>2. phase = "ready"
        BY <1>4 DEF StoreInv, NoTableInv, Usable
    <2>3. root = Committed.primary
        BY <1>4, <2>2 DEF StoreInv, NoTableInv
    <2>4. Current = Snap(Committed, view.body, root)
        BY <1>0, <1>2, <1>4, <2>1, TableIs
    <2> QED BY <1>4, <2>3, <2>4 DEF HasTable, CommitSnap, Committed
<1> QED BY <1>1, <1>3, <1>4

-----------------------------------------------------------------------------
(* What the invariant implies *)

LEMMA InvCacheCorrect == StoreInv => CacheCorrect
<1> SUFFICES ASSUME StoreInv, Usable, tab # Nil, NEW h \in DOMAIN cache
             PROVE  /\ h \in DOMAIN Current.streams
                    /\ IF cache[h] = Empty THEN Current.streams[h] = Empty
                       ELSE view.body[cache[h]] = DataBlock(Current.streams[h])
    BY DEF CacheCorrect
<1> DEFINE e == Image(tab, view.body)
<1>1. InUse(tab, view.body, coord, cache, reader, root)
    BY DEF StoreInv, TableInv
<1>2. Current.streams = StreamsOf(e, view.body)
    BY CurrentInv DEF HasTable, MemorySnap, Snap
<1>3. IsLive(e, h) /\ cache[h] = e[h[1]].ref
    BY <1>1 DEF InUse, Cached
<1>4. /\ view.body \in [Pos -> Blocks] /\ coord.ext \in 0 .. MaxPos /\ Placed(e, view.body, coord.ext)
      /\ h \in Handles
    BY <1>1 DEF InUse, Good, StoreInv, TypeInv, Files, Coords
<1> HIDE DEF e
<1>5. /\ h \in DOMAIN StreamsOf(e, view.body)
      /\ e[h[1]].ref = Empty => StreamsOf(e, view.body)[h] = Empty
      /\ e[h[1]].ref # Empty => view.body[e[h[1]].ref] = DataBlock(StreamsOf(e, view.body)[h])
    BY <1>3, <1>4, StreamsAre
<1> QED BY <1>2, <1>3, <1>5

LEMMA InvReaderStable == StoreInv => ReaderStable
<1> SUFFICES ASSUME StoreInv, reader # Nil, coord.active
             PROVE  view.body[reader.pos] = DataBlock(reader.val)
    BY DEF ReaderStable
<1>1. Usable /\ tab # Nil
    BY DEF StoreInv, HeaderInv, NoTableInv, Usable
<1> QED BY <1>1 DEF StoreInv, TableInv, InUse

LEMMA InvTrimmed == StoreInv => Trimmed
<1> SUFFICES ASSUME StoreInv, phase = "ready", coord.active, ~coord.clip, tab # Nil,
                    NEW p \in Pos, view.body[p] # Free
             PROVE  p <= (IF coord.extend = Nil \/ coord.extend.pos = Empty THEN coord.ext ELSE coord.extend.pos)
    BY DEF Trimmed
<1>1. EndsAt(view.body, LastOf(tab, coord))
    BY DEF StoreInv, TrimInv
<1>2. ~(p > LastOf(tab, coord))
    BY <1>1 DEF EndsAt
<1>3. coord.ext \in Int /\ (coord.extend # Nil /\ coord.extend.pos # Empty => coord.extend.pos \in Int) /\ p \in Int
    BY DEF StoreInv, TypeInv, Coords, Extending, Pos
<1> QED BY <1>2, <1>3 DEF LastOf

LEMMA UpToIs ==
    ASSUME NEW n \in Nat
    PROVE  IsFiniteSet(1 .. n) /\ Cardinality(1 .. n) = n
<1>1. 1 \in Int /\ n \in Int
    OBVIOUS
<1>2. IsFiniteSet(1 .. n) /\ Cardinality(1 .. n) = IF 1 > n THEN 0 ELSE n - 1 + 1
    BY <1>1, FS_Interval, Zenon
<1> QED BY <1>2

\* The list of free entries has no more entries than a table can have.
LEMMA ChainShort ==
    ASSUME NEW c \in 0 .. MaxIndex, NEW e \in [1 .. c -> Entries], NEW made, NEW avail,
           NEW s \in Seq(Handles), Chain(s, e, avail, made)
    PROVE  Len(s) \in 0 .. MaxIndex
<1>0. Len(s) \in Nat /\ MaxIndex \in Nat /\ 1 \in Int
    BY BoundsAssumption
<1> DEFINE S == 1 .. Len(s)
           T == 1 .. MaxIndex
           f == [k \in S |-> s[k][1]]
<1>1. \A k \in S : s[k][1] \in T
    BY <1>0 DEF Chain
<1>2. \A k, l \in S : s[k][1] = s[l][1] => k = l
    BY DEF Chain
<1>3. f \in Injection(S, T)
    BY <1>1, <1>2 DEF Injection, IsInjective
<1>4. IsFiniteSet(T) /\ Cardinality(T) = MaxIndex
    BY <1>0, UpToIs
<1>5. IsFiniteSet(S) /\ Cardinality(S) = Len(s)
    BY <1>0, UpToIs
<1>6. Cardinality(S) <= Cardinality(T)
    <2> HIDE DEF S, T, f
    <2> QED BY <1>3, <1>4, FS_Injection
<1> QED BY <1>0, <1>4, <1>5, <1>6

\* The chain that starts with the first free entry runs through all of s.
LEMMA AvailChainIs ==
    ASSUME NEW t, NEW body \in [Pos -> Blocks], NEW hi \in 0 .. MaxPos, Based(t, body, hi), NEW made,
           NEW s \in Seq(Handles), Chain(s, Image(t, body), t.avail, made)
    PROVE  \A n \in 0 .. MaxIndex : AvailChain(t, body)[n] = IF n < Len(s) THEN s[n + 1] ELSE Nil
<1> DEFINE N == MaxIndex
           e == Image(t, body)
           next(f, n) == IF n = 0 THEN t.avail
                         ELSE IF f[n - 1] = Nil THEN Nil ELSE EntryAt(t, body, f[n - 1][1]).ref
           a == [n \in 0 .. N |-> IF n < Len(s) THEN s[n + 1] ELSE Nil]
<1>0. Len(s) \in Nat /\ N \in Nat /\ t.count \in 0 .. N
    BY BoundsAssumption DEF Based, Tables
<1>1. \A k \in 1 .. Len(s) : s[k] \in Handles /\ s[k] # Nil
    BY NilAssumption
<1>2. ASSUME NEW k \in 1 .. Len(s)
      PROVE  EntryAt(t, body, s[k][1]).ref = IF k = Len(s) THEN Nil ELSE s[k + 1]
    <2>1. s[k][1] \in 1 .. t.count /\ e[s[k][1]].ref = IF k = Len(s) THEN Nil ELSE s[k + 1]
        BY <1>2 DEF Chain, Image
    <2> QED BY <2>1 DEF Image
<1>3. t.avail = IF Len(s) = 0 THEN Nil ELSE s[1]
    <2>1. s = <<>> <=> Len(s) = 0
        OBVIOUS
    <2> QED BY <2>1 DEF Chain
<1>4. ASSUME NEW n \in 0 .. N
      PROVE  a[n] = next(a, n)
    <2>1. CASE n = 0
        BY <1>0, <1>3, <2>1
    <2>2. CASE n # 0
        <3>1. n - 1 \in 0 .. N /\ n \in Nat
            BY <1>0, <2>2
        <3>2. CASE n - 1 < Len(s)
            <4>1. a[n - 1] = s[n] /\ n \in 1 .. Len(s)
                BY <1>0, <2>2, <3>1, <3>2
            <4>2. s[n] # Nil /\ EntryAt(t, body, s[n][1]).ref = IF n = Len(s) THEN Nil ELSE s[n + 1]
                BY <1>1, <1>2, <4>1
            <4>3. next(a, n) = EntryAt(t, body, s[n][1]).ref
                <5> HIDE DEF a
                <5> QED BY <2>2, <4>1, <4>2
            <4>4. a[n] = IF n < Len(s) THEN s[n + 1] ELSE Nil
                OBVIOUS
            <4> HIDE DEF a
            <4> QED BY <1>0, <3>1, <4>1, <4>2, <4>3, <4>4
        <3>3. CASE ~(n - 1 < Len(s))
            <4>1. a[n - 1] = Nil /\ a[n] = Nil
                BY <1>0, <3>1, <3>3
            <4> HIDE DEF a
            <4> QED BY <2>2, <4>1
        <3> QED BY <3>2, <3>3
    <2> QED BY <2>1, <2>2
<1>5. a = [n \in 0 .. N |-> next(a, n)]
    <2>1. a = [n \in 0 .. N |-> a[n]]
        OBVIOUS
    <2> HIDE DEF a, next
    <2> QED BY <1>4, <2>1
<1> DEFINE c == CHOOSE f : f = [n \in 0 .. N |-> next(f, n)]
<1>6. c = [n \in 0 .. N |-> next(c, n)]
    <2> DEFINE P(f) == f = [n \in 0 .. N |-> next(f, n)]
    <2>1. P(a)
        BY <1>5
    <2>2. c = CHOOSE f : P(f)
        OBVIOUS
    <2> HIDE DEF P, a, c
    <2>3. P(c)
        BY <2>1, <2>2
    <2> QED BY <2>3 DEF P
<1>7. AvailChain(t, body) = c
    BY DEF AvailChain
<1> HIDE DEF c
<1>8. \A n \in 0 .. N : c[n] = next(c, n)
    <2> HIDE DEF next
    <2> QED BY <1>6
<1> DEFINE A == {n \in 0 .. N : c[n] = a[n]}
<1>9. 0 \in A
    <2>1. 0 \in 0 .. N
        BY <1>0
    <2>2. c[0] = next(c, 0) /\ a[0] = next(a, 0)
        BY <1>4, <1>8, <2>1
    <2>3. next(c, 0) = next(a, 0)
        OBVIOUS
    <2> HIDE DEF a, next
    <2> QED BY <2>1, <2>2, <2>3
<1>10. ASSUME NEW n \in 0 .. N - 1, n \in A
       PROVE  n + 1 \in A
    <2>1. n + 1 \in 0 .. N /\ (n + 1) - 1 = n /\ n + 1 # 0
        BY <1>0
    <2>2. c[n + 1] = next(c, n + 1) /\ a[n + 1] = next(a, n + 1)
        BY <1>4, <1>8, <2>1
    <2>3. c[n] = a[n]
        BY <1>10
    <2>4. next(c, n + 1) = next(a, n + 1)
        <3> HIDE DEF a
        <3> QED BY <2>1, <2>3
    <2> HIDE DEF a, next
    <2> QED BY <2>1, <2>2, <2>4
<1>11. \A n \in 0 .. N : n \in A
    <2> HIDE DEF A
    <2> QED BY <1>0, <1>9, <1>10, SetInduction, Zenon
<1> QED BY <1>7, <1>11

\* A table in order has its free entries on one list.
LEMMA GoodFreeList ==
    ASSUME NEW t, NEW body \in [Pos -> Blocks], NEW hi \in 0 .. MaxPos, NEW made, Good(t, body, hi, made)
    PROVE  LET c == AvailChain(t, body)
               free == {i \in 1 .. t.count : EntryAt(t, body, i).inv}
               used == {n \in 0 .. MaxIndex : c[n] # Nil} IN
           /\ c[MaxIndex] = Nil
           /\ {c[n] : n \in used} = {<<i, EntryAt(t, body, i).gen>> : i \in free \ made}
           /\ Cardinality(used) = Cardinality(free \ made)
<1> DEFINE c == AvailChain(t, body)
           free == {i \in 1 .. t.count : EntryAt(t, body, i).inv}
           used == {n \in 0 .. MaxIndex : c[n] # Nil}
           e == Image(t, body)
<1>1. PICK s \in Seq(Handles) : Chain(s, e, t.avail, made)
    BY DEF Good, Linked
<1>2. \A n \in 0 .. MaxIndex : c[n] = IF n < Len(s) THEN s[n + 1] ELSE Nil
    BY <1>1, AvailChainIs DEF Good
<1>3. t.count \in 0 .. MaxIndex /\ e \in [1 .. t.count -> Entries] /\ MaxIndex \in Nat
    BY ImageIs, BoundsAssumption DEF Good, Based, Tables
<1>4. Len(s) \in 0 .. MaxIndex
    <2> HIDE DEF e
    <2> QED BY <1>1, <1>3, ChainShort
<1> HIDE DEF c
<1>5. c[MaxIndex] = Nil
    BY <1>2, <1>3, <1>4
<1>6. \A k \in 1 .. Len(s) : s[k] \in Handles /\ s[k] # Nil /\ s[k] = <<s[k][1], s[k][2]>>
    BY NilAssumption DEF Handles
<1>7. /\ used = 0 .. (Len(s) - 1)
      /\ \A n \in used : n + 1 \in 1 .. Len(s) /\ c[n] = s[n + 1]
      /\ \A k \in 1 .. Len(s) : k - 1 \in used /\ c[k - 1] = s[k]
    <2>1. ASSUME NEW n \in 0 .. MaxIndex PROVE c[n] # Nil <=> n < Len(s)
        <3>1. CASE n < Len(s)
            <4>1. n + 1 \in 1 .. Len(s)
                BY <1>3, <1>4, <3>1
            <4> QED BY <1>2, <1>6, <3>1, <4>1
        <3> QED BY <1>2, <3>1
    <2>2. used = 0 .. (Len(s) - 1)
        BY <1>3, <1>4, <2>1
    <2> HIDE DEF used
    <2>3. \A n \in used : n + 1 \in 1 .. Len(s) /\ n \in 0 .. MaxIndex /\ n < Len(s)
        BY <1>3, <1>4, <2>2
    <2>4. \A k \in 1 .. Len(s) : k - 1 \in used /\ k - 1 + 1 = k /\ k - 1 \in 0 .. MaxIndex /\ k - 1 < Len(s)
        BY <1>3, <1>4, <2>2
    <2>5. ASSUME NEW n \in used PROVE c[n] = s[n + 1]
        BY <1>2, <2>3
    <2>6. ASSUME NEW k \in 1 .. Len(s) PROVE c[k - 1] = s[k]
        BY <1>2, <2>4
    <2> QED BY <2>2, <2>3, <2>4, <2>5, <2>6
<1>8. \A i \in 1 .. t.count : e[i] = EntryAt(t, body, i)
    BY DEF Image
<1>9. \A k \in 1 .. Len(s) : s[k][1] \in free \ made /\ EntryAt(t, body, s[k][1]).gen = s[k][2]
    BY <1>1, <1>3, <1>8 DEF Chain
<1>10. \A i \in free \ made : \E k \in 1 .. Len(s) : s[k][1] = i
    BY <1>1, <1>3, <1>8 DEF Chain
<1> DEFINE g(i) == EntryAt(t, body, i).gen
<1>11. {c[n] : n \in used} = {<<i, g(i)>> : i \in free \ made}
    <2> HIDE DEF g, free, used
    <2>1. ASSUME NEW n \in used PROVE c[n] \in {<<i, g(i)>> : i \in free \ made}
        <3>1. n + 1 \in 1 .. Len(s) /\ c[n] = s[n + 1]
            BY <1>7
        <3>2. s[n + 1] = <<s[n + 1][1], s[n + 1][2]>> /\ s[n + 1][1] \in free \ made /\ g(s[n + 1][1]) = s[n + 1][2]
            BY <1>6, <1>9, <3>1 DEF g
        <3> QED BY <3>1, <3>2
    <2>2. ASSUME NEW i \in free \ made PROVE <<i, g(i)>> \in {c[n] : n \in used}
        <3>1. PICK k \in 1 .. Len(s) : s[k][1] = i
            BY <1>10
        <3>2. k - 1 \in used /\ c[k - 1] = s[k]
            BY <1>7
        <3>3. s[k] = <<i, g(i)>>
            BY <1>6, <1>9, <3>1 DEF g
        <3> QED BY <3>2, <3>3
    <2> QED BY <2>1, <2>2
<1> DEFINE S == 1 .. Len(s)
           T == free \ made
           a == [k \in S |-> k - 1]
           b == [k \in S |-> s[k][1]]
<1>12. IsFiniteSet(S) /\ Cardinality(S) = Len(s)
    BY <1>4, UpToIs
<1>13. ExistsBijection(S, used)
    <2>1. a \in [S -> used]
        <3>1. \A k \in S : k - 1 \in used
            BY <1>7
        <3> HIDE DEF used
        <3> QED BY <3>1
    <2>2. \A k, l \in S : a[k] = a[l] => k = l
        OBVIOUS
    <2>3. \A n \in used : \E k \in S : a[k] = n
        <3> SUFFICES ASSUME NEW n \in used PROVE n + 1 \in S /\ a[n + 1] = n
            BY Zenon
        <3>1. n + 1 \in S /\ n \in Int
            BY <1>4, <1>7
        <3> QED BY <3>1
    <2>4. a \in Bijection(S, used)
        <3> HIDE DEF a, S, used
        <3> QED BY <2>1, <2>2, <2>3, Fun_IsBij
    <2> QED BY <2>4 DEF ExistsBijection
<1>14. ExistsBijection(S, T)
    <2>1. b \in [S -> T]
        BY <1>9
    <2>2. \A k, l \in S : b[k] = b[l] => k = l
        BY <1>1 DEF Chain
    <2>3. \A i \in T : \E k \in S : b[k] = i
        BY <1>10
    <2>4. b \in Bijection(S, T)
        <3> HIDE DEF b, S, T
        <3> QED BY <2>1, <2>2, <2>3, Fun_IsBij
    <2> QED BY <2>4 DEF ExistsBijection
<1>15. Cardinality(used) = Cardinality(T)
    <2> HIDE DEF S, used, T
    <2> QED BY <1>12, <1>13, <1>14, FS_Bijection
<1> QED BY <1>5, <1>11, <1>15 DEF c

LEMMA InvFreeList == StoreInv => FreeListInv
<1> SUFFICES ASSUME StoreInv, Usable, tab # Nil
             PROVE  LET c == AvailChain(tab, view.body)
                        free == {i \in 1 .. tab.count : EntryAt(tab, view.body, i).inv}
                        used == {n \in 0 .. MaxIndex : c[n] # Nil} IN
                    /\ c[MaxIndex] = Nil
                    /\ {c[n] : n \in used} = {<<i, EntryAt(tab, view.body, i).gen>> : i \in free \ MadeOf(coord)}
                    /\ Cardinality(used) = Cardinality(free \ MadeOf(coord))
    BY DEF FreeListInv, MadeOf
<1>1. /\ view.body \in [Pos -> Blocks] /\ coord.ext \in 0 .. MaxPos
      /\ Good(tab, view.body, coord.ext, MadeOf(coord))
    BY DEF StoreInv, TypeInv, Files, Coords, TableInv, InUse
<1> QED BY <1>1, GoodFreeList

-----------------------------------------------------------------------------
(* The coordinator in a step *)

\* A coordinator with its fields; no stream is being moved.
ACoord(active, toc, backup, clip, ext, extend) ==
    [active |-> active, toc |-> toc, reloc |-> Nil, target |-> 0, backup |-> backup,
     clip |-> clip, ext |-> ext, extend |-> extend]

LEMMA ACoordIs ==
    ASSUME NEW active \in BOOLEAN, NEW toc \in 0 .. MaxPos, NEW backup \in BOOLEAN, NEW clip \in BOOLEAN,
           NEW ext \in 0 .. MaxPos, NEW extend \in {Nil} \cup Extending
    PROVE  LET k == ACoord(active, toc, backup, clip, ext, extend) IN
           /\ k \in Coords
           /\ k.active = active /\ k.toc = toc /\ k.backup = backup /\ k.clip = clip
           /\ k.ext = ext /\ k.extend = extend
BY DEF ACoord, Coords

LEMMA CoordIs ==
    ASSUME NEW k \in Coords
    PROVE  /\ k = ACoord(k.active, k.toc, k.backup, k.clip, k.ext, k.extend)
           /\ k.active \in BOOLEAN /\ k.toc \in 0 .. MaxPos /\ k.backup \in BOOLEAN /\ k.clip \in BOOLEAN
           /\ k.ext \in 0 .. MaxPos /\ k.extend \in {Nil} \cup Extending
BY DEF ACoord, Coords

\* Coordinator l has these fields.
IsCoord(l, active, toc, backup, clip, ext, extend) ==
    /\ l \in Coords /\ l.active = active /\ l.toc = toc /\ l.backup = backup /\ l.clip = clip
    /\ l.ext = ext /\ l.extend = extend

LEMMA CoordTyped ==
    ASSUME NEW active \in BOOLEAN, NEW toc \in 0 .. MaxPos, NEW backup \in BOOLEAN, NEW clip \in BOOLEAN,
           NEW ext \in 0 .. MaxPos, NEW extend \in {Nil} \cup Extending, NEW l,
           l = ACoord(active, toc, backup, clip, ext, extend)
    PROVE  IsCoord(l, active, toc, backup, clip, ext, extend)
BY ACoordIs DEF IsCoord

\* What the steps assign to it, field by field.
LEMMA CoordExt ==
    ASSUME NEW k \in Coords, NEW x \in 0 .. MaxPos
    PROVE  IsCoord([k EXCEPT !.ext = x],
                   k.active, k.toc, k.backup, k.clip, x, k.extend)
<1> DEFINE ka == k.active
           kt == k.toc
           kb == k.backup
           kc == k.clip
           kx == k.ext
           ke == k.extend
<1>0. k = ACoord(ka, kt, kb, kc, kx, ke)
    BY CoordIs
<1>1. /\ ka \in BOOLEAN /\ kt \in 0 .. MaxPos /\ kb \in BOOLEAN /\ kc \in BOOLEAN
      /\ kx \in 0 .. MaxPos /\ ke \in {Nil} \cup Extending
    BY CoordIs
<1> HIDE DEF ka, kt, kb, kc, kx, ke
<1> DEFINE k1 == [k EXCEPT !.ext = x]
<1>2. k1 = ACoord(ka, kt, kb, kc, x, ke)
    BY <1>0 DEF ACoord
<1> HIDE DEF k1
<1>3. IsCoord(k1, ka, kt, kb, kc, x, ke)
    BY <1>1, <1>2, CoordTyped
<1> QED BY <1>3 DEF ka, kt, kb, kc, kx, ke, k1

LEMMA CoordClip ==
    ASSUME NEW k \in Coords, NEW c \in BOOLEAN
    PROVE  IsCoord([k EXCEPT !.clip = c],
                   k.active, k.toc, k.backup, c, k.ext, k.extend)
<1> DEFINE ka == k.active
           kt == k.toc
           kb == k.backup
           kc == k.clip
           kx == k.ext
           ke == k.extend
<1>0. k = ACoord(ka, kt, kb, kc, kx, ke)
    BY CoordIs
<1>1. /\ ka \in BOOLEAN /\ kt \in 0 .. MaxPos /\ kb \in BOOLEAN /\ kc \in BOOLEAN
      /\ kx \in 0 .. MaxPos /\ ke \in {Nil} \cup Extending
    BY CoordIs
<1> HIDE DEF ka, kt, kb, kc, kx, ke
<1> DEFINE k1 == [k EXCEPT !.clip = c]
<1>2. k1 = ACoord(ka, kt, kb, c, kx, ke)
    BY <1>0 DEF ACoord
<1> HIDE DEF k1
<1>3. IsCoord(k1, ka, kt, kb, c, kx, ke)
    BY <1>1, <1>2, CoordTyped
<1> QED BY <1>3 DEF ka, kt, kb, kc, kx, ke, k1

LEMMA CoordActive ==
    ASSUME NEW k \in Coords, NEW a \in BOOLEAN
    PROVE  IsCoord([k EXCEPT !.active = a],
                   a, k.toc, k.backup, k.clip, k.ext, k.extend)
<1> DEFINE ka == k.active
           kt == k.toc
           kb == k.backup
           kc == k.clip
           kx == k.ext
           ke == k.extend
<1>0. k = ACoord(ka, kt, kb, kc, kx, ke)
    BY CoordIs
<1>1. /\ ka \in BOOLEAN /\ kt \in 0 .. MaxPos /\ kb \in BOOLEAN /\ kc \in BOOLEAN
      /\ kx \in 0 .. MaxPos /\ ke \in {Nil} \cup Extending
    BY CoordIs
<1> HIDE DEF ka, kt, kb, kc, kx, ke
<1> DEFINE k1 == [k EXCEPT !.active = a]
<1>2. k1 = ACoord(a, kt, kb, kc, kx, ke)
    BY <1>0 DEF ACoord
<1> HIDE DEF k1
<1>3. IsCoord(k1, a, kt, kb, kc, kx, ke)
    BY <1>1, <1>2, CoordTyped
<1> QED BY <1>3 DEF ka, kt, kb, kc, kx, ke, k1

LEMMA CoordExtend ==
    ASSUME NEW k \in Coords, NEW e \in {Nil} \cup Extending
    PROVE  IsCoord([k EXCEPT !.extend = e],
                   k.active, k.toc, k.backup, k.clip, k.ext, e)
<1> DEFINE ka == k.active
           kt == k.toc
           kb == k.backup
           kc == k.clip
           kx == k.ext
           ke == k.extend
<1>0. k = ACoord(ka, kt, kb, kc, kx, ke)
    BY CoordIs
<1>1. /\ ka \in BOOLEAN /\ kt \in 0 .. MaxPos /\ kb \in BOOLEAN /\ kc \in BOOLEAN
      /\ kx \in 0 .. MaxPos /\ ke \in {Nil} \cup Extending
    BY CoordIs
<1> HIDE DEF ka, kt, kb, kc, kx, ke
<1> DEFINE k1 == [k EXCEPT !.extend = e]
<1>2. k1 = ACoord(ka, kt, kb, kc, kx, e)
    BY <1>0 DEF ACoord
<1> HIDE DEF k1
<1>3. IsCoord(k1, ka, kt, kb, kc, kx, e)
    BY <1>1, <1>2, CoordTyped
<1> QED BY <1>3 DEF ka, kt, kb, kc, kx, ke, k1

LEMMA CoordExtendExt ==
    ASSUME NEW k \in Coords, NEW x \in 0 .. MaxPos, NEW e \in {Nil} \cup Extending
    PROVE  IsCoord([k EXCEPT !.extend = e, !.ext = x],
                   k.active, k.toc, k.backup, k.clip, x, e)
<1> DEFINE ka == k.active
           kt == k.toc
           kb == k.backup
           kc == k.clip
           kx == k.ext
           ke == k.extend
<1>0. k = ACoord(ka, kt, kb, kc, kx, ke)
    BY CoordIs
<1>1. /\ ka \in BOOLEAN /\ kt \in 0 .. MaxPos /\ kb \in BOOLEAN /\ kc \in BOOLEAN
      /\ kx \in 0 .. MaxPos /\ ke \in {Nil} \cup Extending
    BY CoordIs
<1> HIDE DEF ka, kt, kb, kc, kx, ke
<1> DEFINE k1 == [k EXCEPT !.extend = e]
<1>2. k1 = ACoord(ka, kt, kb, kc, kx, e)
    BY <1>0 DEF ACoord
<1> HIDE DEF k1
<1> DEFINE k2 == [k1 EXCEPT !.ext = x]
<1>3. k2 = ACoord(ka, kt, kb, kc, x, e)
    BY <1>2 DEF ACoord
<1> HIDE DEF k2
<1>4. IsCoord(k2, ka, kt, kb, kc, x, e)
    BY <1>1, <1>3, CoordTyped
<1> QED BY <1>4 DEF ka, kt, kb, kc, kx, ke, k1, k2

LEMMA CoordExtendClip ==
    ASSUME NEW k \in Coords, NEW c \in BOOLEAN, NEW e \in {Nil} \cup Extending
    PROVE  IsCoord([k EXCEPT !.extend = e, !.clip = c],
                   k.active, k.toc, k.backup, c, k.ext, e)
<1> DEFINE ka == k.active
           kt == k.toc
           kb == k.backup
           kc == k.clip
           kx == k.ext
           ke == k.extend
<1>0. k = ACoord(ka, kt, kb, kc, kx, ke)
    BY CoordIs
<1>1. /\ ka \in BOOLEAN /\ kt \in 0 .. MaxPos /\ kb \in BOOLEAN /\ kc \in BOOLEAN
      /\ kx \in 0 .. MaxPos /\ ke \in {Nil} \cup Extending
    BY CoordIs
<1> HIDE DEF ka, kt, kb, kc, kx, ke
<1> DEFINE k1 == [k EXCEPT !.extend = e]
<1>2. k1 = ACoord(ka, kt, kb, kc, kx, e)
    BY <1>0 DEF ACoord
<1> HIDE DEF k1
<1> DEFINE k2 == [k1 EXCEPT !.clip = c]
<1>3. k2 = ACoord(ka, kt, kb, c, kx, e)
    BY <1>2 DEF ACoord
<1> HIDE DEF k2
<1>4. IsCoord(k2, ka, kt, kb, c, kx, e)
    BY <1>1, <1>3, CoordTyped
<1> QED BY <1>4 DEF ka, kt, kb, kc, kx, ke, k1, k2

LEMMA CoordClipExt ==
    ASSUME NEW k \in Coords, NEW c \in BOOLEAN, NEW x \in 0 .. MaxPos
    PROVE  IsCoord([k EXCEPT !.clip = c, !.ext = x],
                   k.active, k.toc, k.backup, c, x, k.extend)
<1> DEFINE ka == k.active
           kt == k.toc
           kb == k.backup
           kc == k.clip
           kx == k.ext
           ke == k.extend
<1>0. k = ACoord(ka, kt, kb, kc, kx, ke)
    BY CoordIs
<1>1. /\ ka \in BOOLEAN /\ kt \in 0 .. MaxPos /\ kb \in BOOLEAN /\ kc \in BOOLEAN
      /\ kx \in 0 .. MaxPos /\ ke \in {Nil} \cup Extending
    BY CoordIs
<1> HIDE DEF ka, kt, kb, kc, kx, ke
<1> DEFINE k1 == [k EXCEPT !.clip = c]
<1>2. k1 = ACoord(ka, kt, kb, c, kx, ke)
    BY <1>0 DEF ACoord
<1> HIDE DEF k1
<1> DEFINE k2 == [k1 EXCEPT !.ext = x]
<1>3. k2 = ACoord(ka, kt, kb, c, x, ke)
    BY <1>2 DEF ACoord
<1> HIDE DEF k2
<1>4. IsCoord(k2, ka, kt, kb, c, x, ke)
    BY <1>1, <1>3, CoordTyped
<1> QED BY <1>4 DEF ka, kt, kb, kc, kx, ke, k1, k2

LEMMA CoordBackupActive ==
    ASSUME NEW k \in Coords, NEW a \in BOOLEAN, NEW b \in BOOLEAN
    PROVE  IsCoord([k EXCEPT !.backup = b, !.active = a],
                   a, k.toc, b, k.clip, k.ext, k.extend)
<1> DEFINE ka == k.active
           kt == k.toc
           kb == k.backup
           kc == k.clip
           kx == k.ext
           ke == k.extend
<1>0. k = ACoord(ka, kt, kb, kc, kx, ke)
    BY CoordIs
<1>1. /\ ka \in BOOLEAN /\ kt \in 0 .. MaxPos /\ kb \in BOOLEAN /\ kc \in BOOLEAN
      /\ kx \in 0 .. MaxPos /\ ke \in {Nil} \cup Extending
    BY CoordIs
<1> HIDE DEF ka, kt, kb, kc, kx, ke
<1> DEFINE k1 == [k EXCEPT !.backup = b]
<1>2. k1 = ACoord(ka, kt, b, kc, kx, ke)
    BY <1>0 DEF ACoord
<1> HIDE DEF k1
<1> DEFINE k2 == [k1 EXCEPT !.active = a]
<1>3. k2 = ACoord(a, kt, b, kc, kx, ke)
    BY <1>2 DEF ACoord
<1> HIDE DEF k2
<1>4. IsCoord(k2, a, kt, b, kc, kx, ke)
    BY <1>1, <1>3, CoordTyped
<1> QED BY <1>4 DEF ka, kt, kb, kc, kx, ke, k1, k2

LEMMA CoordShut ==
    ASSUME NEW k \in Coords, NEW a \in BOOLEAN
    PROVE  IsCoord([k EXCEPT !.active = a, !.reloc = Nil, !.target = 0],
                   a, k.toc, k.backup, k.clip, k.ext, k.extend)
<1> DEFINE ka == k.active
           kt == k.toc
           kb == k.backup
           kc == k.clip
           kx == k.ext
           ke == k.extend
<1>0. k = ACoord(ka, kt, kb, kc, kx, ke)
    BY CoordIs
<1>1. /\ ka \in BOOLEAN /\ kt \in 0 .. MaxPos /\ kb \in BOOLEAN /\ kc \in BOOLEAN
      /\ kx \in 0 .. MaxPos /\ ke \in {Nil} \cup Extending
    BY CoordIs
<1> HIDE DEF ka, kt, kb, kc, kx, ke
<1> DEFINE k1 == [k EXCEPT !.active = a]
<1>2. k1 = ACoord(a, kt, kb, kc, kx, ke)
    BY <1>0 DEF ACoord
<1> HIDE DEF k1
<1> DEFINE k2 == [k1 EXCEPT !.reloc = Nil]
<1>3. k2 = ACoord(a, kt, kb, kc, kx, ke)
    BY <1>2 DEF ACoord
<1> HIDE DEF k2
<1> DEFINE k3 == [k2 EXCEPT !.target = 0]
<1>4. k3 = ACoord(a, kt, kb, kc, kx, ke)
    BY <1>3 DEF ACoord
<1> HIDE DEF k3
<1>5. IsCoord(k3, a, kt, kb, kc, kx, ke)
    BY <1>1, <1>4, CoordTyped
<1> QED BY <1>5 DEF ka, kt, kb, kc, kx, ke, k1, k2, k3

LEMMA CoordPrepared ==
    ASSUME NEW k \in Coords, NEW c \in BOOLEAN, NEW x \in 0 .. MaxPos
    PROVE  IsCoord([k EXCEPT !.reloc = Nil, !.target = 0, !.ext = x, !.clip = c],
                   k.active, k.toc, k.backup, c, x, k.extend)
<1> DEFINE ka == k.active
           kt == k.toc
           kb == k.backup
           kc == k.clip
           kx == k.ext
           ke == k.extend
<1>0. k = ACoord(ka, kt, kb, kc, kx, ke)
    BY CoordIs
<1>1. /\ ka \in BOOLEAN /\ kt \in 0 .. MaxPos /\ kb \in BOOLEAN /\ kc \in BOOLEAN
      /\ kx \in 0 .. MaxPos /\ ke \in {Nil} \cup Extending
    BY CoordIs
<1> HIDE DEF ka, kt, kb, kc, kx, ke
<1> DEFINE k1 == [k EXCEPT !.reloc = Nil]
<1>2. k1 = ACoord(ka, kt, kb, kc, kx, ke)
    BY <1>0 DEF ACoord
<1> HIDE DEF k1
<1> DEFINE k2 == [k1 EXCEPT !.target = 0]
<1>3. k2 = ACoord(ka, kt, kb, kc, kx, ke)
    BY <1>2 DEF ACoord
<1> HIDE DEF k2
<1> DEFINE k3 == [k2 EXCEPT !.ext = x]
<1>4. k3 = ACoord(ka, kt, kb, kc, x, ke)
    BY <1>3 DEF ACoord
<1> HIDE DEF k3
<1> DEFINE k4 == [k3 EXCEPT !.clip = c]
<1>5. k4 = ACoord(ka, kt, kb, c, x, ke)
    BY <1>4 DEF ACoord
<1> HIDE DEF k4
<1>6. IsCoord(k4, ka, kt, kb, c, x, ke)
    BY <1>1, <1>5, CoordTyped
<1> QED BY <1>6 DEF ka, kt, kb, kc, kx, ke, k1, k2, k3, k4

LEMMA CoordCommitted ==
    ASSUME NEW k \in Coords, NEW a \in BOOLEAN, NEW n \in 0 .. MaxPos, NEW b \in BOOLEAN, NEW c \in BOOLEAN, NEW x \in 0 .. MaxPos
    PROVE  IsCoord([k EXCEPT !.active = a, !.toc = n, !.ext = x, !.backup = b, !.clip = c],
                   a, n, b, c, x, k.extend)
<1> DEFINE ka == k.active
           kt == k.toc
           kb == k.backup
           kc == k.clip
           kx == k.ext
           ke == k.extend
<1>0. k = ACoord(ka, kt, kb, kc, kx, ke)
    BY CoordIs
<1>1. /\ ka \in BOOLEAN /\ kt \in 0 .. MaxPos /\ kb \in BOOLEAN /\ kc \in BOOLEAN
      /\ kx \in 0 .. MaxPos /\ ke \in {Nil} \cup Extending
    BY CoordIs
<1> HIDE DEF ka, kt, kb, kc, kx, ke
<1> DEFINE k1 == [k EXCEPT !.active = a]
<1>2. k1 = ACoord(a, kt, kb, kc, kx, ke)
    BY <1>0 DEF ACoord
<1> HIDE DEF k1
<1> DEFINE k2 == [k1 EXCEPT !.toc = n]
<1>3. k2 = ACoord(a, n, kb, kc, kx, ke)
    BY <1>2 DEF ACoord
<1> HIDE DEF k2
<1> DEFINE k3 == [k2 EXCEPT !.ext = x]
<1>4. k3 = ACoord(a, n, kb, kc, x, ke)
    BY <1>3 DEF ACoord
<1> HIDE DEF k3
<1> DEFINE k4 == [k3 EXCEPT !.backup = b]
<1>5. k4 = ACoord(a, n, b, kc, x, ke)
    BY <1>4 DEF ACoord
<1> HIDE DEF k4
<1> DEFINE k5 == [k4 EXCEPT !.clip = c]
<1>6. k5 = ACoord(a, n, b, c, x, ke)
    BY <1>5 DEF ACoord
<1> HIDE DEF k5
<1>7. IsCoord(k5, a, n, b, c, x, ke)
    BY <1>1, <1>6, CoordTyped
<1> QED BY <1>7 DEF ka, kt, kb, kc, kx, ke, k1, k2, k3, k4, k5

-----------------------------------------------------------------------------
(* The file in a step *)

\* Only the place of the TOC and iBackup matter for the file.
LEMMA SameFile ==
    ASSUME NEW d, NEW v, NEW q, NEW k, NEW l, l.toc = k.toc
    PROVE  /\ FileOK(d, v, q, k) => FileOK(d, v, q, l)
           /\ l.backup = k.backup /\ Quiet(d, v, q, k) => Quiet(d, v, q, l)
<1>1. FileOK(d, v, q, k) => FileOK(d, v, q, l)
    BY DEF FileOK
<1>2. ASSUME l.backup = k.backup, Quiet(d, v, q, k) PROVE Quiet(d, v, q, l)
    <2>1. \A h : HeaderKnown(h, k) => HeaderKnown(h, l)
        BY <1>2 DEF HeaderKnown
    <2>2. \A w : Harmless(w, k) => Harmless(w, l)
        BY <1>2 DEF Harmless
    <2> QED BY <1>2, <2>1, <2>2 DEF Quiet
<1> QED BY <1>1, <1>2

\* File g is f after harmless writes.
Kept(f, g, k) ==
    /\ g \in Files /\ g.atomic = f.atomic
    /\ HeaderKnown(g.hdr, k)
    /\ SameUpTo(f.body, g.body, k.toc)

LEMMA KeptMore ==
    ASSUME NEW f, NEW g, NEW w \in Writes, NEW k \in Coords, Kept(f, g, k), Harmless(w, k)
    PROVE  Kept(f, Apply(g, w), k)
<1> DEFINE h == Apply(g, w)
<1>1. g \in Files /\ HeaderKnown(g.hdr, k)
    BY DEF Kept
<1>2. h \in Files /\ h.atomic = g.atomic
    BY <1>1, ApplyKinds
<1>3. HeaderKnown(h.hdr, k) /\ SameUpTo(h.body, g.body, k.toc)
    BY <1>1, HarmlessApply
<1> HIDE DEF h
<1>4. SameUpTo(f.body, h.body, k.toc)
    BY <1>3 DEF SameUpTo, Kept
<1> QED BY <1>2, <1>3, <1>4 DEF Kept, h

LEMMA KeptReplay ==
    ASSUME NEW f \in Files, NEW k \in Coords, HeaderKnown(f.hdr, k),
           NEW ws \in Seq(Writes), Len(ws) <= 3, \A i \in 1 .. Len(ws) : Harmless(ws[i], k)
    PROVE  Kept(f, Replay(f, ws), k)
<1>0. Kept(f, f, k)
    BY DEF Kept, SameUpTo
<1>1. Len(ws) \in 0 .. 3 /\ (Len(ws) = 0 \/ Len(ws) = 1 \/ Len(ws) = 2 \/ Len(ws) = 3)
    <2> DEFINE n == Len(ws)
    <2>1. n \in Nat /\ n <= 3
        OBVIOUS
    <2> HIDE DEF n
    <2>2. n \in 0 .. 3 /\ (n = 0 \/ n = 1 \/ n = 2 \/ n = 3)
        BY <2>1
    <2> QED BY <2>2 DEF n
<1>2. /\ Len(ws) >= 1 => ws[1] \in Writes /\ Harmless(ws[1], k)
      /\ Len(ws) >= 2 => ws[2] \in Writes /\ Harmless(ws[2], k)
      /\ Len(ws) >= 3 => ws[3] \in Writes /\ Harmless(ws[3], k)
    OBVIOUS
<1> DEFINE f1 == Apply(f, ws[1])
           f2 == Apply(f1, ws[2])
           f3 == Apply(f2, ws[3])
<1>3. /\ Len(ws) = 0 => Replay(f, ws) = f
      /\ Len(ws) = 1 => Replay(f, ws) = f1
      /\ Len(ws) = 2 => Replay(f, ws) = f2
      /\ Len(ws) = 3 => Replay(f, ws) = f3
    BY <1>1, ReplayFew
<1>4. Len(ws) >= 1 => Kept(f, f1, k)
    BY <1>0, <1>2, KeptMore
<1> HIDE DEF f1
<1>5. Len(ws) >= 2 => Kept(f, f2, k)
    BY <1>2, <1>4, KeptMore
<1> HIDE DEF f2
<1>6. Len(ws) >= 3 => Kept(f, f3, k)
    BY <1>2, <1>5, KeptMore
<1> HIDE DEF f3
<1> QED BY <1>0, <1>1, <1>3, <1>4, <1>5, <1>6

\* The last commit point stays in file c as it is in b.
LEMMA CommitKept ==
    ASSUME NEW b \in [Pos -> Blocks], NEW c \in [Pos -> Blocks], NEW toc \in 0 .. MaxPos,
           Good(Load(b, toc, 0), b, toc, {}), SameUpTo(b, c, toc)
    PROVE  /\ Load(c, toc, 0) = Load(b, toc, 0)
           /\ Good(Load(c, toc, 0), c, toc, {})
           /\ CommitSnap(c, toc) = CommitSnap(b, toc)
<1> DEFINE t == Load(b, toc, 0)
<1>1. Load(c, toc, 0) = t
    BY SameLoad
<1> HIDE DEF t
<1>2. Based(t, b, toc) /\ Placed(Image(t, b), b, toc) /\ Good(t, b, toc, {})
    BY DEF Good, t
<1>3. Good(t, c, toc, {}) /\ Image(t, c) = Image(t, b)
    BY <1>2, SameGood
<1>4. StreamsOf(Image(t, b), c) = StreamsOf(Image(t, b), b)
    BY <1>2, SameStreams
<1>5. Snap(t, c, t.primary) = Snap(t, b, t.primary)
    BY <1>3, <1>4 DEF Snap
<1> QED BY <1>1, <1>3, <1>5 DEF CommitSnap, t

\* Harmless writes to a file that has none queued.
LEMMA QuietWrite ==
    ASSUME NEW d, NEW v \in Files, NEW k \in Coords, FileOK(d, v, <<>>, k), Quiet(d, v, <<>>, k),
           NEW ws \in Seq(Writes), Len(ws) <= 3, \A i \in 1 .. Len(ws) : Harmless(ws[i], k)
    PROVE  /\ d = v /\ Kept(v, Replay(v, ws), k)
           /\ FileOK(d, Replay(v, ws), ws, k) /\ Quiet(d, Replay(v, ws), ws, k)
<1> DEFINE w == Replay(v, ws)
<1>1. d = v
    BY ReplayFew DEF FileOK
<1>2. HeaderKnown(v.hdr, k)
    BY DEF Quiet
<1>3. Kept(v, w, k)
    BY <1>2, KeptReplay
<1> HIDE DEF w
<1>4. v.body \in [Pos -> Blocks] /\ w.body \in [Pos -> Blocks] /\ k.toc \in 0 .. MaxPos /\ Len(ws) \in Nat
    BY <1>3 DEF Kept, Files, Coords
<1>5. /\ Good(Load(w.body, k.toc, 0), w.body, k.toc, {})
      /\ Load(w.body, k.toc, 0).off = k.toc
    BY <1>3, <1>4, CommitKept DEF Kept, FileOK
<1>6. w = Replay(d, ws)
    BY <1>1 DEF w
<1>7. FileOK(d, w, ws, k)
    BY <1>1, <1>3, <1>4, <1>5, <1>6 DEF FileOK, Kept
<1>8. Quiet(d, w, ws, k)
    BY <1>1, <1>2, <1>3 DEF Quiet, Kept
<1> QED BY <1>1, <1>3, <1>7, <1>8 DEF w

\* The first of the queued writes is done.
LEMMA QuietFlush ==
    ASSUME NEW d \in Files, NEW v \in Files, NEW k \in Coords, NEW q \in Seq(Writes), q # <<>>,
           FileOK(d, v, q, k), Quiet(d, v, q, k)
    PROVE  /\ Apply(d, Head(q)) \in Files /\ Tail(q) \in Seq(Writes)
           /\ FileOK(Apply(d, Head(q)), v, Tail(q), k) /\ Quiet(Apply(d, Head(q)), v, Tail(q), k)
<1> DEFINE w == Head(q)
           g == Apply(d, w)
<1>0. Len(q) \in 1 .. 3
    <2> DEFINE n == Len(q)
    <2>1. n \in Nat /\ n # 0 /\ n <= 3
        BY DEF FileOK
    <2> HIDE DEF n
    <2>2. n \in 1 .. 3
        BY <2>1
    <2> QED BY <2>2 DEF n
<1>1. /\ Replay(g, Tail(q)) = Replay(d, q)
      /\ Tail(q) \in Seq(Writes) /\ Len(Tail(q)) = Len(q) - 1
    BY <1>0, ReplayHead
<1>2. w = q[1] /\ w \in Writes /\ 1 \in 1 .. Len(q)
    BY <1>0
<1>3. Harmless(w, k) /\ HeaderKnown(d.hdr, k)
    BY <1>2 DEF Quiet
<1>4. Kept(d, g, k)
    <2>1. Kept(d, d, k)
        BY <1>3 DEF Kept, SameUpTo
    <2> HIDE DEF w
    <2> QED BY <1>2, <1>3, <2>1, KeptMore
<1>5. \A i \in 1 .. Len(Tail(q)) : Harmless(Tail(q)[i], k)
    <2>1. \A i \in 1 .. Len(q) - 1 : Tail(q)[i] = q[i + 1] /\ i + 1 \in 1 .. Len(q)
        BY <1>0
    <2> QED BY <1>1, <2>1 DEF Quiet
<1> HIDE DEF g, w
<1>6. FileOK(g, v, Tail(q), k)
    <2>1. SameUpTo(g.body, v.body, k.toc)
        BY <1>4 DEF FileOK, Kept, SameUpTo
    <2>2. Len(Tail(q)) <= 3
        BY <1>0, <1>1
    <2> QED BY <1>1, <1>4, <2>1, <2>2 DEF FileOK, Kept
<1>7. Quiet(g, v, Tail(q), k)
    BY <1>4, <1>5 DEF Quiet, Kept
<1> QED BY <1>1, <1>4, <1>6, <1>7 DEF Kept, g, w

\* File d2 is what is left of d and v, with the last commit point as it was.
Survives(d2, v, k) ==
    /\ d2 \in Files /\ FileOK(d2, d2, <<>>, k) /\ HeaderSays(d2.hdr, k.toc)
    /\ Load(d2.body, k.toc, 0) = Load(v.body, k.toc, 0)
    /\ CommitSnap(d2.body, k.toc) = CommitSnap(v.body, k.toc)

LEMMA SurvivesIf ==
    ASSUME NEW d \in Files, NEW v \in Files, NEW k \in Coords, NEW q,
           FileOK(d, v, q, k), NEW d2 \in Files, HeaderSays(d2.hdr, k.toc),
           SameUpTo(d2.body, d.body, k.toc)
    PROVE  Survives(d2, v, k)
<1>1. SameUpTo(v.body, d2.body, k.toc) /\ Good(Load(v.body, k.toc, 0), v.body, k.toc, {})
    BY DEF FileOK, SameUpTo
<1>2. v.body \in [Pos -> Blocks] /\ d2.body \in [Pos -> Blocks] /\ k.toc \in 0 .. MaxPos
    BY DEF Files, Coords
<1>3. /\ Load(d2.body, k.toc, 0) = Load(v.body, k.toc, 0)
      /\ Good(Load(d2.body, k.toc, 0), d2.body, k.toc, {})
      /\ CommitSnap(d2.body, k.toc) = CommitSnap(v.body, k.toc)
    BY <1>1, <1>2, CommitKept
<1>4. Replay(d2, <<>>) = d2 /\ Len(<<>>) <= 3
    BY ReplayFew
<1>5. Load(d2.body, k.toc, 0).off = k.toc
    BY <1>3 DEF FileOK
<1>6. FileOK(d2, d2, <<>>, k)
    BY <1>3, <1>4, <1>5 DEF FileOK, SameUpTo
<1> QED BY <1>3, <1>6 DEF Survives

\* The queued writes are lost between commits, the first one perhaps torn.
LEMMA QuietLose ==
    ASSUME NEW d \in Files, NEW v \in Files, NEW k \in Coords, NEW q \in Seq(Writes),
           FileOK(d, v, q, k), Quiet(d, v, q, k),
           NEW d2 \in {d} \cup (IF q = <<>> THEN {} ELSE CutShort(d, Head(q)))
    PROVE  Survives(d2, v, k)
<1>1. CASE d2 = d
    <2>1. HeaderSays(d.hdr, k.toc) /\ SameUpTo(d.body, d.body, k.toc)
        BY DEF Quiet, HeaderKnown, SameUpTo
    <2> QED BY <1>1, <2>1, SurvivesIf
<1>2. CASE q # <<>> /\ d2 \in CutShort(d, Head(q))
    <2> DEFINE w == Head(q)
    <2>1. w = q[1] /\ w \in Writes /\ 1 \in 1 .. Len(q)
        BY <1>2
    <2>2. Harmless(w, k) /\ HeaderKnown(d.hdr, k)
        BY <2>1 DEF Quiet
    <2> HIDE DEF w
    <2>3. d2 \in CutShort(d, w)
        BY <1>2 DEF w
    <2>4. d2 \in Files /\ HeaderSays(d2.hdr, k.toc) /\ SameUpTo(d2.body, d.body, k.toc)
        BY <2>1, <2>2, <2>3, HarmlessCutShort
    <2> QED BY <2>4, SurvivesIf
<1> QED BY <1>1, <1>2

-----------------------------------------------------------------------------
(* The writes of a commit *)

LEMMA HeadersOfCommit ==
    ASSUME NEW k \in Coords, k.ext < MaxPos
    PROVE  /\ NewHeader(k) \in Headers /\ DirtyHeader(k) \in Headers
           /\ HeaderSays(NewHeader(k), k.ext + 1) /\ HeaderSays(DirtyHeader(k), k.toc)
           /\ DirtyHeader(k).backup = k.toc
           /\ [DirtyHeader(k) EXCEPT !.dirty = FALSE] = NewHeader(k)
           /\ [NewHeader(k) EXCEPT !.dirty = TRUE] = DirtyHeader(k)
<1>0. k.ext + 1 \in 0 .. MaxPos /\ k.toc \in 0 .. MaxPos
    BY BoundsAssumption DEF Coords
<1>1. ASSUME NEW v \in BOOLEAN
      PROVE  Header(k.ext + 1, Nil, k.ext + 1, k.toc, v) \in Headers
    BY <1>0 DEF Header, Headers
<1>2. NewHeader(k) \in Headers /\ DirtyHeader(k) \in Headers
    BY <1>1 DEF NewHeader, DirtyHeader
<1>3. HeaderSays(NewHeader(k), k.ext + 1) /\ HeaderSays(DirtyHeader(k), k.toc) /\ DirtyHeader(k).backup = k.toc
    BY DEF NewHeader, DirtyHeader, Header, HeaderSays
<1>4. ASSUME NEW v, NEW w
      PROVE  [Header(k.ext + 1, Nil, k.ext + 1, k.toc, v) EXCEPT !.dirty = w]
                = Header(k.ext + 1, Nil, k.ext + 1, k.toc, w)
    BY DEF Header
<1>5. /\ [DirtyHeader(k) EXCEPT !.dirty = FALSE] = NewHeader(k)
      /\ [NewHeader(k) EXCEPT !.dirty = TRUE] = DirtyHeader(k)
    BY <1>4 DEF NewHeader, DirtyHeader
<1> QED BY <1>2, <1>3, <1>5

\* The three writes of BeginL.
ToBackup(k) == [kind |-> "backup", toc |-> k.toc]
ToNew(k) == [kind |-> "header", hdr |-> NewHeader(k)]
ToDirty(k) == [kind |-> "header", hdr |-> DirtyHeader(k)]
ToClean == [kind |-> "clean"]

\* Of file d only the header changes, to h.
OnlyHeader(d, g, h) == g \in Files /\ g.body = d.body /\ g.atomic = d.atomic /\ g.hdr = h

LEMMA HeaderApply ==
    ASSUME NEW d \in Files
    PROVE  /\ \A w \in Backups : OnlyHeader(d, Apply(d, w), [d.hdr EXCEPT !.backup = w.toc])
           /\ \A w \in HeaderSets : OnlyHeader(d, Apply(d, w), w.hdr)
           /\ \A w \in Cleans : OnlyHeader(d, Apply(d, w), [d.hdr EXCEPT !.dirty = FALSE])
<1>1. ASSUME NEW w \in Backups PROVE OnlyHeader(d, Apply(d, w), [d.hdr EXCEPT !.backup = w.toc])
    <2>1. w \in Writes
        BY DEF Writes
    <2>2. Apply(d, w) \in Files /\ Apply(d, w).atomic = d.atomic
        BY <2>1, ApplyKinds
    <2>3. Apply(d, w).body = d.body /\ Apply(d, w).hdr = [d.hdr EXCEPT !.backup = w.toc]
        BY <2>1, ApplyKinds, Zenon
    <2> QED BY <2>2, <2>3, Zenon DEF OnlyHeader
<1>2. ASSUME NEW w \in HeaderSets PROVE OnlyHeader(d, Apply(d, w), w.hdr)
    <2>1. w \in Writes
        BY DEF Writes
    <2> QED BY <2>1, ApplyKinds DEF OnlyHeader
<1>3. ASSUME NEW w \in Cleans PROVE OnlyHeader(d, Apply(d, w), [d.hdr EXCEPT !.dirty = FALSE])
    <2>1. w \in Writes
        BY DEF Writes
    <2>2. Apply(d, w) \in Files /\ Apply(d, w).atomic = d.atomic
        BY <2>1, ApplyKinds
    <2>3. Apply(d, w).body = d.body /\ Apply(d, w).hdr = [d.hdr EXCEPT !.dirty = FALSE]
        BY <2>1, ApplyKinds, Zenon
    <2> QED BY <2>2, <2>3, Zenon DEF OnlyHeader
<1> QED BY <1>1, <1>2, <1>3, Zenon

LEMMA CommitWrites ==
    ASSUME NEW k \in Coords, k.ext < MaxPos, NEW d \in Files
    PROVE  /\ ToBackup(k) \in Writes /\ ToNew(k) \in Writes /\ ToDirty(k) \in Writes /\ ToClean \in Writes
           /\ OnlyHeader(d, Apply(d, ToBackup(k)), [d.hdr EXCEPT !.backup = k.toc])
           /\ OnlyHeader(d, Apply(d, ToNew(k)), NewHeader(k))
           /\ OnlyHeader(d, Apply(d, ToDirty(k)), DirtyHeader(k))
           /\ OnlyHeader(d, Apply(d, ToClean), [d.hdr EXCEPT !.dirty = FALSE])
<1>1. k.toc \in 0 .. MaxPos /\ NewHeader(k) \in Headers /\ DirtyHeader(k) \in Headers
    BY HeadersOfCommit DEF Coords
<1>2. ToBackup(k) \in Backups
    BY <1>1 DEF ToBackup, Backups
<1>3. ToNew(k) \in HeaderSets
    BY <1>1 DEF ToNew, HeaderSets
<1>4. ToDirty(k) \in HeaderSets
    BY <1>1 DEF ToDirty, HeaderSets
<1>5. ToClean \in Cleans
    BY DEF ToClean, Cleans
<1>6. ToBackup(k) \in Writes /\ ToNew(k) \in Writes /\ ToDirty(k) \in Writes /\ ToClean \in Writes
    BY <1>2, <1>3, <1>4, <1>5 DEF Writes
<1>7. ToBackup(k).toc = k.toc /\ ToNew(k).hdr = NewHeader(k) /\ ToDirty(k).hdr = DirtyHeader(k)
    BY DEF ToBackup, ToNew, ToDirty
<1>8. OnlyHeader(d, Apply(d, ToBackup(k)), [d.hdr EXCEPT !.backup = ToBackup(k).toc])
    BY <1>2, HeaderApply, Zenon
<1>9. OnlyHeader(d, Apply(d, ToNew(k)), ToNew(k).hdr)
    BY <1>3, HeaderApply, Zenon
<1>10. OnlyHeader(d, Apply(d, ToDirty(k)), ToDirty(k).hdr)
    BY <1>4, HeaderApply, Zenon
<1>11. OnlyHeader(d, Apply(d, ToClean), [d.hdr EXCEPT !.dirty = FALSE])
    BY <1>5, HeaderApply, Zenon
<1> QED BY <1>6, <1>7, <1>8, <1>9, <1>10, <1>11, Zenon

\* What is left of them to be done.
LEMMA SwitchingIs ==
    ASSUME NEW d, NEW q, NEW k
    PROVE  Switching(d, q, k) <=>
             \/ q = <<>> /\ d.hdr = NewHeader(k)
             \/ d.atomic /\ HeaderSays(d.hdr, k.toc) /\ q = <<ToNew(k)>>
             \/ ~d.atomic /\ d.hdr = DirtyHeader(k) /\ q = <<ToClean>>
             \/ ~d.atomic /\ HeaderSays(d.hdr, k.toc) /\ d.hdr.backup = k.toc /\ q = <<ToDirty(k), ToClean>>
             \/ /\ ~d.atomic /\ HeaderSays(d.hdr, k.toc) /\ ~d.hdr.dirty
                /\ q = <<ToBackup(k), ToDirty(k), ToClean>>
BY DEF Switching, ToBackup, ToNew, ToDirty, ToClean

\* The next of them is done.
LEMMA SwitchFlush ==
    ASSUME NEW d \in Files, NEW k \in Coords, k.ext < MaxPos, NEW q, Switching(d, q, k), q # <<>>
    PROVE  /\ Apply(d, Head(q)) \in Files /\ Apply(d, Head(q)).body = d.body
           /\ Apply(d, Head(q)).atomic = d.atomic
           /\ Switching(Apply(d, Head(q)), Tail(q), k)
<1> DEFINE g == Apply(d, Head(q))
<1>0. d.hdr \in Headers
    BY DEF Files
<1>1. CASE d.atomic /\ HeaderSays(d.hdr, k.toc) /\ q = <<ToNew(k)>>
    <2>1. Head(q) = ToNew(k) /\ Tail(q) = <<>>
        BY <1>1
    <2>2. g \in Files /\ g.body = d.body /\ g.atomic = d.atomic /\ g.hdr = NewHeader(k)
        <3>1. OnlyHeader(d, g, NewHeader(k))
            BY <2>1, CommitWrites, Zenon
        <3> QED BY <3>1, Zenon DEF OnlyHeader
    <2> HIDE DEF g
    <2>3. Switching(g, Tail(q), k)
        BY <2>1, <2>2, SwitchingIs
    <2> QED BY <2>2, <2>3 DEF g
<1>2. CASE ~d.atomic /\ d.hdr = DirtyHeader(k) /\ q = <<ToClean>>
    <2>1. Head(q) = ToClean /\ Tail(q) = <<>>
        BY <1>2
    <2>2. /\ g \in Files /\ g.body = d.body /\ g.atomic = d.atomic
          /\ g.hdr = [d.hdr EXCEPT !.dirty = FALSE]
        <3>1. OnlyHeader(d, g, [d.hdr EXCEPT !.dirty = FALSE])
            BY <2>1, CommitWrites, Zenon
        <3> QED BY <3>1, Zenon DEF OnlyHeader
    <2>3. g.hdr = NewHeader(k)
        BY <1>2, <2>2, HeadersOfCommit
    <2> HIDE DEF g
    <2>4. Switching(g, Tail(q), k)
        BY <2>1, <2>3, SwitchingIs
    <2> QED BY <2>2, <2>4 DEF g
<1>3. CASE ~d.atomic /\ HeaderSays(d.hdr, k.toc) /\ d.hdr.backup = k.toc /\ q = <<ToDirty(k), ToClean>>
    <2>1. Head(q) = ToDirty(k) /\ Tail(q) = <<ToClean>>
        BY <1>3
    <2>2. g \in Files /\ g.body = d.body /\ g.atomic = d.atomic /\ g.hdr = DirtyHeader(k)
        <3>1. OnlyHeader(d, g, DirtyHeader(k))
            BY <2>1, CommitWrites, Zenon
        <3> QED BY <3>1, Zenon DEF OnlyHeader
    <2> HIDE DEF g
    <2>3. Switching(g, Tail(q), k)
        BY <1>3, <2>1, <2>2, SwitchingIs
    <2> QED BY <2>2, <2>3 DEF g
<1>4. CASE /\ ~d.atomic /\ HeaderSays(d.hdr, k.toc) /\ ~d.hdr.dirty
           /\ q = <<ToBackup(k), ToDirty(k), ToClean>>
    <2>1. Head(q) = ToBackup(k) /\ Tail(q) = <<ToDirty(k), ToClean>>
        BY <1>4
    <2>2. /\ g \in Files /\ g.body = d.body /\ g.atomic = d.atomic
          /\ g.hdr = [d.hdr EXCEPT !.backup = k.toc]
        <3>1. OnlyHeader(d, g, [d.hdr EXCEPT !.backup = k.toc])
            BY <2>1, CommitWrites, Zenon
        <3> QED BY <3>1, Zenon DEF OnlyHeader
    <2>3. HeaderSays(g.hdr, k.toc) /\ g.hdr.backup = k.toc
        BY <1>0, <1>4, <2>2 DEF HeaderSays, Headers
    <2> HIDE DEF g
    <2>4. Switching(g, Tail(q), k)
        BY <1>4, <2>1, <2>2, <2>3, SwitchingIs
    <2> QED BY <2>2, <2>4 DEF g
<1> QED BY <1>1, <1>2, <1>3, <1>4, SwitchingIs

\* They are lost: the file still has the commit point from before.
LEMMA SwitchLose ==
    ASSUME NEW d \in Files, NEW k \in Coords, k.ext < MaxPos, NEW q, Switching(d, q, k), q # <<>>,
           NEW d2 \in {d} \cup CutShort(d, Head(q))
    PROVE  d2 \in Files /\ d2.body = d.body /\ HeaderSays(d2.hdr, k.toc)
<1>0. d.hdr \in Headers /\ d.atomic \in BOOLEAN
    BY DEF Files
<1>1. HeaderSays(d.hdr, k.toc)
    BY SwitchingIs, HeadersOfCommit
<1>2. CASE d2 = d
    BY <1>1, <1>2
<1>3. CASE d2 \in CutShort(d, ToNew(k)) /\ d.atomic
    BY <1>3 DEF CutShort, ToNew
<1>4. CASE d2 \in CutShort(d, ToClean)
    BY <1>4 DEF CutShort, ToClean
<1>5. CASE d2 \in CutShort(d, ToDirty(k)) /\ ~d.atomic /\ d.hdr.backup = k.toc
    <2> DEFINE yes == TRUE
               h1 == [d.hdr EXCEPT !.dirty = yes]
               h2 == [h1 EXCEPT !.rel = Torn]
               h3 == [h2 EXCEPT !.ref = Torn]
               h == [h3 EXCEPT !.crc = Torn]
    <2>0. yes = TRUE
        OBVIOUS
    <2>1. h = [d.hdr EXCEPT !.dirty = yes, !.rel = Torn, !.ref = Torn, !.crc = Torn]
        OBVIOUS
    <2>2. d2 = [d EXCEPT !.hdr = h]
        BY <1>5, <2>1 DEF CutShort, ToDirty
    <2> HIDE DEF yes
    <2>3. h1 \in Headers /\ h1.dirty = yes /\ h1.backup = d.hdr.backup
        BY <1>0, <2>0 DEF Headers
    <2> HIDE DEF h1
    <2>4. h2 \in Headers /\ h2.dirty = yes /\ h2.backup = d.hdr.backup
        BY <2>3 DEF Headers
    <2> HIDE DEF h2
    <2>5. h3 \in Headers /\ h3.dirty = yes /\ h3.backup = d.hdr.backup
        BY <2>4 DEF Headers
    <2> HIDE DEF h3
    <2>6. h \in Headers /\ h.dirty = yes /\ h.backup = d.hdr.backup
        BY <2>5 DEF Headers
    <2> HIDE DEF h
    <2>7. d2 \in Files /\ d2.body = d.body /\ d2.hdr = h
        BY <2>2, <2>6 DEF Files
    <2> QED BY <1>5, <2>0, <2>6, <2>7 DEF HeaderSays
<1>6. CASE d2 \in CutShort(d, ToBackup(k)) /\ HeaderSays(d.hdr, k.toc) /\ ~d.hdr.dirty
    <2> DEFINE h == [d.hdr EXCEPT !.backup = Torn]
    <2>1. d2 = [d EXCEPT !.hdr = h]
        BY <1>6 DEF CutShort, ToBackup
    <2>2. h \in Headers /\ h.dirty = d.hdr.dirty /\ h.rel = d.hdr.rel /\ h.ref = d.hdr.ref /\ h.crc = d.hdr.crc
        BY <1>0 DEF Headers
    <2> HIDE DEF h
    <2>3. d2 \in Files /\ d2.body = d.body /\ d2.hdr = h
        BY <2>1, <2>2 DEF Files
    <2> QED BY <1>6, <2>2, <2>3 DEF HeaderSays
<1>7. \/ d.atomic /\ Head(q) = ToNew(k)
      \/ Head(q) = ToClean
      \/ ~d.atomic /\ d.hdr.backup = k.toc /\ Head(q) = ToDirty(k)
      \/ HeaderSays(d.hdr, k.toc) /\ ~d.hdr.dirty /\ Head(q) = ToBackup(k)
    BY SwitchingIs
<1> QED BY <1>2, <1>3, <1>4, <1>5, <1>6, <1>7

-----------------------------------------------------------------------------
(* What a change of one entry does to the streams *)

\* What a reference leads to.
ValueOf(ref, body) ==
    IF ref = Empty THEN Empty
    ELSE IF ref \in Pos /\ body[ref].kind = "data" THEN body[ref].val ELSE Torn

LEMMA StreamDomain ==
    ASSUME NEW n \in 0 .. MaxIndex, NEW e \in [1 .. n -> Entries], NEW body
    PROVE  /\ DOMAIN StreamsOf(e, body) \subseteq Handles
           /\ \A h \in Handles : h \in DOMAIN StreamsOf(e, body) <=> IsLive(e, h)
           /\ \A h \in DOMAIN StreamsOf(e, body) : StreamsOf(e, body)[h] = ValueOf(e[h[1]].ref, body)
           /\ StreamsOf(e, body) = [h \in DOMAIN StreamsOf(e, body) |-> StreamsOf(e, body)[h]]
<1> DEFINE D == {<<i, e[i].gen>> : i \in {j \in DOMAIN e : ~e[j].inv}}
<1>1. DOMAIN StreamsOf(e, body) = D
    BY DEF StreamsOf
<1>2. D \subseteq Handles
    BY BoundsAssumption DEF Entries, Handles
<1>3. ASSUME NEW h \in Handles PROVE h \in D <=> IsLive(e, h)
    <2>1. h = <<h[1], h[2]>>
        BY DEF Handles
    <2>2. IsLive(e, h) => h \in D
        BY <2>1 DEF IsLive
    <2>3. ASSUME h \in D PROVE IsLive(e, h)
        <3>1. PICK i \in {j \in DOMAIN e : ~e[j].inv} : h = <<i, e[i].gen>>
            BY <2>3
        <3>2. h[1] = i /\ h[2] = e[i].gen
            BY <3>1
        <3> QED BY <3>2 DEF IsLive
    <2> QED BY <2>2, <2>3
<1>4. \A h \in D : StreamsOf(e, body)[h] = ValueOf(e[h[1]].ref, body)
    <2> HIDE DEF D
    <2> QED BY DEF StreamsOf, ValueOf, D
<1>5. StreamsOf(e, body) = [h \in D |-> StreamsOf(e, body)[h]]
    BY DEF StreamsOf
<1> HIDE DEF D
<1> QED BY <1>1, <1>2, <1>3, <1>4, <1>5

\* Streams of a table in order are streams of a store.
LEMMA SnapWellFormed ==
    ASSUME NEW t, NEW b \in [Pos -> Blocks], NEW hi \in 0 .. MaxPos, NEW made, Good(t, b, hi, made),
           NEW rt \in Handles \cup {Nil}
    PROVE  Streams!WellFormed(Snap(t, b, rt))
<1> DEFINE e == Image(t, b)
           f == StreamsOf(e, b)
<1>1. e \in [1 .. t.count -> Entries] /\ t.count \in 0 .. MaxIndex /\ Placed(e, b, hi)
    BY ImageIs DEF Good, Based, Tables
<1> HIDE DEF e
<1>2. DOMAIN f \subseteq Handles /\ \A h \in Handles : h \in DOMAIN f <=> IsLive(e, h)
    BY <1>1, StreamDomain
<1>3. ASSUME NEW h \in DOMAIN f PROVE f[h] \in Datum
    <2>1. h \in Handles /\ IsLive(e, h)
        BY <1>2
    <2>2. f[h] = Empty \/ f[h] \in Data
        BY <1>1, <2>1, StreamsAre
    <2> QED BY <2>2 DEF Datum
<1>4. Snap(t, b, rt).root = rt /\ Snap(t, b, rt).streams = f
    BY DEF Snap, e
<1> HIDE DEF f
<1> QED BY <1>2, <1>3, <1>4 DEF Streams!WellFormed

\* Entry h[1] of e becomes x, or is added; no other stream than h can differ.
MayDiffer(e, c, n, h, x) ==
    /\ c \in 0 .. MaxIndex /\ n \in 0 .. MaxIndex /\ e \in [1 .. c -> Entries] /\ x \in Entries
    /\ h \in Handles /\ h[1] \in 1 .. n
    /\ n = c \/ (n = c + 1 /\ h[1] = n)
    /\ h[1] \in 1 .. c /\ ~e[h[1]].inv => e[h[1]].gen = h[2]
    /\ ~x.inv => x.gen = h[2]

LEMMA UpdateIs ==
    ASSUME NEW e, NEW c, NEW n, NEW h, NEW x, MayDiffer(e, c, n, h, x)
    PROVE  /\ Update(e, n, h[1], x) \in [1 .. n -> Entries]
           /\ Update(e, n, h[1], x)[h[1]] = x
           /\ \A i \in 1 .. c : i # h[1] => i \in 1 .. n /\ Update(e, n, h[1], x)[i] = e[i]
           /\ \A i \in 1 .. n : i # h[1] => i \in 1 .. c
<1>1. c \in Int /\ n \in Int /\ (n = c \/ (n = c + 1 /\ h[1] = n)) /\ h[1] \in 1 .. n
    BY DEF MayDiffer
<1>2. \A i \in 1 .. c : i # h[1] => i \in 1 .. n
    BY <1>1
<1>3. \A i \in 1 .. n : i # h[1] => i \in 1 .. c
    BY <1>1
<1>4. e \in [1 .. c -> Entries] /\ x \in Entries
    BY DEF MayDiffer
<1>5. \A i \in 1 .. n : (IF i = h[1] THEN x ELSE e[i]) \in Entries
    BY <1>3, <1>4
<1> QED BY <1>1, <1>2, <1>3, <1>5 DEF Update

LEMMA OneStream ==
    ASSUME NEW e, NEW c, NEW n, NEW h, NEW x, NEW body, MayDiffer(e, c, n, h, x)
    PROVE  LET s == StreamsOf(e, body)
               t == StreamsOf(Update(e, n, h[1], x), body) IN
           /\ DOMAIN t \ {h} = DOMAIN s \ {h}
           /\ \A k \in DOMAIN s \ {h} : t[k] = s[k]
<1> DEFINE u == Update(e, n, h[1], x)
           s == StreamsOf(e, body)
           t == StreamsOf(u, body)
<1>1. c \in 0 .. MaxIndex /\ n \in 0 .. MaxIndex /\ e \in [1 .. c -> Entries] /\ h \in Handles
    BY DEF MayDiffer
<1>2. /\ u \in [1 .. n -> Entries] /\ u[h[1]] = x
      /\ \A i \in 1 .. c : i # h[1] => i \in 1 .. n /\ u[i] = e[i]
      /\ \A i \in 1 .. n : i # h[1] => i \in 1 .. c
    BY UpdateIs
<1> HIDE DEF u
<1>3. /\ DOMAIN s \subseteq Handles /\ \A g \in Handles : g \in DOMAIN s <=> IsLive(e, g)
      /\ \A g \in DOMAIN s : s[g] = ValueOf(e[g[1]].ref, body)
    BY <1>1, StreamDomain
<1>4. /\ DOMAIN t \subseteq Handles /\ \A g \in Handles : g \in DOMAIN t <=> IsLive(u, g)
      /\ \A g \in DOMAIN t : t[g] = ValueOf(u[g[1]].ref, body)
    BY <1>1, <1>2, StreamDomain
<1> HIDE DEF s, t
<1>5. ASSUME NEW g \in Handles, g # h
      PROVE  /\ IsLive(e, g) <=> IsLive(u, g)
             /\ IsLive(e, g) => u[g[1]] = e[g[1]]
    <2>1. CASE g[1] = h[1]
        <3>1. g[2] # h[2]
            BY <1>1, <1>5, <2>1 DEF Handles
        <3>2. ~IsLive(e, g)
            BY <1>1, <2>1, <3>1 DEF IsLive, MayDiffer
        <3>3. ~IsLive(u, g)
            BY <1>2, <2>1, <3>1 DEF IsLive, MayDiffer
        <3> QED BY <3>2, <3>3
    <2>2. CASE g[1] # h[1]
        BY <1>1, <1>2, <2>2 DEF IsLive
    <2> QED BY <2>1, <2>2
<1>6. DOMAIN t \ {h} = DOMAIN s \ {h}
    BY <1>3, <1>4, <1>5
<1>7. ASSUME NEW g \in DOMAIN s \ {h} PROVE t[g] = s[g]
    <2>1. g \in Handles /\ g # h /\ IsLive(e, g) /\ g \in DOMAIN t
        BY <1>3, <1>6
    <2>2. u[g[1]] = e[g[1]]
        BY <1>5, <2>1
    <2> QED BY <1>3, <1>4, <2>1, <2>2
<1> QED BY <1>6, <1>7 DEF s, t, u

\* None does if h is not there before or after.
LEMMA NoStream ==
    ASSUME NEW e, NEW c, NEW n, NEW h, NEW x, NEW body, MayDiffer(e, c, n, h, x),
           h[1] \in 1 .. c => e[h[1]].inv, x.inv
    PROVE  StreamsOf(Update(e, n, h[1], x), body) = StreamsOf(e, body)
<1> DEFINE u == Update(e, n, h[1], x)
           s == StreamsOf(e, body)
           t == StreamsOf(u, body)
<1>1. c \in 0 .. MaxIndex /\ n \in 0 .. MaxIndex /\ e \in [1 .. c -> Entries] /\ h \in Handles
    BY DEF MayDiffer
<1>2. u \in [1 .. n -> Entries] /\ u[h[1]] = x
    BY UpdateIs
<1>3. DOMAIN t \ {h} = DOMAIN s \ {h} /\ \A k \in DOMAIN s \ {h} : t[k] = s[k]
    BY OneStream
<1> HIDE DEF u
<1>4. h \notin DOMAIN s /\ s = [g \in DOMAIN s |-> s[g]]
    <2>1. ~IsLive(e, h)
        BY <1>1 DEF IsLive
    <2> QED BY <1>1, <2>1, StreamDomain
<1>5. h \notin DOMAIN t /\ t = [g \in DOMAIN t |-> t[g]]
    <2>1. ~IsLive(u, h)
        BY <1>2 DEF IsLive
    <2> QED BY <1>1, <1>2, <2>1, StreamDomain
<1> HIDE DEF s, t
<1>6. DOMAIN s = DOMAIN t /\ \A k \in DOMAIN s : t[k] = s[k]
    BY <1>3, <1>4, <1>5
<1>7. t = s
    BY <1>4, <1>5, <1>6
<1> QED BY <1>7 DEF s, t, u

-----------------------------------------------------------------------------
(* The operations on a table that is in use *)

IsCache(c) == c = [h \in DOMAIN c |-> c[h]] /\ DOMAIN c \subseteq Handles

Using(t, b, k, c, rd, rt) ==
    /\ b \in [Pos -> Blocks] /\ k \in Coords /\ IsCache(c)
    /\ rd \in Opened \cup {Nil} /\ rt \in Handles \cup {Nil}
    /\ InUse(t, b, k, c, rd, rt)

\* What follows for the table.
LEMMA UsingIs ==
    ASSUME NEW t, NEW b, NEW k, NEW c, NEW rd, NEW rt, Using(t, b, k, c, rd, rt)
    PROVE  /\ b \in [Pos -> Blocks] /\ k \in Coords /\ k.ext \in 0 .. MaxPos /\ k.toc \in 0 .. MaxPos
           /\ t \in Tables /\ t # Nil /\ t.count \in 0 .. MaxIndex
           /\ Good(t, b, k.ext, MadeOf(k)) /\ Based(t, b, k.ext)
           /\ Image(t, b) \in [1 .. t.count -> Entries] /\ Placed(Image(t, b), b, k.ext)
           /\ Cached(Image(t, b), c) /\ Extended(Image(t, b), b, k)
           /\ MadeOf(k) \subseteq 1 .. t.count
           /\ rd # Nil => rd.pos \in 1 .. k.ext
<1>1. /\ b \in [Pos -> Blocks] /\ k \in Coords /\ k.ext \in 0 .. MaxPos /\ k.toc \in 0 .. MaxPos
    BY DEF Using, Coords
<1>2. /\ Good(t, b, k.ext, MadeOf(k)) /\ Based(t, b, k.ext) /\ Placed(Image(t, b), b, k.ext)
      /\ Cached(Image(t, b), c) /\ Extended(Image(t, b), b, k)
    BY DEF Using, InUse, Good
<1>3. t \in Tables /\ t # Nil /\ t.count \in 0 .. MaxIndex
    BY <1>2, NilAssumption DEF Based, Tables
<1>4. Image(t, b) \in [1 .. t.count -> Entries]
    BY <1>1, <1>2, ImageIs
<1>5. MadeOf(k) \subseteq 1 .. t.count
    BY <1>2, <1>4 DEF MadeOf, Extended
<1>6. rd # Nil => rd.pos \in 1 .. k.ext
    BY <1>1, BoundsAssumption DEF Using, InUse, Opened, Pos
<1> QED BY <1>1, <1>2, <1>3, <1>4, <1>5, <1>6

\* The coordinator changes in what the table does not depend on.
LEMMA UsingCoord ==
    ASSUME NEW t, NEW b, NEW k, NEW c, NEW rd, NEW rt, Using(t, b, k, c, rd, rt),
           NEW l \in Coords, l.toc = k.toc, l.ext = k.ext, l.extend = k.extend
    PROVE  Using(t, b, l, c, rd, rt)
<1>1. MadeOf(l) = MadeOf(k)
    BY DEF MadeOf
<1>2. Extended(Image(t, b), b, k) => Extended(Image(t, b), b, l)
    BY DEF Extended
<1> QED BY <1>1, <1>2 DEF Using, InUse

\* The file changes behind the last stream or TOC.
LEMMA UsingBehind ==
    ASSUME NEW t, NEW b, NEW k, NEW c, NEW rd, NEW rt, Using(t, b, k, c, rd, rt),
           NEW d \in [Pos -> Blocks], SameUpTo(b, d, k.ext), k.extend = Nil \/ k.extend.pos = Empty
    PROVE  Using(t, d, k, c, rd, rt) /\ Snap(t, d, rt) = Snap(t, b, rt)
<1> DEFINE e == Image(t, b)
<1>0. /\ b \in [Pos -> Blocks] /\ k.ext \in 0 .. MaxPos /\ k.toc \in 0 .. MaxPos
      /\ Good(t, b, k.ext, MadeOf(k)) /\ Based(t, b, k.ext)
      /\ Placed(e, b, k.ext) /\ Cached(e, c) /\ Extended(e, b, k)
      /\ (rd # Nil => rd.pos \in 1 .. k.ext)
    BY UsingIs
<1>1. Good(t, d, k.ext, MadeOf(k)) /\ Image(t, d) = e
    BY <1>0, SameGood
<1> HIDE DEF e
<1>2. StreamsOf(e, d) = StreamsOf(e, b)
    BY <1>0, SameStreams
<1>3. Snap(t, d, rt) = Snap(t, b, rt)
    BY <1>1, <1>2 DEF Snap, e
<1>4. k.toc <= k.ext
    BY DEF Using, InUse
<1>5. Load(d, k.toc, 0) = Load(b, k.toc, 0)
    <2>1. SameUpTo(b, d, k.toc)
        BY <1>0, <1>4, BoundsAssumption DEF SameUpTo
    <2> QED BY <1>0, <2>1, SameLoad
<1>6. Extended(e, d, k)
    BY <1>0 DEF Extended
<1>7. rd # Nil => rd.pos <= k.ext /\ d[rd.pos] = DataBlock(rd.val)
    BY <1>0 DEF Using, InUse, SameUpTo
<1>8. InUse(t, d, k, c, rd, rt)
    BY <1>0, <1>1, <1>5, <1>6, <1>7 DEF InUse, Using
<1> QED BY <1>3, <1>8 DEF Using

\* The slot of the stream being written is known.
LEMMA UsingPos ==
    ASSUME NEW t, NEW b, NEW k, NEW c, NEW rd, NEW rt, Using(t, b, k, c, rd, rt),
           k.extend # Nil, k.ext < MaxPos, b[k.ext + 1].kind = "data",
           NEW l \in Coords, l.toc = k.toc, l.ext = k.ext,
           l.extend # Nil, l.extend.h = k.extend.h, l.extend.new = k.extend.new, l.extend.pos = k.ext + 1
    PROVE  Using(t, b, l, c, rd, rt)
<1>1. MadeOf(l) = MadeOf(k)
    BY DEF MadeOf
<1>2. Extended(Image(t, b), b, k) => Extended(Image(t, b), b, l)
    BY DEF Extended
<1> QED BY <1>1, <1>2 DEF Using, InUse

\* A change of entry h[1] leaves other streams, the cache and the stream being
\* written alone.
LEMMA UpdateLive ==
    ASSUME NEW e, NEW c, NEW n, NEW h, NEW x, MayDiffer(e, c, n, h, x)
    PROVE  \A g \in Handles : g[1] # h[1] /\ IsLive(e, g) =>
               IsLive(Update(e, n, h[1], x), g) /\ Update(e, n, h[1], x)[g[1]] = e[g[1]]
<1>1. /\ Update(e, n, h[1], x) \in [1 .. n -> Entries]
      /\ \A i \in 1 .. c : i # h[1] => i \in 1 .. n /\ Update(e, n, h[1], x)[i] = e[i]
    BY UpdateIs
<1>2. e \in [1 .. c -> Entries]
    BY DEF MayDiffer
<1> QED BY <1>1, <1>2 DEF IsLive

\* CreateLC: an entry is allocated that is not valid yet.
Created(t, b) == Alloc(t, b, TRUE)

LEMMA UsingCreate ==
    ASSUME NEW t, NEW b, NEW k, NEW c, NEW rd, NEW rt, Using(t, b, k, c, rd, rt),
           k.extend = Nil, CanAlloc(t),
           NEW l \in Coords, l.toc = k.toc, l.ext = k.ext,
           l.extend # Nil, l.extend.h = NewHandle(t), l.extend.new, l.extend.pos = Empty
    PROVE  /\ Using(Created(t, b), b, l, c, rd, rt) /\ Snap(Created(t, b), b, rt) = Snap(t, b, rt)
           /\ NewHandle(t) \in Handles /\ Created(t, b) \in Tables
<1> DEFINE e == Image(t, b)
           h == NewHandle(t)
           u == Created(t, b)
           x == [gen |-> h[2], inv |-> TRUE, ref |-> Empty]
           next == {h[1]}
<1>0. /\ b \in [Pos -> Blocks] /\ k.ext \in 0 .. MaxPos /\ Good(t, b, k.ext, MadeOf(k))
      /\ t.count \in 0 .. MaxIndex /\ e \in [1 .. t.count -> Entries] /\ Cached(e, c)
    BY UsingIs
<1>1. MadeOf(k) = {}
    BY DEF MadeOf
<1>2. IsAllocated(u, t, b, k.ext, h, TRUE, next)
    <2>1. MadeOf(k) \subseteq next /\ next \subseteq MadeOf(k) \cup {h[1]} /\ h[1] \in next /\ TRUE \in BOOLEAN
        BY <1>1
    <2>2. u = Alloc(t, b, TRUE)
        BY DEF Created
    <2> HIDE DEF next, u
    <2> QED BY <1>0, <2>1, <2>2, AllocGood
<1> HIDE DEF u, h
<1>3. /\ Good(u, b, k.ext, next) /\ h \in Handles /\ h[1] \in 1 .. u.count
      /\ u.count = t.count \/ (u.count = t.count + 1 /\ h[1] = u.count)
      /\ h[1] \in 1 .. t.count => e[h[1]].inv
      /\ Image(u, b) = Update(e, u.count, h[1], x)
      /\ u.virtual = TRUE /\ u.off = t.off /\ u.primary = t.primary
    BY <1>2 DEF IsAllocated
<1>4. u \in Tables /\ u.count \in 0 .. MaxIndex
    BY <1>3 DEF Good, Based, Tables
<1>5. x \in Entries /\ x.inv /\ x.gen = h[2]
    BY <1>3 DEF Entries, Handles
<1> HIDE DEF x, e
<1>6. MayDiffer(e, t.count, u.count, h, x)
    BY <1>0, <1>3, <1>4, <1>5 DEF MayDiffer
<1>7. StreamsOf(Image(u, b), b) = StreamsOf(e, b)
    BY <1>3, <1>5, <1>6, NoStream
<1>8. Snap(u, b, rt) = Snap(t, b, rt)
    BY <1>7 DEF Snap, e
<1>9. Cached(Image(u, b), c)
    <2> SUFFICES ASSUME NEW g \in DOMAIN c
                 PROVE  IsLive(Image(u, b), g) /\ c[g] = Image(u, b)[g[1]].ref
        BY DEF Cached
    <2>1. g \in Handles /\ IsLive(e, g) /\ c[g] = e[g[1]].ref
        BY <1>0 DEF Cached, Using, IsCache
    <2>2. g[1] # h[1]
        BY <1>0, <1>3, <2>1 DEF IsLive
    <2>3. IsLive(Update(e, u.count, h[1], x), g) /\ Update(e, u.count, h[1], x)[g[1]] = e[g[1]]
        BY <1>6, <2>1, <2>2, UpdateLive
    <2> QED BY <1>3, <2>1, <2>3
<1>10. l.extend # Nil /\ l.extend.new = TRUE /\ l.extend.h = h /\ l.extend.pos = Empty
    BY DEF h
<1>11. MadeOf(l) = next
    BY <1>10 DEF MadeOf
<1>12. Extended(Image(u, b), b, l)
    <2>1. h[1] \in DOMAIN Image(u, b) /\ Image(u, b)[h[1]] = x
        <3>1. /\ Update(e, u.count, h[1], x) \in [1 .. u.count -> Entries]
              /\ Update(e, u.count, h[1], x)[h[1]] = x
            BY <1>6, UpdateIs
        <3> QED BY <1>3, <3>1
    <2> QED BY <1>5, <1>10, <2>1 DEF Extended
<1>13. InUse(u, b, l, c, rd, rt)
    BY <1>3, <1>9, <1>11, <1>12 DEF InUse, Using
<1>14. Using(u, b, l, c, rd, rt)
    BY <1>13 DEF Using
<1> QED BY <1>3, <1>4, <1>8, <1>14 DEF u, h

\* A place is remembered, or forgotten.
CachePut(f, c, h, p) ==
    /\ IsCache(f) /\ DOMAIN f = DOMAIN c \cup {h} /\ f[h] = p
    /\ \A g \in DOMAIN c : g # h => f[g] = c[g]
CacheDrop(f, c, h) ==
    /\ IsCache(f) /\ DOMAIN f = DOMAIN c \ {h}
    /\ \A g \in DOMAIN c \ {h} : f[g] = c[g]

LEMMA PutCache ==
    ASSUME NEW c, IsCache(c), NEW h \in Handles, NEW p
    PROVE  CachePut(Put(c, h, p), c, h, p) /\ CacheDrop(Drop(c, h), c, h)
<1> DEFINE f == Put(c, h, p)
           d == Drop(c, h)
<1>1. f = [y \in DOMAIN c \cup {h} |-> IF y = h THEN p ELSE c[y]]
    BY DEF Put
<1>2. d = [y \in DOMAIN c \ {h} |-> c[y]]
    BY DEF Drop
<1> HIDE DEF f, d
<1>3. /\ DOMAIN f = DOMAIN c \cup {h} /\ f[h] = p /\ \A g \in DOMAIN c : g # h => f[g] = c[g]
      /\ f = [y \in DOMAIN f |-> f[y]]
    BY <1>1
<1>4. /\ DOMAIN d = DOMAIN c \ {h} /\ \A g \in DOMAIN c \ {h} : d[g] = c[g]
      /\ d = [y \in DOMAIN d |-> d[y]]
    BY <1>2
<1> QED BY <1>3, <1>4 DEF IsCache, CachePut, CacheDrop, f, d

\* ReplaceLC: the entry of a stream is fetched, and its place remembered.
LEMMA UsingReplace ==
    ASSUME NEW t, NEW b, NEW k, NEW c, NEW rd, NEW rt, Using(t, b, k, c, rd, rt),
           k.extend = Nil, NEW h \in Handles, IsLive(Image(t, b), h),
           NEW l \in Coords, l.toc = k.toc, l.ext = k.ext,
           l.extend # Nil, l.extend.h = h, ~l.extend.new, l.extend.pos = Empty,
           NEW d, d = IF h \in DOMAIN c THEN c ELSE Put(c, h, EntryAt(t, b, h[1]).ref)
    PROVE  LET u == Fetch(t, h[1], EntryAt(t, b, h[1])) IN
           /\ Using(u, b, l, d, rd, rt) /\ Snap(u, b, rt) = Snap(t, b, rt)
           /\ u \in Tables
<1> DEFINE e == Image(t, b)
           u == Fetch(t, h[1], EntryAt(t, b, h[1]))
<1>0. /\ b \in [Pos -> Blocks] /\ k.ext \in 0 .. MaxPos /\ Good(t, b, k.ext, MadeOf(k))
      /\ e \in [1 .. t.count -> Entries] /\ Cached(e, c)
    BY UsingIs
<1>1. MadeOf(k) = {} /\ MadeOf(l) = {}
    BY DEF MadeOf
<1>2. h[1] \in 1 .. t.count
    BY <1>0 DEF IsLive
<1>3. /\ Good(u, b, k.ext, MadeOf(k)) /\ Image(u, b) = e
      /\ u.virtual = t.virtual /\ u.off = t.off /\ u.primary = t.primary
    BY <1>0, <1>2, FetchGood
<1>4. EntryAt(t, b, h[1]) = e[h[1]]
    BY <1>2 DEF Image
<1> HIDE DEF u, e
<1>5. IsCache(d) /\ Cached(e, d)
    <2>1. CASE h \in DOMAIN c
        BY <1>0, <2>1 DEF Using
    <2>2. CASE h \notin DOMAIN c
        <3>1. IsCache(c)
            BY DEF Using
        <3>2. /\ IsCache(d) /\ DOMAIN d = DOMAIN c \cup {h} /\ d[h] = e[h[1]].ref
              /\ \A g \in DOMAIN c : g # h => d[g] = c[g]
            <4> DEFINE p == e[h[1]].ref
            <4>1. d = Put(c, h, p)
                BY <1>4, <2>2
            <4> HIDE DEF p
            <4>2. CachePut(d, c, h, p)
                BY <3>1, <4>1, PutCache
            <4> QED BY <4>2, Zenon DEF p, CachePut
        <3> QED BY <1>0, <2>2, <3>2 DEF Cached, e
    <2> QED BY <2>1, <2>2
<1>6. Extended(e, b, l)
    BY DEF Extended, e
<1>7. InUse(u, b, l, d, rd, rt)
    BY <1>1, <1>3, <1>5, <1>6 DEF InUse, Using
<1>8. Using(u, b, l, d, rd, rt)
    BY <1>5, <1>7 DEF Using
<1>9. u \in Tables /\ Snap(u, b, rt) = Snap(t, b, rt)
    BY <1>3 DEF Good, Based, Snap, e
<1> QED BY <1>8, <1>9 DEF u

\* Streams s become t by one change.
OneDiffers(s, t) ==
    \E h \in Handles : /\ DOMAIN t \ {h} = DOMAIN s \ {h}
                       /\ \A k \in DOMAIN s \ {h} : t[k] = s[k]

\* A table in order for one root is a change away from one with another root,
\* or from one with one stream changed.
LEMMA OneChangeIf ==
    ASSUME NEW t, NEW b \in [Pos -> Blocks], NEW hi \in 0 .. MaxPos, NEW made, Good(t, b, hi, made),
           NEW rt \in Handles \cup {Nil}, NEW s, NEW c, NEW rs,
           \/ StreamsOf(Image(t, b), b) = StreamsOf(Image(s, c), c)
           \/ rt = rs /\ OneDiffers(StreamsOf(Image(s, c), c), StreamsOf(Image(t, b), b))
    PROVE  Streams!OneChange(Snap(s, c, rs), Snap(t, b, rt))
<1>1. Streams!WellFormed(Snap(t, b, rt))
    BY SnapWellFormed
<1>2. /\ Snap(t, b, rt).root = rt /\ Snap(t, b, rt).streams = StreamsOf(Image(t, b), b)
      /\ Snap(s, c, rs).root = rs /\ Snap(s, c, rs).streams = StreamsOf(Image(s, c), c)
    BY DEF Snap
<1> QED BY <1>1, <1>2, Zenon DEF Streams!OneChange, OneDiffers

\* CommitL on a stream: its entry gets valid and leads to what was written.
LEMMA UsingCommit ==
    ASSUME NEW t, NEW b, NEW k, NEW c, NEW rd, NEW rt, Using(t, b, k, c, rd, rt), k.extend # Nil,
           NEW l \in Coords, l.toc = k.toc, l.extend = Nil,
           l.ext = IF k.extend.pos = Empty THEN k.ext ELSE k.extend.pos,
           NEW d, d = IF k.extend.pos = Empty THEN Drop(c, k.extend.h) ELSE Put(c, k.extend.h, k.extend.pos)
    PROVE  LET u == Set(t, k.extend.h, k.extend.pos) IN
           /\ Using(u, b, l, d, rd, rt) /\ Streams!OneChange(Snap(t, b, rt), Snap(u, b, rt))
           /\ u \in Tables /\ u.virtual
<1> DEFINE e == Image(t, b)
           h == k.extend.h
           p == k.extend.pos
           u == Set(t, h, p)
           x == Filled(h, p)
<1>0. /\ b \in [Pos -> Blocks] /\ k \in Coords /\ k.ext \in 0 .. MaxPos /\ Good(t, b, k.ext, MadeOf(k))
      /\ t.count \in 0 .. MaxIndex /\ e \in [1 .. t.count -> Entries] /\ Cached(e, c) /\ Extended(e, b, k)
    BY UsingIs
<1>1. h \in Handles /\ p \in Pos \cup {Empty} /\ k.extend.new \in BOOLEAN
    BY <1>0 DEF Coords, Extending
<1>2. /\ h[1] \in 1 .. t.count /\ e[h[1]].gen = h[2]
      /\ (~e[h[1]].inv \/ h[1] \in MadeOf(k)) /\ MadeOf(k) \ {h[1]} = {}
    BY <1>0 DEF Extended, MadeOf, IsLive
<1>3. p # Empty => p = k.ext + 1 /\ b[p].kind = "data"
    BY <1>0 DEF Extended
<1>4. l.ext \in 0 .. MaxPos /\ k.ext <= l.ext /\ (p # Empty => p = l.ext)
    BY <1>0, <1>1, <1>3, BoundsAssumption DEF Pos, Coords
<1>5. Good(t, b, l.ext, MadeOf(k))
    BY <1>0, <1>4, MoreGood
<1>6. p = Empty \/ (p \in 1 .. l.ext /\ b[p].kind = "data")
    BY <1>1, <1>3, <1>4 DEF Pos
<1>7. /\ Good(u, b, l.ext, MadeOf(k) \ {h[1]})
      /\ Image(u, b) = Update(e, t.count, h[1], x)
      /\ u.virtual = TRUE /\ u.off = t.off /\ u.primary = t.primary
    <2> DEFINE hi == l.ext
               made == MadeOf(k)
    <2>1. h[1] \in 1 .. t.count /\ (~Image(t, b)[h[1]].inv \/ h[1] \in made)
        BY <1>2
    <2>2. p = Empty \/ (p \in 1 .. hi /\ b[p].kind = "data")
        BY <1>6
    <2>3. hi \in 0 .. MaxPos /\ Good(t, b, hi, made)
        BY <1>4, <1>5
    <2> HIDE DEF p, h, hi, made
    <2>4. IsEntered(u, t, b, hi, h, x, made \ {h[1]})
        BY <1>0, <1>1, <2>1, <2>2, <2>3, SetGood
    <2> QED BY <2>4 DEF IsEntered, hi, made
<1>8. MadeOf(l) = {} /\ MadeOf(k) \ {h[1]} = {}
    BY DEF MadeOf
<1>9. u \in Tables /\ u.virtual
    BY <1>7 DEF Good, Based
<1>10. x \in Entries /\ ~x.inv /\ x.gen = h[2] /\ x.ref = p
    <2> HIDE DEF p, h
    <2> QED BY <1>1 DEF Filled, Entries, Handles
<1> HIDE DEF x, e, u, p, h
<1>11. MayDiffer(e, t.count, t.count, h, x)
    BY <1>0, <1>1, <1>2, <1>10 DEF MayDiffer
<1>12. /\ Update(e, t.count, h[1], x) \in [1 .. t.count -> Entries]
       /\ Update(e, t.count, h[1], x)[h[1]] = x
    BY <1>11, UpdateIs
<1>13. OneDiffers(StreamsOf(e, b), StreamsOf(Image(u, b), b))
    BY <1>1, <1>7, <1>11, OneStream DEF OneDiffers
<1>14. Streams!OneChange(Snap(t, b, rt), Snap(u, b, rt))
    <2>1. rt \in Handles \cup {Nil}
        BY DEF Using
    <2> QED BY <1>0, <1>4, <1>7, <1>13, <2>1, OneChangeIf DEF e
<1>15. IsCache(d) /\ \A g \in DOMAIN d : g # h => g \in DOMAIN c /\ d[g] = c[g]
    <2>1. IsCache(c)
        BY DEF Using
    <2>2. d = IF p = Empty THEN Drop(c, h) ELSE Put(c, h, p)
        BY DEF p, h
    <2>3. CachePut(Put(c, h, p), c, h, p) /\ CacheDrop(Drop(c, h), c, h)
        BY <1>1, <2>1, PutCache
    <2> QED BY <2>2, <2>3 DEF CachePut, CacheDrop
<1>16. h \in DOMAIN d => d[h] = p
    <2>1. IsCache(c)
        BY DEF Using
    <2>2. d = IF p = Empty THEN Drop(c, h) ELSE Put(c, h, p)
        BY DEF p, h
    <2>3. CachePut(Put(c, h, p), c, h, p) /\ CacheDrop(Drop(c, h), c, h)
        BY <1>1, <2>1, PutCache
    <2> QED BY <2>2, <2>3 DEF CachePut, CacheDrop
<1>17. Cached(Image(u, b), d)
    <2> SUFFICES ASSUME NEW g \in DOMAIN d
                 PROVE  IsLive(Image(u, b), g) /\ d[g] = Image(u, b)[g[1]].ref
        BY DEF Cached
    <2>1. CASE g = h
        BY <1>7, <1>10, <1>12, <1>16, <2>1, <1>2 DEF IsLive
    <2>2. CASE g # h
        <3>1. g \in DOMAIN c /\ d[g] = c[g] /\ g \in Handles
            BY <1>15, <2>2 DEF IsCache
        <3>2. IsLive(e, g) /\ c[g] = e[g[1]].ref
            BY <1>0, <3>1 DEF Cached
        <3>3. g[1] # h[1]
            BY <1>1, <1>2, <2>2, <3>1, <3>2 DEF IsLive, Handles
        <3>4. IsLive(Update(e, t.count, h[1], x), g) /\ Update(e, t.count, h[1], x)[g[1]] = e[g[1]]
            BY <1>11, <3>1, <3>2, <3>3, UpdateLive
        <3> QED BY <1>7, <3>1, <3>2, <3>4
    <2> QED BY <2>1, <2>2
<1>18. InUse(u, b, l, d, rd, rt)
    <2>1. k.toc <= l.ext
        BY <1>0, <1>4, BoundsAssumption DEF Using, InUse, Coords
    <2>2. rd # Nil => rd.pos <= l.ext /\ b[rd.pos] = DataBlock(rd.val)
        <3>1. rd # Nil => rd.pos \in 1 .. k.ext
            BY UsingIs
        <3> QED BY <1>0, <1>4, <3>1 DEF Using, InUse
    <2>3. Extended(Image(u, b), b, l)
        BY DEF Extended
    <2> QED BY <1>7, <1>8, <1>17, <2>1, <2>2, <2>3 DEF InUse, Using
<1>19. Using(u, b, l, d, rd, rt)
    BY <1>0, <1>15, <1>18 DEF Using
<1> QED BY <1>9, <1>14, <1>19 DEF u, h, p

\* A stream being created is given up: its entry goes back on the list.
LEMMA UsingCancel ==
    ASSUME NEW t, NEW b, NEW k, NEW c, NEW rd, NEW rt, Using(t, b, k, c, rd, rt), k.extend # Nil, k.extend.new,
           NEW l \in Coords, l.toc = k.toc, l.extend = Nil, l.ext = k.ext
    PROVE  LET u == FreeEntry(t, k.extend.h) IN
           /\ Using(u, b, l, c, rd, rt) /\ Snap(u, b, rt) = Snap(t, b, rt)
           /\ u \in Tables
<1> DEFINE e == Image(t, b)
           h == k.extend.h
           u == FreeEntry(t, h)
           x == Freed(h, t.avail)
           hi == k.ext
           made == MadeOf(k)
<1>0. /\ b \in [Pos -> Blocks] /\ k \in Coords /\ k.ext \in 0 .. MaxPos /\ Good(t, b, k.ext, MadeOf(k))
      /\ t \in Tables /\ t.count \in 0 .. MaxIndex /\ e \in [1 .. t.count -> Entries]
      /\ Cached(e, c) /\ Extended(e, b, k)
    BY UsingIs
<1>1. h \in Handles
    BY <1>0 DEF Coords, Extending
<1>2. h[1] \in 1 .. t.count /\ e[h[1]].inv /\ h[1] \in made /\ made \ {h[1]} = {} /\ MadeOf(l) = {}
    BY <1>0 DEF Extended, MadeOf
<1>3. IsEntered(u, t, b, hi, h, x, made \ {h[1]})
    <2>1. hi \in 0 .. MaxPos /\ Good(t, b, hi, made)
        BY <1>0
    <2> HIDE DEF h, hi, made
    <2> QED BY <1>0, <1>1, <1>2, <2>1, FreeGood
<1>4. x \in Entries /\ x.inv /\ x.gen = h[2]
    <2>1. t.avail \in Handles \cup {Nil}
        BY <1>0 DEF Tables
    <2> HIDE DEF h
    <2> QED BY <1>1, <2>1 DEF Freed, Entries, Handles
<1> HIDE DEF x, e, u, h
<1>5. MayDiffer(e, t.count, t.count, h, x)
    BY <1>0, <1>1, <1>2, <1>4 DEF MayDiffer
<1>6. /\ Image(u, b) = Update(e, t.count, h[1], x) /\ Good(u, b, k.ext, {})
      /\ u.virtual = TRUE /\ u.off = t.off /\ u.primary = t.primary
    BY <1>2, <1>3 DEF IsEntered, e
<1>7. StreamsOf(Image(u, b), b) = StreamsOf(e, b)
    BY <1>2, <1>4, <1>5, <1>6, NoStream
<1>8. Cached(Image(u, b), c)
    <2> SUFFICES ASSUME NEW g \in DOMAIN c
                 PROVE  IsLive(Image(u, b), g) /\ c[g] = Image(u, b)[g[1]].ref
        BY DEF Cached
    <2>1. g \in Handles /\ IsLive(e, g) /\ c[g] = e[g[1]].ref
        BY <1>0 DEF Cached, Using, IsCache
    <2>2. g[1] # h[1]
        BY <1>2, <2>1 DEF IsLive
    <2>3. IsLive(Update(e, t.count, h[1], x), g) /\ Update(e, t.count, h[1], x)[g[1]] = e[g[1]]
        BY <1>5, <2>1, <2>2, UpdateLive
    <2> QED BY <1>6, <2>1, <2>3
<1>9. Extended(Image(u, b), b, l)
    BY DEF Extended
<1>10. InUse(u, b, l, c, rd, rt)
    BY <1>2, <1>6, <1>8, <1>9 DEF InUse, Using
<1>11. Using(u, b, l, c, rd, rt)
    BY <1>10 DEF Using
<1>12. u \in Tables /\ Snap(u, b, rt) = Snap(t, b, rt)
    BY <1>6, <1>7 DEF Good, Based, Snap, e
<1> QED BY <1>11, <1>12 DEF u, h

\* A stream being replaced is given up.
LEMMA UsingGiveUp ==
    ASSUME NEW t, NEW b, NEW k, NEW c, NEW rd, NEW rt, Using(t, b, k, c, rd, rt), k.extend # Nil, ~k.extend.new,
           NEW l \in Coords, l.toc = k.toc, l.extend = Nil, l.ext = k.ext
    PROVE  Using(t, b, l, c, rd, rt)
<1>1. MadeOf(l) = {} /\ MadeOf(k) = {}
    BY DEF MadeOf
<1>2. Extended(Image(t, b), b, l)
    BY DEF Extended
<1> QED BY <1>1, <1>2 DEF Using, InUse

\* A change of entry h[1] leaves the stream being written alone.
LEMMA ExtendedKept ==
    ASSUME NEW e, NEW c, NEW n, NEW h, NEW x, MayDiffer(e, c, n, h, x), NEW b, NEW k \in Coords,
           Extended(e, b, k), k.extend # Nil => k.extend.h[1] # h[1]
    PROVE  Extended(Update(e, n, h[1], x), b, k)
<1>1. /\ Update(e, n, h[1], x) \in [1 .. n -> Entries]
      /\ \A i \in 1 .. c : i # h[1] => i \in 1 .. n /\ Update(e, n, h[1], x)[i] = e[i]
    BY UpdateIs
<1>2. e \in [1 .. c -> Entries]
    BY DEF MayDiffer
<1> QED BY <1>1, <1>2 DEF Extended, IsLive

\* ExtendL: an entry is allocated for a stream with no data.
LEMMA UsingExtend ==
    ASSUME NEW t, NEW b, NEW k, NEW c, NEW rd, NEW rt, Using(t, b, k, c, rd, rt), CanAlloc(t)
    PROVE  LET u == Alloc(t, b, FALSE) IN
           /\ Using(u, b, k, c, rd, rt) /\ Streams!OneChange(Snap(t, b, rt), Snap(u, b, rt))
           /\ u \in Tables /\ u.virtual
<1> DEFINE e == Image(t, b)
           h == NewHandle(t)
           u == Alloc(t, b, FALSE)
           x == [gen |-> h[2], inv |-> FALSE, ref |-> Empty]
           made == MadeOf(k)
<1>0. /\ b \in [Pos -> Blocks] /\ k \in Coords /\ k.ext \in 0 .. MaxPos /\ Good(t, b, k.ext, made)
      /\ t.count \in 0 .. MaxIndex /\ e \in [1 .. t.count -> Entries] /\ Cached(e, c) /\ Extended(e, b, k)
      /\ made \subseteq 1 .. t.count
    BY UsingIs
<1>1. IsAllocated(u, t, b, k.ext, h, FALSE, made) /\ h[1] \notin made
    <2>1. made \subseteq made /\ made \subseteq made \cup {h[1]} /\ FALSE \in BOOLEAN
        OBVIOUS
    <2> HIDE DEF made
    <2> QED BY <1>0, <2>1, AllocGood
<1> HIDE DEF u, h
<1>2. /\ Good(u, b, k.ext, made) /\ h \in Handles /\ h[1] \in 1 .. u.count
      /\ u.count = t.count \/ (u.count = t.count + 1 /\ h[1] = u.count)
      /\ h[1] \in 1 .. t.count => e[h[1]].inv
      /\ Image(u, b) = Update(e, u.count, h[1], x)
      /\ u.virtual = TRUE /\ u.off = t.off /\ u.primary = t.primary
    BY <1>1 DEF IsAllocated
<1>3. u \in Tables /\ u.count \in 0 .. MaxIndex
    BY <1>2 DEF Good, Based, Tables
<1>4. x \in Entries /\ ~x.inv /\ x.gen = h[2]
    BY <1>2 DEF Entries, Handles
<1> HIDE DEF x, e
<1>5. MayDiffer(e, t.count, u.count, h, x)
    BY <1>0, <1>2, <1>3, <1>4 DEF MayDiffer
<1>6. OneDiffers(StreamsOf(e, b), StreamsOf(Image(u, b), b))
    BY <1>2, <1>5, OneStream DEF OneDiffers
<1>7. Streams!OneChange(Snap(t, b, rt), Snap(u, b, rt))
    <2>1. rt \in Handles \cup {Nil}
        BY DEF Using
    <2> QED BY <1>0, <1>2, <1>6, <2>1, OneChangeIf DEF e
<1>8. Cached(Image(u, b), c)
    <2> SUFFICES ASSUME NEW g \in DOMAIN c
                 PROVE  IsLive(Image(u, b), g) /\ c[g] = Image(u, b)[g[1]].ref
        BY DEF Cached
    <2>1. g \in Handles /\ IsLive(e, g) /\ c[g] = e[g[1]].ref
        BY <1>0 DEF Cached, Using, IsCache
    <2>2. g[1] # h[1]
        BY <1>0, <1>2, <2>1 DEF IsLive
    <2>3. IsLive(Update(e, u.count, h[1], x), g) /\ Update(e, u.count, h[1], x)[g[1]] = e[g[1]]
        BY <1>5, <2>1, <2>2, UpdateLive
    <2> QED BY <1>2, <2>1, <2>3
<1>9. k.extend # Nil => k.extend.h[1] # h[1]
    <2>1. CASE k.extend # Nil /\ k.extend.new
        BY <1>1, <2>1 DEF MadeOf, made
    <2>2. CASE k.extend # Nil /\ ~k.extend.new
        BY <1>0, <1>2, <2>2 DEF Extended, IsLive
    <2> QED BY <2>1, <2>2
<1>10. Extended(Image(u, b), b, k)
    BY <1>0, <1>2, <1>5, <1>9, ExtendedKept
<1>11. InUse(u, b, k, c, rd, rt)
    BY <1>2, <1>8, <1>10 DEF InUse, Using, made
<1>12. Using(u, b, k, c, rd, rt)
    BY <1>11 DEF Using
<1> QED BY <1>2, <1>3, <1>7, <1>12 DEF u

\* DeleteL: the entry of a stream goes on the list, its place is forgotten.
LEMMA UsingDelete ==
    ASSUME NEW t, NEW b, NEW k, NEW c, NEW rd, NEW rt, Using(t, b, k, c, rd, rt),
           NEW h \in Handles, IsLive(Image(t, b), h), k.extend # Nil => k.extend.h # h
    PROVE  LET u == FreeEntry(t, h) IN
           /\ Using(u, b, k, Drop(c, h), rd, rt) /\ Streams!OneChange(Snap(t, b, rt), Snap(u, b, rt))
           /\ u \in Tables /\ u.virtual
<1> DEFINE e == Image(t, b)
           u == FreeEntry(t, h)
           x == Freed(h, t.avail)
           hi == k.ext
           made == MadeOf(k)
           d == Drop(c, h)
<1>0. /\ b \in [Pos -> Blocks] /\ k \in Coords /\ k.ext \in 0 .. MaxPos /\ Good(t, b, k.ext, MadeOf(k))
      /\ t \in Tables /\ t.count \in 0 .. MaxIndex /\ e \in [1 .. t.count -> Entries]
      /\ Cached(e, c) /\ Extended(e, b, k)
    BY UsingIs
<1>1. h[1] \in 1 .. t.count /\ ~e[h[1]].inv /\ e[h[1]].gen = h[2]
    BY <1>0 DEF IsLive
<1>2. k.extend # Nil => k.extend.h[1] # h[1]
    <2>1. CASE k.extend # Nil /\ k.extend.new
        BY <1>0, <1>1, <2>1 DEF Extended
    <2>2. CASE k.extend # Nil /\ ~k.extend.new
        <3>1. IsLive(e, k.extend.h) /\ k.extend.h \in Handles /\ k.extend.h # h
            BY <1>0, <2>2 DEF Extended, Coords, Extending
        <3> QED BY <1>1, <3>1 DEF IsLive, Handles
    <2> QED BY <2>1, <2>2
<1>3. made \ {h[1]} = made
    BY <1>2 DEF MadeOf
<1>4. IsEntered(u, t, b, hi, h, x, made \ {h[1]})
    <2>1. hi \in 0 .. MaxPos /\ Good(t, b, hi, made)
        BY <1>0
    <2> HIDE DEF hi, made
    <2> QED BY <1>0, <1>1, <2>1, FreeGood
<1>5. x \in Entries /\ x.inv /\ x.gen = h[2]
    <2>1. t.avail \in Handles \cup {Nil}
        BY <1>0 DEF Tables
    <2> QED BY <2>1 DEF Freed, Entries, Handles
<1> HIDE DEF x, e, u
<1>6. MayDiffer(e, t.count, t.count, h, x)
    BY <1>0, <1>1, <1>5 DEF MayDiffer
<1>7. /\ Image(u, b) = Update(e, t.count, h[1], x) /\ Good(u, b, k.ext, MadeOf(k))
      /\ u.virtual = TRUE /\ u.off = t.off /\ u.primary = t.primary
    BY <1>3, <1>4 DEF IsEntered, e
<1>8. OneDiffers(StreamsOf(e, b), StreamsOf(Image(u, b), b))
    BY <1>6, <1>7, OneStream DEF OneDiffers
<1>9. Streams!OneChange(Snap(t, b, rt), Snap(u, b, rt))
    <2>1. rt \in Handles \cup {Nil}
        BY DEF Using
    <2> QED BY <1>0, <1>7, <1>8, <2>1, OneChangeIf DEF e
<1>10. CacheDrop(d, c, h)
    <2>1. IsCache(c)
        BY DEF Using
    <2> QED BY <2>1, PutCache
<1> HIDE DEF d
<1>11. Cached(Image(u, b), d)
    <2> SUFFICES ASSUME NEW g \in DOMAIN d
                 PROVE  IsLive(Image(u, b), g) /\ d[g] = Image(u, b)[g[1]].ref
        BY DEF Cached
    <2>1. g \in DOMAIN c /\ g # h /\ d[g] = c[g] /\ g \in Handles
        BY <1>10 DEF CacheDrop, IsCache
    <2>2. IsLive(e, g) /\ c[g] = e[g[1]].ref
        BY <1>0, <2>1 DEF Cached
    <2>3. g[1] # h[1]
        BY <1>1, <2>1, <2>2 DEF IsLive, Handles
    <2>4. IsLive(Update(e, t.count, h[1], x), g) /\ Update(e, t.count, h[1], x)[g[1]] = e[g[1]]
        BY <1>6, <2>1, <2>2, <2>3, UpdateLive
    <2> QED BY <1>7, <2>1, <2>2, <2>4
<1>12. Extended(Image(u, b), b, k)
    BY <1>0, <1>2, <1>6, <1>7, ExtendedKept
<1>13. InUse(u, b, k, d, rd, rt)
    BY <1>7, <1>11, <1>12 DEF InUse, Using
<1>14. Using(u, b, k, d, rd, rt)
    BY <1>10, <1>13 DEF Using, CacheDrop
<1>15. u \in Tables /\ u.virtual
    BY <1>7 DEF Good, Based
<1> QED BY <1>9, <1>14, <1>15 DEF u, d

\* DoSetRootL.
LEMMA UsingRoot ==
    ASSUME NEW t, NEW b, NEW k, NEW c, NEW rd, NEW rt, Using(t, b, k, c, rd, rt), NEW h \in Handles
    PROVE  LET u == [t EXCEPT !.virtual = TRUE] IN
           /\ Using(u, b, k, c, rd, h) /\ Streams!OneChange(Snap(t, b, rt), Snap(u, b, h))
           /\ u \in Tables /\ u.virtual
<1> DEFINE yes == TRUE
           u == [t EXCEPT !.virtual = yes]
<1>0. yes \in BOOLEAN /\ yes
    OBVIOUS
<1>1. /\ b \in [Pos -> Blocks] /\ k.ext \in 0 .. MaxPos /\ Good(t, b, k.ext, MadeOf(k)) /\ t \in Tables
    BY UsingIs
<1>2. /\ u \in Tables /\ u.primary = t.primary /\ u.virtual = yes /\ u.avail = t.avail
      /\ u.count = t.count /\ u.ent = t.ent /\ u.toc = t.toc /\ u.off = t.off
    <2> HIDE DEF yes
    <2> QED BY <1>0, <1>1, TableVirtual
<1> HIDE DEF u
<1>3. Image(u, b) = Image(t, b)
    BY <1>2 DEF Image, EntryAt
<1>4. Based(t, b, k.ext) => Based(u, b, k.ext)
    BY <1>2 DEF Based
<1>5. Good(u, b, k.ext, MadeOf(k))
    BY <1>1, <1>2, <1>3, <1>4 DEF Good
<1>6. InUse(u, b, k, c, rd, h)
    BY <1>2, <1>3, <1>5 DEF Using, InUse
<1>7. Using(u, b, k, c, rd, h)
    BY <1>6 DEF Using
<1>8. Streams!OneChange(Snap(t, b, rt), Snap(u, b, h))
    <2>1. StreamsOf(Image(u, b), b) = StreamsOf(Image(t, b), b)
        BY <1>3
    <2> QED BY <1>1, <1>5, <2>1, OneChangeIf
<1> QED BY <1>2, <1>7, <1>8 DEF u

\* A stream is opened for reading, at the place in the cache or in the table.
LEMMA UsingOpen ==
    ASSUME NEW t, NEW b, NEW k, NEW c, NEW rd, NEW rt, Using(t, b, k, c, rd, rt),
           NEW h \in Handles, IsLive(Image(t, b), h),
           NEW p, p = (IF h \in DOMAIN c THEN c[h] ELSE At(t, b, h)), p # Empty,
           NEW rd2, rd2 = [h |-> h, pos |-> p, val |-> StreamsOf(Image(t, b), b)[h]]
    PROVE  Using(t, b, k, Put(c, h, p), rd2, rt)
<1> DEFINE e == Image(t, b)
           d == Put(c, h, p)
<1>0. /\ b \in [Pos -> Blocks] /\ k.ext \in 0 .. MaxPos /\ e \in [1 .. t.count -> Entries]
      /\ Placed(e, b, k.ext) /\ Cached(e, c)
    BY UsingIs
<1>1. p = e[h[1]].ref
    <2>1. At(t, b, h) = e[h[1]].ref
        BY <1>0 DEF At, Image, IsLive
    <2> QED BY <1>0, <2>1 DEF Cached
<1>2. CachePut(d, c, h, p)
    <2>1. IsCache(c)
        BY DEF Using
    <2> QED BY <2>1, PutCache
<1> HIDE DEF e, d
<1>3. IsLive(e, h)
    BY DEF e
<1>4. Cached(e, d)
    BY <1>0, <1>1, <1>2, <1>3 DEF Cached, CachePut
<1>5. /\ p \in Pos /\ p <= k.ext /\ StreamsOf(e, b)[h] \in Data
      /\ b[p] = DataBlock(StreamsOf(e, b)[h])
    <2>1. e[h[1]].ref # Empty =>
             /\ e[h[1]].ref \in Pos /\ e[h[1]].ref <= k.ext /\ StreamsOf(e, b)[h] \in Data
             /\ b[e[h[1]].ref] = DataBlock(StreamsOf(e, b)[h])
        <3> DEFINE hi == k.ext
        <3>1. hi \in 0 .. MaxPos /\ Placed(e, b, hi) /\ b \in [Pos -> Blocks]
            BY <1>0
        <3> HIDE DEF hi
        <3>2. e[h[1]].ref # Empty =>
                 /\ e[h[1]].ref \in Pos /\ e[h[1]].ref <= hi /\ StreamsOf(e, b)[h] \in Data
                 /\ b[e[h[1]].ref] = DataBlock(StreamsOf(e, b)[h])
            BY <1>3, <3>1, StreamsAre
        <3> QED BY <3>2 DEF hi
    <2> QED BY <1>1, <2>1, Zenon
<1>6. rd2 \in Opened /\ rd2.pos = p /\ rd2.val = StreamsOf(e, b)[h]
    BY <1>5 DEF Opened, e
<1>7. InUse(t, b, k, d, rd2, rt)
    BY <1>4, <1>5, <1>6 DEF InUse, Using, e
<1> QED BY <1>2, <1>6, <1>7 DEF Using, CachePut, d

-----------------------------------------------------------------------------
(* The abstract store *)

AbsStable == IF phase = "header" /\ wq = <<>> THEN MemorySnap ELSE CommitSnap(view.body, coord.toc)
AbsCurrent == IF HasTable THEN MemorySnap ELSE CommitSnap(view.body, coord.toc)

LEMMA AbsInv == StoreInv => Stable = AbsStable /\ Current = AbsCurrent
<1> SUFFICES ASSUME StoreInv PROVE Stable = AbsStable /\ Current = AbsCurrent
    OBVIOUS
<1>1. Current = AbsCurrent
    BY CurrentInv DEF AbsCurrent
<1>2. CASE phase = "header" /\ wq = <<>>
    BY <1>1, <1>2, StableInv DEF AbsStable, MemorySnap
<1>3. CASE ~(phase = "header" /\ wq = <<>>)
    BY <1>1, <1>3, StableInv DEF AbsStable, CommitSnap, Committed
<1> QED BY <1>2, <1>3

LEMMA AbsNext == StoreInv' => Stable' = AbsStable' /\ Current' = AbsCurrent'
<1>1. (StoreInv => Stable = AbsStable /\ Current = AbsCurrent)'
    BY AbsInv, PTL
<1> QED BY <1>1

-----------------------------------------------------------------------------
(* Steps of a store that is ready *)

NoCache == IsCache(NoEntries) /\ DOMAIN NoEntries = {}

LEMMA NoCacheIs == NoCache
BY DEF NoCache, IsCache, NoEntries

\* The coordinator once the table is loaded.
Loaded == [coord EXCEPT !.ext = Extent]

LEMMA ReadyIs ==
    ASSUME StoreInv, Active
    PROVE  /\ Using(Table, view.body, Loaded, cache, reader, root)
           /\ Loaded = ACoord(coord.active, coord.toc, coord.backup, coord.clip, Extent, coord.extend)
           /\ coord \in Coords /\ Extent \in 0 .. MaxPos /\ coord.toc <= Extent
           /\ (tab # Nil => Extent = coord.ext) /\ (tab = Nil => Extent = coord.toc /\ coord.extend = Nil)
           /\ Table \in Tables /\ Table # Nil
           /\ Consolidated = Table /\ ConsolidatedCache = cache /\ ConsolidateWrites = <<>>
           /\ AbsCurrent = Snap(Table, view.body, root)
<1>0. /\ coord \in Coords /\ view.body \in [Pos -> Blocks] /\ coord.toc \in 0 .. MaxPos
      /\ coord.ext \in 0 .. MaxPos /\ IsCache(cache) /\ reader \in Opened \cup {Nil}
      /\ root \in Handles \cup {Nil}
    BY DEF StoreInv, TypeInv, Files, Coords, IsCache
<1>1. Usable /\ phase = "ready"
    BY DEF Active, Usable
<1>2. Loaded = ACoord(coord.active, coord.toc, coord.backup, coord.clip, Extent, coord.extend)
    <2> DEFINE x == Extent
    <2> HIDE DEF x
    <2>1. [coord EXCEPT !.ext = x] = ACoord(coord.active, coord.toc, coord.backup, coord.clip, x, coord.extend)
        <3>1. coord = ACoord(coord.active, coord.toc, coord.backup, coord.clip, coord.ext, coord.extend)
            BY <1>0, CoordIs
        <3> QED BY <3>1 DEF ACoord
    <2> QED BY <2>1 DEF Loaded, x
<1>3. ASSUME Extent \in 0 .. MaxPos
      PROVE  /\ Loaded \in Coords /\ Loaded.toc = coord.toc /\ Loaded.ext = Extent
             /\ Loaded.extend = coord.extend
    <2> DEFINE x == Extent
    <2>1. /\ coord.active \in BOOLEAN /\ coord.backup \in BOOLEAN /\ coord.clip \in BOOLEAN
          /\ coord.extend \in {Nil} \cup Extending /\ x \in 0 .. MaxPos
        BY <1>0, <1>3, CoordIs
    <2> HIDE DEF x
    <2>2. LET k == ACoord(coord.active, coord.toc, coord.backup, coord.clip, x, coord.extend) IN
          k \in Coords /\ k.toc = coord.toc /\ k.ext = x /\ k.extend = coord.extend
        BY <1>0, <2>1, ACoordIs
    <2> QED BY <1>2, <2>2 DEF x
<1>4. Consolidated = Table /\ ConsolidatedCache = cache /\ ConsolidateWrites = <<>>
    BY TableIs DEF Consolidated, ConsolidatedCache, ConsolidateWrites
<1>5. CASE tab # Nil
    <2>1. Table = tab /\ Extent = coord.ext
        BY <1>5, TableIs DEF Extent
    <2>2. InUse(tab, view.body, coord, cache, reader, root)
        BY <1>1, <1>5 DEF StoreInv, TableInv
    <2>3. Using(tab, view.body, coord, cache, reader, root)
        BY <1>0, <2>2 DEF Using
    <2>4. Using(tab, view.body, Loaded, cache, reader, root)
        BY <1>0, <1>3, <2>1, <2>3, UsingCoord
    <2>5. tab \in Tables
        BY <2>3, UsingIs
    <2>6. coord.toc <= coord.ext
        BY <2>2 DEF InUse
    <2>7. AbsCurrent = Snap(tab, view.body, root)
        BY <1>1, <1>5 DEF AbsCurrent, HasTable, MemorySnap
    <2> QED BY <1>0, <1>2, <1>4, <1>5, <2>1, <2>4, <2>5, <2>6, <2>7
<1>6. CASE tab = Nil
    <2> DEFINE t == Committed
    <2>1. Table = t /\ Extent = t.off
        BY <1>6, TableIs DEF Extent
    <2>2. Good(t, view.body, coord.toc, {}) /\ t.off = coord.toc
        BY DEF StoreInv, FileInv, FileOK, Committed
    <2>3. cache = NoEntries /\ reader = Nil /\ coord.extend = Nil /\ root = t.primary
        BY <1>1, <1>6 DEF StoreInv, NoTableInv
    <2>4. t \in Tables /\ t # Nil
        BY <2>2, NilAssumption DEF Good, Based
    <2>5. t.primary = Load(view.body, coord.toc, 0).primary
        BY DEF Committed
    <2> HIDE DEF t
    <2>6. /\ Loaded \in Coords /\ Loaded.toc = coord.toc /\ Loaded.ext = coord.toc
          /\ Loaded.extend = Nil
        BY <1>0, <1>3, <2>1, <2>2, <2>3
    <2>7. MadeOf(Loaded) = {} /\ Extended(Image(t, view.body), view.body, Loaded)
        BY <2>6 DEF MadeOf, Extended
    <2>8. Cached(Image(t, view.body), cache)
        BY <2>3, NoCacheIs DEF Cached, NoCache
    <2>9. InUse(t, view.body, Loaded, cache, reader, root)
        BY <1>0, <2>2, <2>3, <2>5, <2>6, <2>7, <2>8 DEF InUse
    <2>10. Using(t, view.body, Loaded, cache, reader, root)
        BY <1>0, <2>6, <2>9 DEF Using
    <2>11. AbsCurrent = Snap(t, view.body, root)
        BY <1>6, <2>3 DEF AbsCurrent, HasTable, CommitSnap, Committed, t
    <2> QED BY <1>0, <1>2, <1>4, <1>6, <2>1, <2>2, <2>3, <2>4, <2>10, <2>11
<1> QED BY <1>5, <1>6

\* The file keeps the last commit point.
QuietStep ==
    /\ disk' \in Files /\ view' \in Files /\ wq' \in Seq(Writes)
    /\ FileOK(disk', view', wq', coord) /\ Quiet(disk', view', wq', coord)
    /\ SameUpTo(view.body, view'.body, coord.toc)

\* The table stays in use.
TableStep ==
    /\ coord' \in Coords /\ coord'.active /\ coord'.toc = coord.toc /\ coord'.backup = coord.backup
    /\ tab' # Nil /\ Using(tab', view'.body, coord', cache', reader', root')
    /\ coll' = Nil /\ phase' \in {"ready", "toc"} /\ TrimInv'

LEMMA ReadyStep ==
    ASSUME StoreInv, coord.active, QuietStep, TableStep
    PROVE  StoreInv' /\ Stable' = Stable /\ Current' = Snap(tab', view'.body, root')
<1>0. /\ view \in Files /\ coord \in Coords /\ coord.toc \in 0 .. MaxPos /\ view.body \in [Pos -> Blocks]
      /\ view'.body \in [Pos -> Blocks]
    BY DEF StoreInv, TypeInv, Files, Coords, QuietStep
<1>1. TypeInv'
    <2>1. tab' \in Tables /\ IsCache(cache') /\ reader' \in Opened \cup {Nil} /\ root' \in Handles \cup {Nil}
        <3>1. Using(tab', view'.body, coord', cache', reader', root')
            BY DEF TableStep
        <3>2. tab' \in Tables
            BY <3>1, UsingIs
        <3> QED BY <3>1, <3>2 DEF Using
    <2> QED BY <2>1 DEF TypeInv, QuietStep, TableStep, IsCache
<1>2. FileInv'
    BY SameFile DEF FileInv, QuietStep, TableStep
<1>3. Quiet(disk', view', wq', coord')
    BY SameFile DEF QuietStep, TableStep
<1>4. HeaderInv'
    BY <1>3 DEF HeaderInv, TableStep, Quiet, HeaderKnown
<1>5. TableInv' /\ NoTableInv' /\ TrimInv'
    BY DEF TableInv, NoTableInv, TableStep, Using
<1>6. StoreInv'
    BY <1>1, <1>2, <1>4, <1>5 DEF StoreInv
<1>7. phase # "header" /\ phase' # "header"
    BY DEF StoreInv, HeaderInv, TableStep
<1>8. CommitSnap(view'.body, coord'.toc) = CommitSnap(view.body, coord.toc)
    <2>1. Good(Load(view.body, coord.toc, 0), view.body, coord.toc, {})
        BY DEF StoreInv, FileInv, FileOK
    <2>2. CommitSnap(view'.body, coord.toc) = CommitSnap(view.body, coord.toc)
        BY <1>0, <2>1, CommitKept DEF QuietStep
    <2> QED BY <2>2 DEF TableStep
<1>9. Stable' = Stable
    BY <1>6, <1>7, <1>8, AbsInv, AbsNext DEF AbsStable
<1>10. Current' = Snap(tab', view'.body, root')
    BY <1>6, AbsNext DEF AbsCurrent, HasTable, MemorySnap, Usable, TableStep
<1> QED BY <1>6, <1>9, <1>10

\* The file is left alone.
LEMMA QuietSame ==
    ASSUME StoreInv, coord.active, UNCHANGED <<disk, view, wq>>
    PROVE  QuietStep
BY DEF StoreInv, TypeInv, FileInv, HeaderInv, QuietStep, SameUpTo

\* Harmless writes are queued.
LEMMA QuietWrites ==
    ASSUME StoreInv, coord.active, wq = <<>>, NEW ws \in Seq(Writes), Len(ws) <= 3,
           \A i \in 1 .. Len(ws) : Harmless(ws[i], coord), Write(ws), disk' = disk
    PROVE  QuietStep /\ wq' = ws /\ view' = Replay(view, ws)
<1>1. wq' = ws /\ view' = Replay(view, ws)
    BY DEF Write
<1>2. /\ view \in Files /\ coord \in Coords /\ FileOK(disk, view, <<>>, coord) /\ Quiet(disk, view, <<>>, coord)
      /\ disk \in Files
    BY DEF StoreInv, TypeInv, FileInv, HeaderInv
<1>3. /\ Kept(view, Replay(view, ws), coord)
      /\ FileOK(disk, Replay(view, ws), ws, coord) /\ Quiet(disk, Replay(view, ws), ws, coord)
    BY <1>2, QuietWrite
<1> QED BY <1>1, <1>2, <1>3 DEF QuietStep, Kept

\* A step of the store, seen from the streams.
Refines == Streams!StreamNext \/ UNCHANGED <<Stable, Current>>

LEMMA RefinesIf ==
    /\ Stable' = Stable /\ Streams!OneChange(Current, Current') => Refines
    /\ Stable' = Current /\ Current' = Current => Refines
    /\ Stable' = Stable /\ Current' = Stable => Refines
    /\ Stable' = Stable /\ Current' = Current => Refines
<1>1. ASSUME Streams!Change(Stable, Current, Stable', Current')
               \/ Streams!CommitAll(Stable, Current, Stable', Current')
               \/ Streams!Forget(Stable, Current, Stable', Current')
      PROVE  Refines
    BY <1>1 DEF Refines, Streams!StreamNext
<1>2. Stable' = Stable /\ Streams!OneChange(Current, Current') => Refines
    BY <1>1 DEF Streams!Change
<1>3. Stable' = Current /\ Current' = Current => Refines
    BY <1>1 DEF Streams!CommitAll
<1>4. Stable' = Stable /\ Current' = Stable => Refines
    BY <1>1 DEF Streams!Forget
<1>5. Stable' = Stable /\ Current' = Current => Refines
    BY DEF Refines
<1> QED BY <1>2, <1>3, <1>4, <1>5

\* A table that is in use is in memory while a stream is written or read.
LEMMA InMemory ==
    ASSUME StoreInv, coord.active, tab # Nil
    PROVE  /\ Using(tab, view.body, coord, cache, reader, root) /\ tab \in Tables
           /\ Current = Snap(tab, view.body, root) /\ coord \in Coords
<1>1. Usable
    BY DEF StoreInv, HeaderInv, Usable
<1>2. Using(tab, view.body, coord, cache, reader, root)
    BY <1>1 DEF Using, StoreInv, TypeInv, TableInv, Files, IsCache
<1>3. Current = Snap(tab, view.body, root)
    BY <1>1, AbsInv DEF AbsCurrent, HasTable, MemorySnap
<1> QED BY <1>2, <1>3, UsingIs

LEMMA StepCommitStream == ASSUME StoreInv, CommitStream PROVE StoreInv' /\ Refines
<1> DEFINE x == coord.extend
           l == coord'
<1>0. Active /\ coord.active /\ phase = "ready" /\ x # Nil /\ tab # Nil
    BY DEF CommitStream, Active, StoreInv, NoTableInv
<1>1. /\ Using(tab, view.body, coord, cache, reader, root) /\ tab \in Tables
      /\ Current = Snap(tab, view.body, root) /\ coord \in Coords
    BY <1>0, InMemory
<1>2. /\ tab' = Set(tab, x.h, x.pos)
      /\ cache' = IF x.pos = Empty THEN Drop(cache, x.h) ELSE Put(cache, x.h, x.pos)
      /\ coord' = [coord EXCEPT !.extend = Nil, !.ext = IF x.pos = Empty THEN coord.ext ELSE x.pos]
      /\ UNCHANGED <<disk, view, wq, coll, reader, root, phase>>
    BY DEF CommitStream
<1>3. /\ l \in Coords /\ l.active /\ l.toc = coord.toc /\ l.backup = coord.backup /\ l.clip = coord.clip
      /\ l.extend = Nil /\ l.ext = IF x.pos = Empty THEN coord.ext ELSE x.pos
    <2> DEFINE y == IF x.pos = Empty THEN coord.ext ELSE x.pos
               n == Nil
    <2>1. y \in 0 .. MaxPos /\ n \in {Nil} \cup Extending
        BY <1>0, <1>1, BoundsAssumption DEF Coords, Extending, Pos
    <2>2. l = [coord EXCEPT !.extend = n, !.ext = y]
        BY <1>2
    <2> HIDE DEF y, n
    <2>3. IsCoord(l, coord.active, coord.toc, coord.backup, coord.clip, y, n)
        BY <1>1, <2>1, <2>2, CoordExtendExt
    <2> QED BY <1>0, <2>3 DEF IsCoord, y, n
<1>4. /\ Using(tab', view.body, l, cache', reader, root)
      /\ Streams!OneChange(Snap(tab, view.body, root), Snap(tab', view.body, root))
      /\ tab' \in Tables
    BY <1>0, <1>1, <1>2, <1>3, UsingCommit
<1>5. tab' # Nil /\ coll' = Nil
    BY <1>2, <1>4, NilAssumption DEF StoreInv, TypeInv
<1>6. TrimInv'
    <2>1. ~l.clip => EndsAt(view.body, LastOf(tab, coord))
        BY <1>0, <1>3 DEF StoreInv, TrimInv
    <2>2. LastOf(tab', l) = LastOf(tab, coord)
        BY <1>0, <1>3, <1>5 DEF LastOf
    <2> QED BY <1>0, <1>2, <2>1, <2>2 DEF TrimInv
<1>7. TableStep
    BY <1>0, <1>2, <1>3, <1>4, <1>5, <1>6 DEF TableStep
<1>8. QuietStep
    BY <1>0, <1>2, QuietSame
<1>9. StoreInv' /\ Stable' = Stable /\ Current' = Snap(tab', view'.body, root')
    BY <1>0, <1>7, <1>8, ReadyStep
<1>10. Streams!OneChange(Current, Current')
    BY <1>1, <1>2, <1>4, <1>9
<1> QED BY <1>9, <1>10, RefinesIf

\* The table is loaded and changes, the file does not.
TableOnly ==
    /\ Active /\ UNCHANGED <<disk, view, wq, coll, phase>>
    /\ IsCoord(coord', coord.active, coord.toc, coord.backup, coord'.clip, Extent, coord'.extend)
    /\ ~coord'.clip => coord'.clip = coord.clip /\ coord'.extend = coord.extend
    /\ tab' \in Tables /\ Using(tab', view.body, coord', cache', reader', root')

LEMMA TableOnlyStep ==
    ASSUME StoreInv, TableOnly
    PROVE  /\ StoreInv' /\ Stable' = Stable /\ Current' = Snap(tab', view.body, root')
           /\ Current = Snap(Table, view.body, root)
<1>0. Active /\ coord.active /\ phase = "ready" /\ view' = view /\ phase' = phase /\ coll' = coll
    BY DEF TableOnly, Active
<1>1. /\ (tab # Nil => Extent = coord.ext) /\ (tab = Nil => Extent = coord.toc /\ coord.extend = Nil)
      /\ AbsCurrent = Snap(Table, view.body, root)
    BY <1>0, ReadyIs
<1>2. /\ coord' \in Coords /\ coord'.active = coord.active /\ coord'.toc = coord.toc
      /\ coord'.backup = coord.backup /\ coord'.ext = Extent
    BY DEF TableOnly, IsCoord
<1>3. tab' # Nil
    BY NilAssumption DEF TableOnly
<1>4. TrimInv'
    <2>1. ~coord.clip => EndsAt(view.body, LastOf(tab, coord))
        BY <1>0 DEF StoreInv, TrimInv
    <2>2. coord'.extend = coord.extend => LastOf(tab', coord') = LastOf(tab, coord)
        BY <1>1, <1>2, <1>3 DEF LastOf
    <2>3. ~coord'.clip => EndsAt(view.body, LastOf(tab', coord'))
        BY <2>1, <2>2 DEF TableOnly
    <2> QED BY <1>0, <2>3 DEF TrimInv
<1>5. TableStep
    BY <1>0, <1>2, <1>3, <1>4 DEF TableStep, TableOnly, StoreInv, TypeInv
<1>6. QuietStep
    BY <1>0, QuietSame DEF TableOnly
<1>7. StoreInv' /\ Stable' = Stable /\ Current' = Snap(tab', view'.body, root')
    BY <1>0, <1>5, <1>6, ReadyStep
<1> QED BY <1>0, <1>1, <1>7, AbsInv

\* What CoordL, TrimL and ConsolidateL leave behind.
LEMMA PreparedIs ==
    ASSUME StoreInv, Active
    PROVE  /\ IsCoord(Prepared(FALSE), coord.active, coord.toc, coord.backup, coord.clip, Extent, coord.extend)
           /\ IsCoord(Prepared(TRUE), coord.active, coord.toc, coord.backup, FALSE, Extent, coord.extend)
<1>1. coord \in Coords /\ Extent \in 0 .. MaxPos /\ coord.clip \in BOOLEAN
    BY ReadyIs DEF Coords
<1>2. ASSUME NEW trim \in BOOLEAN, NEW c \in BOOLEAN, c = (coord.clip /\ ~trim)
      PROVE  IsCoord(Prepared(trim), coord.active, coord.toc, coord.backup, c, Extent, coord.extend)
    <2> DEFINE x == Extent
    <2>1. Prepared(trim) = [coord EXCEPT !.reloc = Nil, !.target = 0, !.ext = x, !.clip = c]
        BY <1>2 DEF Prepared
    <2>2. x \in 0 .. MaxPos
        BY <1>1
    <2> HIDE DEF x
    <2>3. IsCoord([coord EXCEPT !.reloc = Nil, !.target = 0, !.ext = x, !.clip = c],
                  coord.active, coord.toc, coord.backup, c, x, coord.extend)
        BY <1>1, <1>2, <2>2, CoordPrepared
    <2> QED BY <2>1, <2>3 DEF x
<1>3. coord.clip = (coord.clip /\ ~FALSE) /\ FALSE = (coord.clip /\ ~TRUE)
    BY <1>1
<1> QED BY <1>1, <1>2, <1>3

LEMMA StepAbandonStream == ASSUME StoreInv, AbandonStream, coord.active PROVE StoreInv' /\ Refines
<1> DEFINE x == coord.extend
           l == coord'
<1>0. Active /\ phase = "ready" /\ x # Nil /\ tab # Nil
    BY DEF AbandonStream, Active, StoreInv, NoTableInv
<1>1. /\ Using(tab, view.body, coord, cache, reader, root) /\ tab \in Tables
      /\ Current = Snap(tab, view.body, root) /\ coord \in Coords
    BY <1>0, InMemory
<1>2. /\ tab' = IF x.new THEN FreeEntry(tab, x.h) ELSE tab
      /\ coord' = Released(coord)
      /\ UNCHANGED <<disk, view, wq, cache, coll, reader, root, phase>>
    BY DEF AbandonStream, Cancel
<1>3. IsCoord(l, coord.active, coord.toc, coord.backup, TRUE, coord.ext, Nil)
    <2> DEFINE yes == TRUE
               n == Nil
    <2>1. yes \in BOOLEAN /\ n \in {Nil} \cup Extending
        OBVIOUS
    <2>2. l = [coord EXCEPT !.extend = n, !.clip = yes]
        BY <1>2 DEF Released
    <2> HIDE DEF yes, n
    <2>3. IsCoord(l, coord.active, coord.toc, coord.backup, yes, coord.ext, n)
        BY <1>1, <2>1, <2>2, CoordExtendClip
    <2> QED BY <2>3 DEF yes, n
<1>4. l \in Coords /\ l.toc = coord.toc /\ l.extend = Nil /\ l.ext = coord.ext /\ l.clip = TRUE
    BY <1>3 DEF IsCoord
<1>5. /\ Using(tab', view.body, l, cache, reader, root)
      /\ Snap(tab', view.body, root) = Snap(tab, view.body, root) /\ tab' \in Tables
    <2>1. CASE x.new
        <3>1. tab' = FreeEntry(tab, x.h)
            BY <1>2, <2>1
        <3> QED BY <1>0, <1>1, <1>4, <2>1, <3>1, UsingCancel
    <2>2. CASE ~x.new
        BY <1>0, <1>1, <1>2, <1>4, <2>2, UsingGiveUp
    <2> QED BY <2>1, <2>2
<1>6. Extent = coord.ext
    BY <1>0 DEF Extent
<1>7. TableOnly
    BY <1>0, <1>2, <1>3, <1>4, <1>5, <1>6 DEF TableOnly
<1>8. StoreInv' /\ Stable' = Stable /\ Current' = Snap(tab', view.body, root')
    BY <1>7, TableOnlyStep
<1>9. Current' = Current
    BY <1>1, <1>2, <1>5, <1>8
<1> QED BY <1>8, <1>9, RefinesIf

LEMMA StepOpenStream == ASSUME StoreInv, NEW h \in ReadStreams, OpenStream(h) PROVE StoreInv' /\ Refines
<1> DEFINE b == view.body
           e == Image(Table, b)
           at == IF h \in DOMAIN cache THEN cache[h] ELSE At(Table, b, h)
<1>0. Active
    BY DEF OpenStream
<1>1. /\ Using(Table, b, Loaded, cache, reader, root) /\ coord \in Coords /\ Extent \in 0 .. MaxPos
      /\ Table \in Tables
    BY <1>0, ReadyIs
<1>2. Loaded.ext \in 0 .. MaxPos /\ b \in [Pos -> Blocks] /\ Based(Table, b, Loaded.ext)
    BY <1>1, UsingIs
<1>3. h \in Handles /\ IsLive(e, h) /\ Contents(Table, b, Nil, 0) = StreamsOf(e, b)
    <2> DEFINE hi == Loaded.ext
    <2>1. hi \in 0 .. MaxPos /\ Based(Table, b, hi)
        BY <1>2
    <2> HIDE DEF hi
    <2>2. h \in Live(Table, b)
        BY DEF OpenStream
    <2> QED BY <1>2, <2>1, <2>2, ContentsIs
<1>4. coord.reloc = Nil /\ coord.target = 0 /\ h # coord.reloc
    BY <1>3, TableIs, NilAssumption
<1>5. /\ at # Empty /\ reader' = [h |-> h, pos |-> at, val |-> StreamsOf(e, b)[h]]
      /\ cache' = Put(cache, h, at) /\ coord' = Loaded /\ tab' = Table
      /\ UNCHANGED <<disk, view, wq, coll, root, phase>>
    BY <1>3, <1>4 DEF OpenStream, Loaded
<1> HIDE DEF at, b
<1>6. Using(tab', b, coord', cache', reader', root')
    BY <1>1, <1>3, <1>5, UsingOpen DEF at
<1>7. IsCoord(coord', coord.active, coord.toc, coord.backup, coord.clip, Extent, coord.extend)
    <2> DEFINE x == Extent
    <2>1. x \in 0 .. MaxPos /\ Loaded = [coord EXCEPT !.ext = x]
        BY <1>1 DEF Loaded
    <2> HIDE DEF x
    <2>2. IsCoord([coord EXCEPT !.ext = x], coord.active, coord.toc, coord.backup, coord.clip, x, coord.extend)
        BY <1>1, <2>1, CoordExt
    <2> QED BY <1>5, <2>1, <2>2 DEF x
<1>8. TableOnly
    BY <1>0, <1>1, <1>5, <1>6, <1>7 DEF TableOnly, IsCoord, b
<1>9. /\ StoreInv' /\ Stable' = Stable /\ Current' = Snap(tab', view.body, root')
      /\ Current = Snap(Table, view.body, root)
    BY <1>8, TableOnlyStep
<1>10. Current' = Current
    BY <1>5, <1>9
<1> QED BY <1>9, <1>10, RefinesIf

\* An operation that only changes the table.
LEMMA ChangeTableStep ==
    ASSUME StoreInv, Begin, NEW t \in Tables, NEW c, ChangeTable(t, c),
           Using(t, view.body, Loaded, c, reader, root'),
           Streams!OneChange(Snap(Table, view.body, root), Snap(t, view.body, root'))
    PROVE  StoreInv' /\ Refines
<1>0. Active /\ wq = <<>>
    BY DEF Begin
<1>1. /\ Extent \in 0 .. MaxPos /\ ConsolidateWrites = <<>> /\ coord \in Coords
      /\ Loaded = ACoord(coord.active, coord.toc, coord.backup, coord.clip, Extent, coord.extend)
    BY <1>0, ReadyIs
<1>2. /\ tab' = t /\ cache' = c /\ coord' = Prepared(FALSE) /\ UNCHANGED <<disk, coll, reader, phase>>
      /\ Write(Prepare(FALSE))
    BY DEF ChangeTable
<1>3. wq' = wq /\ view' = view
    <2>1. Prepare(FALSE) = <<>>
        BY <1>1 DEF Prepare
    <2>2. Replay(view, <<>>) = view
        BY ReplayFew
    <2>3. <<>> \o <<>> = <<>>
        OBVIOUS
    <2>4. wq' = wq \o <<>> /\ view' = Replay(view, <<>>)
        BY <1>2, <2>1, Zenon DEF Write
    <2> QED BY <1>0, <2>2, <2>3, <2>4, Zenon
<1>4. IsCoord(coord', coord.active, coord.toc, coord.backup, coord.clip, Extent, coord.extend)
    BY <1>0, <1>2, PreparedIs
<1>5. /\ Loaded.toc = coord.toc /\ Loaded.ext = Extent /\ Loaded.extend = coord.extend
    BY <1>1 DEF ACoord
<1>6. /\ coord' \in Coords /\ coord'.toc = coord.toc /\ coord'.ext = Extent /\ coord'.extend = coord.extend
      /\ coord'.clip = coord.clip
    BY <1>4 DEF IsCoord
<1>7. Using(t, view.body, coord', c, reader, root')
    BY <1>5, <1>6, UsingCoord
<1>8. TableOnly
    BY <1>0, <1>2, <1>3, <1>4, <1>6, <1>7 DEF TableOnly
<1>9. /\ StoreInv' /\ Stable' = Stable /\ Current' = Snap(tab', view.body, root')
      /\ Current = Snap(Table, view.body, root)
    BY <1>8, TableOnlyStep
<1>10. Streams!OneChange(Current, Current')
    BY <1>2, <1>9
<1> QED BY <1>9, <1>10, RefinesIf

\* The handles that AtL finds.
LEMMA ReadyLive ==
    ASSUME StoreInv, Active, NEW h \in Live(Table, view.body)
    PROVE  h \in Handles /\ IsLive(Image(Table, view.body), h)
<1> DEFINE hi == Loaded.ext
<1>1. hi \in 0 .. MaxPos /\ view.body \in [Pos -> Blocks] /\ Based(Table, view.body, hi)
    BY ReadyIs, UsingIs
<1> HIDE DEF hi
<1> QED BY <1>1, ContentsIs

LEMMA StepExtendL == ASSUME StoreInv, ExtendL PROVE StoreInv' /\ Refines
<1> DEFINE b == view.body
           u == Alloc(Table, b, FALSE)
<1>0. Begin /\ Active /\ CanAlloc(Table)
    BY DEF ExtendL, Begin
<1>1. Using(Table, b, Loaded, cache, reader, root) /\ Consolidated = Table /\ ConsolidatedCache = cache
    BY <1>0, ReadyIs
<1>2. ChangeTable(u, cache) /\ root' = root
    BY <1>1 DEF ExtendL
<1>3. /\ Using(u, b, Loaded, cache, reader, root) /\ Streams!OneChange(Snap(Table, b, root), Snap(u, b, root))
      /\ u \in Tables
    BY <1>0, <1>1, UsingExtend
<1> HIDE DEF u
<1> QED BY <1>0, <1>2, <1>3, ChangeTableStep

LEMMA StepDeleteL == ASSUME StoreInv, NEW h \in Handles, DeleteL(h) PROVE StoreInv' /\ Refines
<1> DEFINE b == view.body
           u == FreeEntry(Table, h)
           c == Drop(cache, h)
<1>0. Begin /\ Active /\ h \in Live(Table, b) /\ (coord.extend # Nil => coord.extend.h # h)
    BY DEF DeleteL, Begin
<1>1. /\ Using(Table, b, Loaded, cache, reader, root) /\ Consolidated = Table /\ ConsolidatedCache = cache
      /\ Loaded = ACoord(coord.active, coord.toc, coord.backup, coord.clip, Extent, coord.extend)
    BY <1>0, ReadyIs
<1>2. ChangeTable(u, c) /\ root' = root
    BY <1>1 DEF DeleteL
<1>3. IsLive(Image(Table, b), h)
    BY <1>0, ReadyLive
<1>4. Loaded.extend # Nil => Loaded.extend.h # h
    BY <1>0, <1>1 DEF ACoord
<1>5. /\ Using(u, b, Loaded, c, reader, root) /\ Streams!OneChange(Snap(Table, b, root), Snap(u, b, root))
      /\ u \in Tables
    BY <1>1, <1>3, <1>4, UsingDelete
<1> HIDE DEF u, c
<1> QED BY <1>0, <1>2, <1>5, ChangeTableStep

LEMMA StepDoSetRootL == ASSUME StoreInv, NEW h \in Roots, DoSetRootL(h) PROVE StoreInv' /\ Refines
<1> DEFINE b == view.body
           u == [Table EXCEPT !.virtual = TRUE]
<1>0. Begin /\ Active /\ h \in Live(Table, b)
    BY DEF DoSetRootL, Begin
<1>1. Using(Table, b, Loaded, cache, reader, root) /\ Consolidated = Table /\ ConsolidatedCache = cache
    BY <1>0, ReadyIs
<1>2. ChangeTable(u, cache) /\ root' = h
    BY <1>1 DEF DoSetRootL
<1>3. h \in Handles
    BY <1>0, ReadyLive
<1>4. /\ Using(u, b, Loaded, cache, reader, h) /\ Streams!OneChange(Snap(Table, b, root), Snap(u, b, h))
      /\ u \in Tables
    BY <1>1, <1>3, UsingRoot
<1> HIDE DEF u
<1> QED BY <1>0, <1>2, <1>4, ChangeTableStep

-----------------------------------------------------------------------------
(* Steps of a store that was shut down *)

ShutStep ==
    /\ phase = "ready" /\ ~coord.active /\ UNCHANGED <<disk, view, wq, coll, phase>>
    /\ coord' \in Coords /\ ~coord'.active /\ coord'.toc = coord.toc
    /\ tab' \in Tables \cup {Nil} /\ IsCache(cache')
    /\ reader' \in Opened \cup {Nil} /\ root' \in Handles \cup {Nil}
    /\ NoTableInv'

LEMMA StepShut == ASSUME StoreInv, ShutStep PROVE StoreInv' /\ Refines
<1>1. TypeInv'
    BY DEF TypeInv, StoreInv, ShutStep, IsCache
<1>2. FileInv'
    <2>1. FileOK(disk, view, wq, coord')
        BY SameFile DEF StoreInv, FileInv, ShutStep
    <2> QED BY <2>1 DEF FileInv, ShutStep
<1>3. HeaderInv'
    BY DEF HeaderInv, StoreInv, ShutStep
<1>4. TableInv' /\ NoTableInv' /\ TrimInv'
    BY DEF TableInv, TrimInv, ShutStep, Usable
<1>5. StoreInv'
    BY <1>1, <1>2, <1>3, <1>4 DEF StoreInv
<1>6. AbsStable' = AbsStable /\ AbsCurrent' = AbsCurrent
    BY DEF AbsStable, AbsCurrent, HasTable, Usable, ShutStep
<1> QED BY <1>5, <1>6, AbsInv, AbsNext, RefinesIf

\* An entry is freed in a table that is not in use any more.
LEMMA FreeTyped ==
    ASSUME NEW t \in Tables, NEW h \in Handles
    PROVE  LET u == FreeEntry(t, h) IN u \in Tables /\ u.primary = t.primary /\ u.virtual = TRUE
<1> DEFINE x == Freed(h, t.avail)
           m == Put(t.ent, h[1], x)
           u1 == [t EXCEPT !.ent = m]
           u2 == [u1 EXCEPT !.avail = h]
           yes == TRUE
           u3 == [u2 EXCEPT !.virtual = yes]
<1>1. x \in Entries /\ t.ent \in EntryMaps /\ h[1] \in 1 .. MaxIndex
    BY DEF Freed, Entries, Tables, Handles
<1>2. m \in EntryMaps
    <2> HIDE DEF x
    <2> QED BY <1>1, PutIs
<1>3. FreeEntry(t, h) = u3
    BY DEF FreeEntry, Fetch, Freed
<1>0. yes = TRUE
    OBVIOUS
<1> HIDE DEF m, yes
<1>4. u1 \in Tables /\ u1.primary = t.primary
    BY <1>2, TableEnt, Zenon
<1> HIDE DEF u1
<1>5. u2 \in Tables /\ u2.primary = t.primary
    <2>1. h \in Handles \cup {Nil}
        OBVIOUS
    <2> QED BY <1>4, <2>1, TableAvail, Zenon
<1> HIDE DEF u2
<1>6. u3 \in Tables /\ u3.primary = t.primary /\ u3.virtual = yes
    <2>1. yes \in BOOLEAN
        BY <1>0
    <2> QED BY <1>5, <2>1, TableVirtual, Zenon
<1> HIDE DEF u3
<1> QED BY <1>0, <1>3, <1>6, Zenon

LEMMA StepAbandonShut == ASSUME StoreInv, AbandonStream, ~coord.active PROVE StoreInv' /\ Refines
<1> DEFINE x == coord.extend
<1>0. /\ phase = "ready" /\ x # Nil /\ tab # Nil /\ coord \in Coords /\ tab \in Tables
      /\ x \in Extending /\ x.h \in Handles
    BY DEF AbandonStream, StoreInv, NoTableInv, TypeInv, Coords, Extending
<1>1. /\ tab' = IF x.new THEN FreeEntry(tab, x.h) ELSE tab
      /\ coord' = Released(coord)
      /\ UNCHANGED <<disk, view, wq, cache, coll, reader, root, phase>>
    BY DEF AbandonStream, Cancel
<1>2. IsCoord(coord', coord.active, coord.toc, coord.backup, TRUE, coord.ext, Nil)
    <2> DEFINE yes == TRUE
               n == Nil
    <2>1. yes \in BOOLEAN /\ n \in {Nil} \cup Extending
        OBVIOUS
    <2>2. coord' = [coord EXCEPT !.extend = n, !.clip = yes]
        BY <1>1 DEF Released
    <2> HIDE DEF yes, n
    <2>3. IsCoord(coord', coord.active, coord.toc, coord.backup, yes, coord.ext, n)
        BY <1>0, <2>1, <2>2, CoordExtendClip
    <2> QED BY <2>3 DEF yes, n
<1>3. coord' \in Coords /\ ~coord'.active /\ coord'.toc = coord.toc
    BY <1>2 DEF IsCoord
<1>4. /\ tab' \in Tables /\ tab' # Nil /\ tab'.primary = tab.primary
      /\ (~tab'.virtual => ~tab.virtual)
    <2>1. /\ FreeEntry(tab, x.h) \in Tables /\ FreeEntry(tab, x.h).primary = tab.primary
          /\ FreeEntry(tab, x.h).virtual = TRUE
        BY <1>0, FreeTyped, Zenon
    <2>2. \A t \in Tables : t # Nil
        BY NilAssumption
    <2>3. CASE x.new
        BY <1>1, <2>1, <2>2, <2>3
    <2>4. CASE ~x.new
        BY <1>0, <1>1, <2>4
    <2> QED BY <2>3, <2>4
<1>5. tab.primary = Committed.primary /\ (~tab.virtual => root = tab.primary)
    BY <1>0 DEF StoreInv, NoTableInv
<1>6. Committed' = Committed
    BY <1>1, <1>3 DEF Committed
<1>7. NoTableInv'
    BY <1>0, <1>1, <1>3, <1>4, <1>5, <1>6 DEF NoTableInv
<1>8. ShutStep
    BY <1>0, <1>1, <1>3, <1>4, <1>7 DEF ShutStep, StoreInv, TypeInv, IsCache
<1> QED BY <1>8, StepShut

LEMMA StepCloseStream == ASSUME StoreInv, CloseStream PROVE StoreInv' /\ Refines
<1>0. /\ phase = "ready" /\ reader # Nil /\ reader' = Nil /\ tab # Nil /\ coord \in Coords
      /\ UNCHANGED <<disk, view, wq, tab, coord, cache, coll, root, phase>>
    BY DEF CloseStream, StoreInv, NoTableInv, TypeInv
<1>1. CASE coord.active
    <2>1. /\ Using(tab, view.body, coord, cache, reader, root) /\ tab \in Tables
          /\ Current = Snap(tab, view.body, root)
        BY <1>0, <1>1, InMemory
    <2>2. Using(tab, view.body, coord, cache, Nil, root)
        BY <2>1 DEF Using, InUse
    <2>3. Extent = coord.ext /\ Active
        BY <1>0, <1>1 DEF Extent, Active
    <2>4. TableOnly
        BY <1>0, <2>1, <2>2, <2>3 DEF TableOnly, IsCoord
    <2>5. StoreInv' /\ Stable' = Stable /\ Current' = Snap(tab', view.body, root')
        BY <2>4, TableOnlyStep
    <2>6. Current' = Current
        BY <1>0, <2>1, <2>5
    <2> QED BY <2>5, <2>6, RefinesIf
<1>2. CASE ~coord.active
    <2>1. NoTableInv'
        BY <1>0, <1>2 DEF StoreInv, NoTableInv, Committed
    <2>2. ShutStep
        BY <1>0, <1>2, <2>1 DEF ShutStep, StoreInv, TypeInv, IsCache
    <2> QED BY <2>2, StepShut
<1> QED BY <1>1, <1>2

\* A store that is ready, with no table in memory.
BareStep ==
    /\ phase = "ready" /\ UNCHANGED <<disk, view, wq, coll, phase>>
    /\ tab' = Nil /\ cache' = NoEntries /\ reader' = Nil /\ root' = Committed.primary
    /\ coord' \in Coords /\ coord'.active /\ coord'.toc = coord.toc /\ coord'.extend = Nil
    /\ Quiet(disk, view, wq, coord')
    /\ ~coord'.clip => EndsAt(view.body, coord.toc)

LEMMA StepBare ==
    ASSUME StoreInv, BareStep
    PROVE  StoreInv' /\ Stable' = Stable /\ Current' = Stable
<1>1. TypeInv'
    <2>1. Committed \in Tables
        BY DEF StoreInv, FileInv, FileOK, Committed, Good, Based
    <2>2. Committed.primary \in Handles \cup {Nil}
        BY <2>1 DEF Tables
    <2>3. IsCache(NoEntries)
        BY NoCacheIs DEF NoCache
    <2> QED BY <2>2, <2>3 DEF TypeInv, StoreInv, BareStep, IsCache
<1>2. FileInv'
    <2>1. FileOK(disk, view, wq, coord')
        BY SameFile DEF StoreInv, FileInv, BareStep
    <2> QED BY <2>1 DEF FileInv, BareStep
<1>3. HeaderInv'
    BY DEF HeaderInv, BareStep, Quiet, HeaderKnown
<1>4. TableInv' /\ NoTableInv' /\ TrimInv'
    BY DEF TableInv, TrimInv, BareStep, NoTableInv, LastOf, Committed
<1>5. StoreInv'
    BY <1>1, <1>2, <1>3, <1>4 DEF StoreInv
<1>6. AbsStable' = AbsStable /\ AbsCurrent' = AbsStable
    BY DEF AbsStable, AbsCurrent, HasTable, BareStep
<1> QED BY <1>5, <1>6, AbsInv, AbsNext

LEMMA StepRevertL == ASSUME StoreInv, RevertL PROVE StoreInv' /\ Refines
<1>0. /\ phase = "ready" /\ tab # Nil /\ reader = Nil /\ coord.extend = Nil /\ coord \in Coords
      /\ tab \in Tables /\ tab.virtual \in BOOLEAN /\ coord.clip \in BOOLEAN
    BY DEF RevertL, Accessed, StoreInv, TypeInv, Tables, Coords
<1>1. /\ tab' = Nil /\ cache' = NoEntries /\ root' = (IF tab.virtual THEN tab.primary ELSE root)
      /\ coord' = [coord EXCEPT !.clip = coord.clip \/ tab.virtual, !.ext = 0]
      /\ UNCHANGED <<disk, view, wq, coll, reader, phase>>
    BY DEF RevertL
<1>2. IsCoord(coord', coord.active, coord.toc, coord.backup, coord.clip \/ tab.virtual, 0, coord.extend)
    <2> DEFINE c == coord.clip \/ tab.virtual
               x == 0
    <2>1. c \in BOOLEAN /\ x \in 0 .. MaxPos
        BY <1>0, BoundsAssumption
    <2>2. coord' = [coord EXCEPT !.clip = c, !.ext = x]
        BY <1>1
    <2> HIDE DEF c, x
    <2>3. IsCoord(coord', coord.active, coord.toc, coord.backup, c, x, coord.extend)
        BY <1>0, <2>1, <2>2, CoordClipExt
    <2> QED BY <2>3 DEF c, x
<1>3. /\ coord' \in Coords /\ coord'.active = coord.active /\ coord'.toc = coord.toc
      /\ coord'.backup = coord.backup /\ coord'.extend = Nil
      /\ coord'.clip = (coord.clip \/ tab.virtual)
    BY <1>0, <1>2 DEF IsCoord
<1>4. CASE coord.active
    <2>1. InUse(tab, view.body, coord, cache, reader, root)
        BY <1>0, <1>4, InMemory DEF Using
    <2>2. tab.primary = Committed.primary /\ (~tab.virtual => root = tab.primary /\ coord.ext = coord.toc)
        BY <2>1 DEF InUse, Committed
    <2>3. ~coord'.clip => EndsAt(view.body, coord.toc)
        BY <1>0, <1>3, <1>4, <2>2 DEF StoreInv, TrimInv, LastOf
    <2>4. Quiet(disk, view, wq, coord')
        <3>1. Quiet(disk, view, wq, coord)
            BY <1>4 DEF StoreInv, HeaderInv
        <3> QED BY <1>3, <3>1, SameFile
    <2>5. BareStep
        BY <1>0, <1>1, <1>3, <1>4, <2>2, <2>3, <2>4 DEF BareStep
    <2>6. StoreInv' /\ Stable' = Stable /\ Current' = Stable
        BY <2>5, StepBare
    <2> QED BY <2>6, RefinesIf
<1>5. CASE ~coord.active
    <2>1. tab.primary = Committed.primary /\ (~tab.virtual => root = tab.primary)
        BY <1>0, <1>5 DEF StoreInv, NoTableInv
    <2>2. Committed' = Committed
        BY <1>1, <1>3 DEF Committed
    <2>3. root' = Committed.primary /\ root' \in Handles \cup {Nil}
        BY <1>0, <1>1, <2>1 DEF Tables, StoreInv, TypeInv
    <2>4. NoTableInv'
        BY <1>0, <1>1, <1>3, <1>5, <2>2, <2>3 DEF NoTableInv
    <2>5. IsCache(cache')
        BY <1>1, NoCacheIs DEF NoCache
    <2>6. ShutStep
        BY <1>0, <1>1, <1>3, <1>5, <2>3, <2>4, <2>5 DEF ShutStep, StoreInv, TypeInv
    <2> QED BY <2>6, StepShut
<1> QED BY <1>4, <1>5

LEMMA StepRefreshL == ASSUME StoreInv, RefreshL PROVE StoreInv' /\ Refines
<1>0. /\ phase = "ready" /\ ~coord.active /\ tab = Nil /\ coord' = Fresh(ReadHeader(view))
      /\ UNCHANGED <<disk, view, wq, tab, cache, coll, reader, root, phase>>
    BY DEF RefreshL
<1>1. wq = <<>> /\ HeaderSays(disk.hdr, coord.toc)
    BY <1>0 DEF StoreInv, HeaderInv
<1>2. view = disk
    <2>1. view = Replay(disk, wq)
        BY DEF StoreInv, FileInv, FileOK
    <2> QED BY <1>1, <2>1, ReplayFew
<1>3. /\ coord' \in Coords /\ coord'.toc = coord.toc /\ coord'.active /\ coord'.clip
      /\ coord'.extend = Nil /\ HeaderKnown(view.hdr, coord')
    <2>1. view \in Files /\ coord.toc \in 0 .. MaxPos
        BY DEF StoreInv, TypeInv, Coords
    <2> QED BY <1>0, <1>1, <1>2, <2>1, FreshIs
<1>4. Quiet(disk, view, wq, coord')
    BY <1>1, <1>2, <1>3 DEF Quiet
<1>5. cache = NoEntries /\ reader = Nil /\ root = Committed.primary
    BY <1>0 DEF StoreInv, NoTableInv
<1>6. BareStep
    BY <1>0, <1>3, <1>4, <1>5 DEF BareStep
<1>7. StoreInv' /\ Stable' = Stable /\ Current' = Stable
    BY <1>6, StepBare
<1> QED BY <1>7, RefinesIf

-----------------------------------------------------------------------------
(* Steps that write *)

\* The writes ws lead to file g, with the last commit point and all that is in
\* use as it was, and nothing behind slot n.
Writing(ws, g, n) ==
    /\ ws \in Seq(Writes) /\ \A i \in 1 .. Len(ws) : Harmless(ws[i], coord)
    /\ g = Replay(view, ws) /\ g \in Files
    /\ SameUpTo(view.body, g.body, Extent) /\ EndsAt(g.body, n)

\* TrimL leaves nothing behind the last stream or TOC.
LEMMA TrimIs ==
    ASSUME StoreInv, Begin, coord.extend = Nil
    PROVE  /\ Writing(Prepare(TRUE), Replay(view, Prepare(TRUE)), Extent)
           /\ Len(Prepare(TRUE)) \in 0 .. 1
<1>0. /\ view \in Files /\ view.body \in [Pos -> Blocks] /\ phase = "ready" /\ coord.active
    BY DEF StoreInv, TypeInv, Files, Begin, Active
<1>1. /\ Extent \in 0 .. MaxPos /\ coord.toc <= Extent /\ ConsolidateWrites = <<>>
      /\ (tab # Nil => Extent = coord.ext) /\ (tab = Nil => Extent = coord.toc)
    BY ReadyIs DEF Begin
<1>2. Prepare(TRUE) = TrimWrites
    <2>1. TrimWrites \o <<>> = TrimWrites
        BY DEF TrimWrites
    <2> QED BY <1>1, <2>1 DEF Prepare
<1>3. CASE coord.clip /\ \E p \in Pos : p > Extent /\ view.body[p] # Free
    <2> DEFINE n == Extent
               w == [kind |-> "size", pos |-> n]
               ws == <<w>>
               g == Replay(view, ws)
    <2>1. n \in 0 .. MaxPos /\ n >= coord.toc /\ coord.toc \in 0 .. MaxPos
        BY <1>1, BoundsAssumption DEF StoreInv, TypeInv, Coords
    <2>2. Prepare(TRUE) = ws
        BY <1>2, <1>3 DEF TrimWrites
    <2> HIDE DEF n
    <2>3. w \in Sizes /\ w.pos = n
        BY <2>1 DEF Sizes
    <2> HIDE DEF w
    <2>4. w \in Writes /\ Harmless(w, coord)
        BY <2>1, <2>3 DEF Writes, Harmless
    <2>5. ws \in Seq(Writes) /\ Len(ws) = 1 /\ ws[1] = w
        BY <2>4
    <2>6. g = Apply(view, w)
        BY <2>5, ReplayFew
    <2> HIDE DEF ws, g
    <2>7. g \in Files /\ g.body = [p \in Pos |-> IF p > n THEN Free ELSE view.body[p]]
        <3>1. Apply(view, w) \in Files /\ Apply(view, w).body = [p \in Pos |-> IF p > w.pos THEN Free ELSE view.body[p]]
            BY <1>0, <2>3, <2>4, ApplyKinds, Zenon
        <3> QED BY <2>3, <2>6, <3>1
    <2>8. EndsAt(g.body, n)
        BY <2>7 DEF EndsAt
    <2>9. SameUpTo(view.body, g.body, n)
        BY <1>0, <2>1, <2>7, BoundsAssumption DEF SameUpTo, Pos
    <2>10. \A i \in 1 .. Len(ws) : Harmless(ws[i], coord)
        BY <2>4, <2>5
    <2>11. Writing(ws, g, n)
        BY <2>5, <2>7, <2>8, <2>9, <2>10 DEF Writing, g, n
    <2>12. Len(ws) \in 0 .. 1
        BY <2>5
    <2> QED BY <2>2, <2>11, <2>12 DEF n, g
<1>4. CASE ~(coord.clip /\ \E p \in Pos : p > Extent /\ view.body[p] # Free)
    <2>1. Prepare(TRUE) = <<>>
        BY <1>2, <1>4 DEF TrimWrites
    <2>2. Replay(view, <<>>) = view /\ Len(<<>>) \in 0 .. 1 /\ <<>> \in Seq(Writes)
        BY ReplayFew
    <2>3. EndsAt(view.body, Extent)
        <3>1. CASE coord.clip
            BY <1>4, <3>1 DEF EndsAt
        <3>2. CASE ~coord.clip
            <4>1. LastOf(tab, coord) = Extent
                BY <1>1 DEF LastOf
            <4> QED BY <1>0, <3>2, <4>1 DEF StoreInv, TrimInv
        <3> QED BY <3>1, <3>2
    <2>4. Writing(<<>>, view, Extent)
        BY <1>0, <2>2, <2>3 DEF Writing, SameUpTo
    <2> QED BY <2>1, <2>2, <2>4
<1> QED BY <1>3, <1>4

\* A block is written behind it.
LEMMA AppendIs ==
    ASSUME StoreInv, Begin, coord.extend = Nil, Extent < MaxPos, NEW x \in Blocks
    PROVE  LET ws == Prepare(TRUE) \o <<[kind |-> "block", pos |-> Extent + 1, block |-> x]>> IN
           /\ Writing(ws, Replay(view, ws), Extent + 1) /\ Len(ws) \in 0 .. 2
           /\ Replay(view, ws).body[Extent + 1] = x
<1> DEFINE vs == Prepare(TRUE)
           g == Replay(view, vs)
           n == Extent
           w == [kind |-> "block", pos |-> n + 1, block |-> x]
           ws == vs \o <<w>>
           f == Replay(view, ws)
<1>1. Writing(vs, g, n) /\ Len(vs) \in 0 .. 1
    BY TrimIs
<1>2. n \in 0 .. MaxPos /\ n < MaxPos /\ coord.toc <= n /\ coord.toc \in 0 .. MaxPos
    BY ReadyIs DEF Begin, StoreInv, TypeInv, Coords
<1> HIDE DEF vs, n
<1>3. n + 1 \in Pos /\ n + 1 > coord.toc
    BY <1>2, BoundsAssumption DEF Pos
<1>4. w \in BlockWrites /\ w.pos = n + 1 /\ w.block = x
    BY <1>3 DEF BlockWrites
<1> HIDE DEF w
<1>5. w \in Writes /\ Harmless(w, coord)
    BY <1>3, <1>4 DEF Writes, Harmless
<1>6. /\ vs \in Seq(Writes) /\ \A i \in 1 .. Len(vs) : Harmless(vs[i], coord)
      /\ g \in Files /\ SameUpTo(view.body, g.body, n) /\ EndsAt(g.body, n)
    BY <1>1 DEF Writing, n
<1>7. /\ ws \in Seq(Writes) /\ Len(ws) = Len(vs) + 1 /\ ws[Len(vs) + 1] = w
      /\ \A i \in 1 .. Len(vs) : ws[i] = vs[i]
    BY <1>5, <1>6
<1>8. Len(ws) \in 0 .. 2
    <2> HIDE DEF ws
    <2> QED BY <1>1, <1>7
<1>9. f = Apply(g, w)
    <2> HIDE DEF ws
    <2>1. CASE Len(vs) = 0
        <3>1. Len(ws) = 1 /\ ws[1] = w
            BY <1>7, <2>1
        <3> QED BY <2>1, <3>1, ReplayFew
    <2>2. CASE Len(vs) = 1
        <3>1. Len(ws) = 2 /\ ws[2] = w /\ ws[1] = vs[1]
            BY <1>7, <2>2
        <3> QED BY <2>2, <3>1, ReplayFew
    <2> QED BY <1>1, <2>1, <2>2
<1>10. \A i \in 1 .. Len(ws) : Harmless(ws[i], coord)
    <2> HIDE DEF ws
    <2> QED BY <1>1, <1>5, <1>6, <1>7
<1> HIDE DEF ws, f, g
<1>11. f \in Files /\ f.body = [g.body EXCEPT ![n + 1] = x] /\ g.body \in [Pos -> Blocks]
    <2>1. Apply(g, w) \in Files /\ Apply(g, w).body = [g.body EXCEPT ![w.pos] = w.block]
        BY <1>4, <1>5, <1>6, ApplyKinds, Zenon
    <2>2. g.body \in [Pos -> Blocks]
        BY <1>6 DEF Files
    <2> QED BY <1>4, <1>9, <2>1, <2>2
<1>12. f.body[n + 1] = x
    BY <1>3, <1>11
<1>13. EndsAt(f.body, n + 1)
    BY <1>2, <1>3, <1>6, <1>11, BoundsAssumption DEF EndsAt, Pos
<1>14. SameUpTo(view.body, f.body, n)
    <2>1. \A p \in 1 .. n : p \in Pos /\ p # n + 1
        BY <1>2, BoundsAssumption DEF Pos
    <2>2. \A p \in 1 .. n : f.body[p] = g.body[p]
        BY <1>11, <2>1
    <2> QED BY <1>6, <2>2 DEF SameUpTo
<1>15. Writing(ws, f, n + 1)
    BY <1>7, <1>10, <1>11, <1>13, <1>14 DEF Writing, f, n
<1> QED BY <1>8, <1>12, <1>15 DEF ws, f, w, vs, n

LEMMA WritingQuiet ==
    ASSUME StoreInv, Begin, NEW ws, NEW n, Writing(ws, Replay(view, ws), n), Len(ws) \in 0 .. 2,
           Write(ws), disk' = disk
    PROVE  /\ QuietStep /\ view' = Replay(view, ws) /\ view'.body \in [Pos -> Blocks]
           /\ SameUpTo(view.body, view'.body, Extent) /\ EndsAt(view'.body, n)
<1>1. coord.active /\ wq = <<>> /\ ws \in Seq(Writes) /\ \A i \in 1 .. Len(ws) : Harmless(ws[i], coord)
    BY DEF Begin, Active, Writing
<1>2. Len(ws) <= 3
    <2> DEFINE m == Len(ws)
    <2>1. m \in 0 .. 2
        OBVIOUS
    <2> HIDE DEF m
    <2>2. m <= 3
        BY <2>1
    <2> QED BY <2>2 DEF m
<1>3. QuietStep /\ view' = Replay(view, ws)
    BY <1>1, <1>2, QuietWrites
<1>4. /\ Replay(view, ws).body \in [Pos -> Blocks]
      /\ SameUpTo(view.body, Replay(view, ws).body, Extent) /\ EndsAt(Replay(view, ws).body, n)
    BY DEF Writing, Files
<1> QED BY <1>3, <1>4

\* The table stays in use while the file behind what it uses changes.
LEMMA BehindStep ==
    ASSUME StoreInv, Begin, NEW u, NEW l \in Coords, NEW c, NEW rd, NEW rt,
           Using(u, view.body, l, c, rd, rt), l.ext = Extent, l.extend = Nil \/ l.extend.pos = Empty,
           view'.body \in [Pos -> Blocks], SameUpTo(view.body, view'.body, Extent)
    PROVE  Using(u, view'.body, l, c, rd, rt) /\ Snap(u, view'.body, rt) = Snap(u, view.body, rt)
BY UsingBehind

LEMMA LoadedIs ==
    ASSUME StoreInv, Begin
    PROVE  /\ Loaded \in Coords /\ Loaded.toc = coord.toc /\ Loaded.ext = Extent
           /\ Loaded.extend = coord.extend
           /\ Using(Table, view.body, Loaded, cache, reader, root) /\ Table \in Tables /\ Table # Nil
           /\ Consolidated = Table /\ ConsolidatedCache = cache /\ ConsolidateWrites = <<>>
           /\ Current = Snap(Table, view.body, root)
<1>1. /\ Using(Table, view.body, Loaded, cache, reader, root) /\ Table \in Tables /\ Table # Nil
      /\ Loaded = ACoord(coord.active, coord.toc, coord.backup, coord.clip, Extent, coord.extend)
      /\ Consolidated = Table /\ ConsolidatedCache = cache /\ ConsolidateWrites = <<>>
      /\ AbsCurrent = Snap(Table, view.body, root)
    BY ReadyIs DEF Begin
<1>2. Loaded.toc = coord.toc /\ Loaded.ext = Extent /\ Loaded.extend = coord.extend
    BY <1>1 DEF ACoord
<1>3. Loaded \in Coords
    BY <1>1, UsingIs
<1> QED BY <1>1, <1>2, <1>3, AbsInv

LEMMA StepCommitUnchanged == ASSUME StoreInv, CommitUnchanged PROVE StoreInv' /\ Refines
<1> DEFINE ws == Prepare(TRUE)
<1>0. /\ Begin /\ Active /\ coord.active /\ phase = "ready" /\ coord.extend = Nil
      /\ Write(ws) /\ tab' = Consolidated /\ cache' = ConsolidatedCache /\ coord' = Prepared(TRUE)
      /\ UNCHANGED <<disk, coll, reader, root, phase>>
    BY DEF CommitUnchanged, Begin, Active
<1>1. /\ Loaded \in Coords /\ Loaded.toc = coord.toc /\ Loaded.ext = Extent /\ Loaded.extend = Nil
      /\ Using(Table, view.body, Loaded, cache, reader, root) /\ Table # Nil
      /\ tab' = Table /\ cache' = cache
      /\ Current = Snap(Table, view.body, root)
    BY <1>0, LoadedIs
<1>2. Writing(ws, Replay(view, ws), Extent) /\ Len(ws) \in 0 .. 2
    <2> DEFINE m == Len(ws)
    <2>1. Writing(ws, Replay(view, ws), Extent) /\ m \in 0 .. 1
        BY <1>0, TrimIs
    <2> HIDE DEF m
    <2>2. m \in 0 .. 2
        BY <2>1
    <2> QED BY <2>1, <2>2 DEF m
<1>3. /\ QuietStep /\ view'.body \in [Pos -> Blocks]
      /\ SameUpTo(view.body, view'.body, Extent) /\ EndsAt(view'.body, Extent)
    <2> HIDE DEF ws
    <2> QED BY <1>0, <1>2, WritingQuiet
<1>4. /\ Using(Table, view'.body, Loaded, cache, reader, root)
      /\ Snap(Table, view'.body, root) = Snap(Table, view.body, root)
    BY <1>0, <1>1, <1>3, BehindStep
<1>5. /\ coord' \in Coords /\ coord'.active /\ coord'.toc = coord.toc /\ coord'.backup = coord.backup
      /\ coord'.ext = Extent /\ coord'.extend = Nil
    BY <1>0, PreparedIs DEF IsCoord
<1>6. Using(tab', view'.body, coord', cache', reader', root')
    BY <1>0, <1>1, <1>4, <1>5, UsingCoord
<1>7. TrimInv'
    <2>1. LastOf(tab', coord') = Extent
        BY <1>1, <1>5 DEF LastOf
    <2> QED BY <1>0, <1>3, <2>1 DEF TrimInv
<1>8. TableStep
    BY <1>0, <1>1, <1>5, <1>6, <1>7 DEF TableStep, StoreInv, TypeInv
<1>9. StoreInv' /\ Stable' = Stable /\ Current' = Snap(tab', view'.body, root')
    BY <1>0, <1>3, <1>8, ReadyStep
<1>10. Current' = Current
    BY <1>0, <1>1, <1>4, <1>9
<1> QED BY <1>9, <1>10, RefinesIf

LEMMA StepCommitToc == ASSUME StoreInv, CommitToc PROVE StoreInv' /\ Refines
<1> DEFINE x == Realize(Table, view.body, root)
           ws == Prepare(TRUE) \o <<[kind |-> "block", pos |-> Extent + 1, block |-> x]>>
<1>0. /\ Begin /\ Active /\ coord.active /\ phase = "ready" /\ coord.extend = Nil
      /\ Table.virtual /\ Extent < MaxPos /\ tab' = Consolidated /\ cache' = cache
      /\ coord' = [Prepared(TRUE) EXCEPT !.clip = TRUE] /\ phase' = "toc"
      /\ UNCHANGED <<disk, coll, reader, root>>
    BY DEF CommitToc, Begin, Active
<1>1. /\ Loaded \in Coords /\ Loaded.toc = coord.toc /\ Loaded.ext = Extent /\ Loaded.extend = Nil
      /\ Using(Table, view.body, Loaded, cache, reader, root) /\ Table # Nil /\ Consolidated = Table
      /\ tab' = Table
      /\ Current = Snap(Table, view.body, root)
    BY <1>0, LoadedIs
<1>2. Write(ws)
    BY <1>1 DEF CommitToc
<1>3. Extent \in 0 .. MaxPos /\ view.body \in [Pos -> Blocks] /\ Based(Table, view.body, Extent)
    BY <1>1, UsingIs
<1>4. x \in Blocks
    <2> DEFINE hi == Extent
    <2>1. hi \in 0 .. MaxPos /\ Based(Table, view.body, hi) /\ root \in Handles \cup {Nil}
        BY <1>3 DEF StoreInv, TypeInv
    <2> HIDE DEF hi
    <2> QED BY <1>3, <2>1, RealizeType
<1>5. /\ Writing(ws, Replay(view, ws), Extent + 1) /\ Len(ws) \in 0 .. 2
      /\ Replay(view, ws).body[Extent + 1] = x
    <2> HIDE DEF x
    <2> QED BY <1>0, <1>4, AppendIs
<1>6. /\ QuietStep /\ view'.body \in [Pos -> Blocks] /\ view' = Replay(view, ws)
      /\ SameUpTo(view.body, view'.body, Extent) /\ EndsAt(view'.body, Extent + 1)
    <2> DEFINE n == Extent + 1
    <2> HIDE DEF ws, n
    <2>1. Writing(ws, Replay(view, ws), n)
        BY <1>5 DEF n
    <2>2. /\ QuietStep /\ view'.body \in [Pos -> Blocks] /\ view' = Replay(view, ws)
          /\ SameUpTo(view.body, view'.body, Extent) /\ EndsAt(view'.body, n)
        BY <1>0, <1>2, <1>5, <2>1, WritingQuiet
    <2> QED BY <2>2 DEF n
<1> HIDE DEF ws
<1>7. /\ Using(Table, view'.body, Loaded, cache, reader, root)
      /\ Snap(Table, view'.body, root) = Snap(Table, view.body, root)
    BY <1>0, <1>1, <1>6, BehindStep
<1>8. /\ coord' \in Coords /\ coord'.active /\ coord'.toc = coord.toc /\ coord'.backup = coord.backup
      /\ coord'.ext = Extent /\ coord'.extend = Nil /\ coord'.clip = TRUE
    <2> DEFINE yes == TRUE
               k == Prepared(TRUE)
    <2>1. /\ k \in Coords /\ k.active = coord.active /\ k.toc = coord.toc /\ k.backup = coord.backup
          /\ k.ext = Extent /\ k.extend = Nil /\ yes \in BOOLEAN /\ yes = TRUE
        BY <1>0, PreparedIs DEF IsCoord
    <2>2. coord' = [k EXCEPT !.clip = yes]
        BY <1>0
    <2> HIDE DEF yes, k
    <2>3. IsCoord(coord', k.active, k.toc, k.backup, yes, k.ext, k.extend)
        BY <2>1, <2>2, CoordClip
    <2> QED BY <1>0, <2>1, <2>3 DEF IsCoord
<1>9. Using(tab', view'.body, coord', cache', reader', root')
    BY <1>0, <1>1, <1>7, <1>8, UsingCoord
<1>10. Realize(Table, view'.body, root) = x
    <2> DEFINE hi == Extent
    <2>1. hi \in 0 .. MaxPos /\ Based(Table, view.body, hi) /\ SameUpTo(view.body, view'.body, hi)
        BY <1>3, <1>6
    <2> HIDE DEF hi
    <2>2. Image(Table, view'.body) = Image(Table, view.body)
        BY <1>3, <1>6, <2>1, SameGood
    <2> QED BY <2>2 DEF Realize, Image
<1>11. TrimInv'
    <2>1. view'.body[Extent + 1] = Realize(Table, view'.body, root)
        BY <1>5, <1>6, <1>10
    <2>2. root' = root /\ tab' = Table /\ coord'.ext = Extent
        BY <1>0, <1>1, <1>8
    <2>3. view'.body[coord'.ext + 1] = Realize(tab', view'.body, root') /\ EndsAt(view'.body, coord'.ext + 1)
        BY <1>6, <2>1, <2>2
    <2> QED BY <1>0, <1>1, <1>8, <2>3 DEF TrimInv
<1>12. TableStep
    BY <1>0, <1>1, <1>8, <1>9, <1>11 DEF TableStep, StoreInv, TypeInv
<1>13. StoreInv' /\ Stable' = Stable /\ Current' = Snap(tab', view'.body, root')
    BY <1>0, <1>6, <1>12, ReadyStep
<1>14. Current' = Current
    BY <1>0, <1>1, <1>7, <1>13
<1> QED BY <1>13, <1>14, RefinesIf

\* The coordinator while stream h is written to slot p.
Starting(h, new, p) == [Prepared(TRUE) EXCEPT !.extend = [h |-> h, new |-> new, pos |-> p]]

IsStarting(l, h, new, p) ==
    /\ IsCoord(l, coord.active, coord.toc, coord.backup, FALSE, Extent, l.extend)
    /\ l.extend # Nil /\ l.extend.h = h /\ l.extend.new = new /\ l.extend.pos = p

LEMMA StartingIs ==
    ASSUME StoreInv, Begin, NEW h \in Handles, NEW new \in BOOLEAN, NEW p \in Pos \cup {Empty}
    PROVE  IsStarting(Starting(h, new, p), h, new, p)
<1> DEFINE e == [h |-> h, new |-> new, pos |-> p]
           k == Prepared(TRUE)
           l == [k EXCEPT !.extend = e]
<1>1. e \in Extending /\ e.h = h /\ e.new = new /\ e.pos = p
    BY DEF Extending
<1>2. Starting(h, new, p) = l
    BY DEF Starting
<1>3. IsCoord(k, coord.active, coord.toc, coord.backup, FALSE, Extent, coord.extend)
    BY PreparedIs DEF Begin
<1>4. k \in Coords
    BY <1>3 DEF IsCoord
<1> HIDE DEF e, k
<1>5. e # Nil
    BY <1>1, NilAssumption
<1>6. IsCoord(l, k.active, k.toc, k.backup, k.clip, k.ext, e)
    BY <1>1, <1>4, CoordExtend
<1> HIDE DEF l
<1>7. l.extend = e /\ IsCoord(l, coord.active, coord.toc, coord.backup, FALSE, Extent, l.extend)
    BY <1>3, <1>6 DEF IsCoord
<1> QED BY <1>1, <1>2, <1>5, <1>7 DEF IsStarting

\* A stream is begun: the table u has its entry, the streams are as before.
LEMMA StartStreamStep ==
    ASSUME StoreInv, Begin, NEW h \in Handles, NEW new \in BOOLEAN, NEW d \in Datum, StartStream(h, new, d),
           NEW u \in Tables, NEW c, tab' = u, cache' = c,
           Using(u, view.body, Starting(h, new, Empty), c, reader, root),
           Snap(u, view.body, root) = Snap(Table, view.body, root)
    PROVE  StoreInv' /\ Refines
<1> DEFINE l == Starting(h, new, Empty)
           ws == Prepare(TRUE) \o DataWrites(d)
           n == IF d = Empty THEN Extent ELSE Extent + 1
<1>0. /\ Active /\ coord.active /\ phase = "ready" /\ coord.extend = Nil
      /\ (d # Empty => Extent < MaxPos) /\ Write(ws)
      /\ coord' = Starting(h, new, NewPos(d))
      /\ UNCHANGED <<disk, coll, reader, root, phase>>
    BY DEF StartStream, Begin, Active, Starting
<1>1. /\ Current = Snap(Table, view.body, root) /\ ConsolidateWrites = <<>>
      /\ Extent \in 0 .. MaxPos
    BY LoadedIs, ReadyIs DEF Begin
<1>2. /\ l \in Coords /\ l.toc = coord.toc /\ l.ext = Extent /\ l.extend # Nil
      /\ l.extend.h = h /\ l.extend.new = new /\ l.extend.pos = Empty
    <2>1. Empty \in Pos \cup {Empty}
        OBVIOUS
    <2>2. IsStarting(l, h, new, Empty)
        BY <2>1, StartingIs
    <2> QED BY <2>2 DEF IsStarting, IsCoord
<1>3. /\ Writing(ws, Replay(view, ws), n) /\ Len(ws) \in 0 .. 2
      /\ d # Empty => Replay(view, ws).body[Extent + 1] = DataBlock(d)
    <2>1. CASE d = Empty
        <3> DEFINE m == Len(ws)
                   vs == Prepare(TRUE)
        <3>1. Writing(vs, Replay(view, vs), Extent) /\ Len(vs) \in 0 .. 1
            BY <1>0, TrimIs
        <3> HIDE DEF vs
        <3>2. ws = vs
            <4>1. vs \in Seq(Writes)
                BY <3>1 DEF Writing
            <4>2. vs \o <<>> = vs
                BY <4>1
            <4> QED BY <2>1, <4>2 DEF DataWrites, vs
        <3> HIDE DEF ws
        <3>3. m \in 0 .. 1
            BY <3>1, <3>2
        <3> HIDE DEF m
        <3>4. m \in 0 .. 2
            BY <3>3
        <3> QED BY <2>1, <3>1, <3>2, <3>4 DEF m
    <2>2. CASE d # Empty
        <3> DEFINE x == DataBlock(d)
        <3>1. x \in Blocks
            BY <2>2 DEF Datum, DataBlock, DataBlocks, Blocks
        <3>2. ws = Prepare(TRUE) \o <<[kind |-> "block", pos |-> Extent + 1, block |-> x]>>
            BY <2>2 DEF DataWrites
        <3> HIDE DEF x
        <3>3. /\ Writing(ws, Replay(view, ws), Extent + 1) /\ Len(ws) \in 0 .. 2
              /\ Replay(view, ws).body[Extent + 1] = x
            BY <1>0, <2>2, <3>1, <3>2, AppendIs
        <3> QED BY <2>2, <3>3 DEF x
    <2> QED BY <2>1, <2>2
<1> HIDE DEF ws, n
<1>4. /\ QuietStep /\ view'.body \in [Pos -> Blocks] /\ view' = Replay(view, ws)
      /\ SameUpTo(view.body, view'.body, Extent) /\ EndsAt(view'.body, n)
    BY <1>0, <1>3, WritingQuiet
<1>5. /\ Using(u, view'.body, l, c, reader, root)
      /\ Snap(u, view'.body, root) = Snap(u, view.body, root)
    <2> HIDE DEF l
    <2> QED BY <1>2, <1>4, BehindStep DEF l
<1>6. /\ coord' \in Coords /\ coord'.active /\ coord'.toc = coord.toc /\ coord'.backup = coord.backup
      /\ coord'.ext = Extent /\ coord'.extend # Nil /\ coord'.extend.h = h /\ coord'.extend.new = new
      /\ coord'.extend.pos = NewPos(d)
    <2> DEFINE p == NewPos(d)
    <2>1. p \in Pos \cup {Empty}
        BY <1>0, <1>1, BoundsAssumption DEF NewPos, Pos
    <2> HIDE DEF p
    <2>2. coord' = Starting(h, new, p)
        BY <1>0 DEF p
    <2>3. IsStarting(coord', h, new, p)
        BY <2>1, <2>2, StartingIs
    <2> QED BY <1>0, <2>3 DEF IsStarting, IsCoord, p
<1>7. Using(tab', view'.body, coord', cache', reader', root')
    <2>1. CASE d = Empty
        <3>1. coord' = l
            BY <1>0, <2>1 DEF NewPos
        <3> QED BY <1>0, <1>5, <3>1
    <2>2. CASE d # Empty
        <3>1. view'.body[Extent + 1].kind = "data"
            BY <1>3, <1>4, <2>2 DEF DataBlock
        <3>2. coord'.extend.pos = Extent + 1 /\ Extent < MaxPos
            BY <1>0, <1>6, <2>2 DEF NewPos
        <3> HIDE DEF l
        <3> QED BY <1>0, <1>2, <1>5, <1>6, <3>1, <3>2, UsingPos
    <2> QED BY <2>1, <2>2
<1>8. tab' # Nil
    BY NilAssumption
<1>9. TrimInv'
    <2>1. d # Empty => Extent + 1 # Empty
        BY <1>0, <1>1, NilAssumption, BoundsAssumption DEF Pos
    <2>2. LastOf(tab', coord') = n
        BY <1>6, <1>8, <2>1 DEF LastOf, NewPos, n
    <2> QED BY <1>0, <1>4, <2>2 DEF TrimInv
<1>10. TableStep
    BY <1>0, <1>6, <1>7, <1>8, <1>9 DEF TableStep, StoreInv, TypeInv
<1>11. StoreInv' /\ Stable' = Stable /\ Current' = Snap(tab', view'.body, root')
    BY <1>0, <1>4, <1>10, ReadyStep
<1>12. Current' = Current
    BY <1>0, <1>1, <1>5, <1>11
<1> QED BY <1>11, <1>12, RefinesIf

LEMMA StepCreateL == ASSUME StoreInv, NEW d \in CreateData, CreateL(d) PROVE StoreInv' /\ Refines
<1> DEFINE h == NewHandle(Table)
           u == Created(Table, view.body)
           yes == TRUE
           l == Starting(h, yes, Empty)
<1>0. /\ Begin /\ CanAlloc(Table) /\ tab' = Alloc(Consolidated, view.body, TRUE)
      /\ cache' = ConsolidatedCache /\ StartStream(h, yes, d) /\ coord.extend = Nil
    BY DEF CreateL, StartStream
<1>1. /\ Loaded \in Coords /\ Loaded.toc = coord.toc /\ Loaded.ext = Extent /\ Loaded.extend = Nil
      /\ Using(Table, view.body, Loaded, cache, reader, root) /\ tab' = u /\ cache' = cache
    BY <1>0, LoadedIs DEF Created
<1>2. h \in Handles
    <2> DEFINE hi == Loaded.ext
               made == MadeOf(Loaded)
               inv == FALSE
    <2>1. hi \in 0 .. MaxPos /\ Good(Table, view.body, hi, made) /\ view.body \in [Pos -> Blocks]
        BY <1>1, UsingIs
    <2>2. inv \in BOOLEAN /\ ~inv
        OBVIOUS
    <2> HIDE DEF hi, made, inv, h
    <2>3. IsAllocated(Alloc(Table, view.body, inv), Table, view.body, hi, NewHandle(Table), inv, made)
        BY <1>0, <2>1, <2>2, AllocGood
    <2> QED BY <2>3 DEF IsAllocated, h
<1>3. yes \in BOOLEAN /\ yes = TRUE /\ Empty \in Pos \cup {Empty}
    OBVIOUS
<1> HIDE DEF yes
<1>4. /\ l \in Coords /\ l.toc = Loaded.toc /\ l.ext = Loaded.ext /\ l.extend # Nil
      /\ l.extend.h = h /\ l.extend.new /\ l.extend.pos = Empty
    <2>1. IsStarting(l, h, yes, Empty)
        <3> HIDE DEF h
        <3> QED BY <1>0, <1>2, <1>3, StartingIs
    <2> QED BY <1>1, <1>3, <2>1 DEF IsStarting, IsCoord
<1> HIDE DEF l
<1>5. /\ Using(u, view.body, l, cache, reader, root) /\ Snap(u, view.body, root) = Snap(Table, view.body, root)
      /\ u \in Tables
    <2> DEFINE b == view.body
    <2>1. Using(Table, b, Loaded, cache, reader, root)
        BY <1>1
    <2>2. l.toc = Loaded.toc /\ l.ext = Loaded.ext /\ l.extend.h = NewHandle(Table)
        BY <1>4
    <2> HIDE DEF b, h
    <2>3. CanAlloc(Table) /\ Loaded.extend = Nil
        BY <1>0, <1>1
    <2>4. /\ Using(Created(Table, b), b, l, cache, reader, root)
          /\ Snap(Created(Table, b), b, root) = Snap(Table, b, root) /\ Created(Table, b) \in Tables
        BY <1>4, <2>1, <2>2, <2>3, UsingCreate
    <2> QED BY <2>4 DEF b
<1>6. d \in Datum
    BY BoundsAssumption DEF Datum
<1> HIDE DEF h, u
<1> QED BY <1>0, <1>1, <1>2, <1>3, <1>5, <1>6, StartStreamStep DEF l

LEMMA StepReplaceL ==
    ASSUME StoreInv, NEW h \in Handles, NEW d \in ReplaceData, ReplaceL(h, d) PROVE StoreInv' /\ Refines
<1> DEFINE e == EntryAt(Table, view.body, h[1])
           u == Fetch(Table, h[1], e)
           c == IF h \in DOMAIN cache THEN cache ELSE Put(cache, h, e.ref)
           no == FALSE
           l == Starting(h, no, Empty)
<1>0. Begin /\ Active /\ h \in Live(Table, view.body) /\ StartStream(h, no, d) /\ coord.extend = Nil
    BY DEF ReplaceL, StartStream, Begin
<1>1. /\ Loaded \in Coords /\ Loaded.toc = coord.toc /\ Loaded.ext = Extent /\ Loaded.extend = Nil
      /\ Using(Table, view.body, Loaded, cache, reader, root)
      /\ Consolidated = Table /\ ConsolidatedCache = cache /\ ConsolidateWrites = <<>>
    BY <1>0, LoadedIs
<1>2. tab' = u /\ cache' = c
    <2>1. Replay(view, <<>>) = view
        BY ReplayFew
    <2> QED BY <1>1, <2>1 DEF ReplaceL
<1>3. no \in BOOLEAN /\ no = FALSE /\ Empty \in Pos \cup {Empty}
    OBVIOUS
<1> HIDE DEF no
<1>4. /\ l \in Coords /\ l.toc = Loaded.toc /\ l.ext = Loaded.ext /\ l.extend # Nil
      /\ l.extend.h = h /\ ~l.extend.new /\ l.extend.pos = Empty
    <2>1. IsStarting(l, h, no, Empty)
        BY <1>0, <1>3, StartingIs
    <2> QED BY <1>1, <1>3, <2>1 DEF IsStarting, IsCoord
<1> HIDE DEF l
<1>5. IsLive(Image(Table, view.body), h)
    BY <1>0, ReadyLive
<1>6. /\ Using(u, view.body, l, c, reader, root) /\ Snap(u, view.body, root) = Snap(Table, view.body, root)
      /\ u \in Tables
    BY <1>1, <1>4, <1>5, UsingReplace
<1>7. d \in Datum
    BY BoundsAssumption DEF Datum
<1> HIDE DEF u, c
<1> QED BY <1>0, <1>2, <1>3, <1>6, <1>7, StartStreamStep DEF l

-----------------------------------------------------------------------------
(* The header of the file *)

\* A commit leaves before BeginL has changed the header, and the store goes on.
LEMMA StepCommitFails == ASSUME StoreInv, CommitFails PROVE StoreInv' /\ Refines
<1>0. phase = "toc" /\ phase' = "ready" /\ UNCHANGED <<disk, tab, coord, cache, coll, reader, root>>
    BY DEF CommitFails
<1>1. /\ coord.active /\ tab # Nil /\ coord.clip /\ coord.extend = Nil /\ coord.ext < MaxPos
      /\ coord \in Coords /\ view \in Files
    BY <1>0 DEF StoreInv, HeaderInv, TrimInv, TypeInv
<1>2. Using(tab, view.body, coord, cache, reader, root) /\ Current = Snap(tab, view.body, root)
    BY <1>1, InMemory
<1>3. QuietStep /\ view'.body = view.body
    <2>1. CASE UNCHANGED <<view, wq>>
        BY <1>0, <1>1, <2>1, QuietSame
    <2>2. CASE wq = <<>> /\ coord.backup /\ Write(<<ToBackup(coord)>>)
        <3> DEFINE ws == <<ToBackup(coord)>>
        <3>1. /\ ToBackup(coord) \in Writes
              /\ OnlyHeader(view, Apply(view, ToBackup(coord)), [view.hdr EXCEPT !.backup = coord.toc])
            BY <1>1, CommitWrites, Zenon
        <3>2. Apply(view, ToBackup(coord)).body = view.body
            BY <3>1, Zenon DEF OnlyHeader
        <3>3. Harmless(ToBackup(coord), coord)
            BY <1>1, <2>2 DEF Harmless, ToBackup, Backups, Coords
        <3>4. ws \in Seq(Writes) /\ Len(ws) = 1 /\ ws[1] = ToBackup(coord)
            BY <3>1
        <3>5. Write(ws)
            BY <2>2
        <3> HIDE DEF ws
        <3>6. Len(ws) <= 3 /\ Len(ws) \in 0 .. 3 /\ \A i \in 1 .. Len(ws) : Harmless(ws[i], coord)
            BY <3>3, <3>4
        <3>7. QuietStep /\ view' = Replay(view, ws)
            BY <1>0, <1>1, <2>2, <3>4, <3>5, <3>6, QuietWrites
        <3>8. Replay(view, ws) = Apply(view, ToBackup(coord))
            BY <3>4, <3>6, ReplayFew
        <3> QED BY <3>2, <3>7, <3>8
    <2> QED BY <2>1, <2>2 DEF CommitFails, ToBackup
<1>4. TrimInv'
    BY <1>0, <1>1 DEF TrimInv
<1>5. TableStep
    BY <1>0, <1>1, <1>2, <1>3, <1>4 DEF TableStep, StoreInv, TypeInv
<1>6. StoreInv' /\ Stable' = Stable /\ Current' = Snap(tab', view'.body, root')
    BY <1>1, <1>3, <1>5, ReadyStep
<1>7. Current' = Current
    BY <1>0, <1>2, <1>3, <1>6
<1> QED BY <1>6, <1>7, RefinesIf

\* The writes of BeginL change nothing but the header.
LEMMA SwitchReplay ==
    ASSUME NEW d \in Files, NEW k \in Coords, k.ext < MaxPos, NEW q, Switching(d, q, k)
    PROVE  /\ Replay(d, q) \in Files /\ Replay(d, q).body = d.body /\ Replay(d, q).atomic = d.atomic
           /\ q \in Seq(Writes) /\ Len(q) \in 0 .. 3
<1>1. ASSUME NEW f \in Files, NEW w \in {ToBackup(k), ToNew(k), ToDirty(k), ToClean}
      PROVE  /\ w \in Writes
             /\ Apply(f, w) \in Files /\ Apply(f, w).body = f.body /\ Apply(f, w).atomic = f.atomic
    <2>1. w \in Writes /\ \E h : OnlyHeader(f, Apply(f, w), h)
        BY CommitWrites, Zenon
    <2> QED BY <2>1, Zenon DEF OnlyHeader
<1>2. /\ q \in Seq(Writes) /\ Len(q) \in 0 .. 3
      /\ \A i \in 1 .. Len(q) : q[i] \in {ToBackup(k), ToNew(k), ToDirty(k), ToClean}
    <2>1. {ToBackup(k), ToNew(k), ToDirty(k), ToClean} \subseteq Writes
        BY <1>1
    <2>2. \/ q = <<>> \/ q = <<ToNew(k)>> \/ q = <<ToClean>> \/ q = <<ToDirty(k), ToClean>>
          \/ q = <<ToBackup(k), ToDirty(k), ToClean>>
        BY SwitchingIs
    <2> DEFINE S == {ToBackup(k), ToNew(k), ToDirty(k), ToClean}
    <2>3. \A x, y, z \in S : /\ x \in Writes
                             /\ Len(<<x>>) = 1 /\ Len(<<x, y>>) = 2 /\ Len(<<x, y, z>>) = 3
                             /\ <<x>> \in Seq(S) /\ <<x, y>> \in Seq(S) /\ <<x, y, z>> \in Seq(S)
        <3> HIDE DEF S
        <3> QED BY <2>1 DEF S
    <2>4. ToBackup(k) \in S /\ ToNew(k) \in S /\ ToDirty(k) \in S /\ ToClean \in S
        OBVIOUS
    <2>5. S \subseteq Writes
        BY <2>1
    <2> HIDE DEF S
    <2>6. <<>> \in Seq(S) /\ Len(<<>>) = 0
        OBVIOUS
    <2>7. q \in Seq(S) /\ Len(q) \in 0 .. 3
        <3>1. q \in Seq(S) /\ (Len(q) = 0 \/ Len(q) = 1 \/ Len(q) = 2 \/ Len(q) = 3)
            BY <2>2, <2>3, <2>4, <2>6, Zenon
        <3> QED BY <3>1
    <2>8. q \in Seq(Writes) /\ \A i \in 1 .. Len(q) : q[i] \in S
        BY <2>5, <2>7
    <2> QED BY <2>7, <2>8 DEF S
<1> DEFINE S == {ToBackup(k), ToNew(k), ToDirty(k), ToClean}
           f1 == Apply(d, q[1])
           f2 == Apply(f1, q[2])
           f3 == Apply(f2, q[3])
           m == Len(q)
<1>3. /\ m = 0 => Replay(d, q) = d
      /\ m = 1 => Replay(d, q) = f1
      /\ m = 2 => Replay(d, q) = f2
      /\ m = 3 => Replay(d, q) = f3
    BY <1>2, ReplayFew
<1>4. m \in 0 .. 3 /\ \A i \in 1 .. m : q[i] \in S
    BY <1>2
<1>5. ASSUME NEW f \in Files, NEW w \in S
      PROVE  Apply(f, w) \in Files /\ Apply(f, w).body = f.body /\ Apply(f, w).atomic = f.atomic
    BY <1>1
<1> HIDE DEF S, m
<1>6. m >= 1 => f1 \in Files /\ f1.body = d.body /\ f1.atomic = d.atomic
    <2>1. m >= 1 => q[1] \in S
        BY <1>4
    <2> QED BY <1>5, <2>1
<1> HIDE DEF f1
<1>7. m >= 2 => f2 \in Files /\ f2.body = d.body /\ f2.atomic = d.atomic
    <2>1. m >= 2 => q[2] \in S /\ m >= 1
        BY <1>4
    <2> QED BY <1>5, <1>6, <2>1
<1> HIDE DEF f2
<1>8. m >= 3 => f3 \in Files /\ f3.body = d.body /\ f3.atomic = d.atomic
    <2>1. m >= 3 => q[3] \in S /\ m >= 2
        BY <1>4
    <2> QED BY <1>5, <1>7, <2>1
<1> HIDE DEF f3
<1>9. Replay(d, q) \in Files /\ Replay(d, q).body = d.body /\ Replay(d, q).atomic = d.atomic
    <2>1. m = 0 \/ m = 1 \/ m = 2 \/ m = 3
        BY <1>4
    <2> QED BY <1>3, <1>6, <1>7, <1>8, <2>1
<1> QED BY <1>2, <1>9

LEMMA SwitchingSame ==
    ASSUME NEW d, NEW q, NEW k, NEW l, l.toc = k.toc, l.ext = k.ext, Switching(d, q, k)
    PROVE  Switching(d, q, l)
<1>1. NewHeader(l) = NewHeader(k) /\ DirtyHeader(l) = DirtyHeader(k)
    BY DEF NewHeader, DirtyHeader
<1> QED BY <1>1 DEF Switching

\* BeginL: the writes that make the header point to the new TOC are queued.
LEMMA StepCommitHeader == ASSUME StoreInv, CommitHeader PROVE StoreInv' /\ Refines
<1> DEFINE q == HeaderWrites(NewHeader(coord))
<1>0. /\ phase = "toc" /\ wq = <<>> /\ phase' = "header"
      /\ coord' = [coord EXCEPT !.backup = BackupAfter, !.active = FALSE]
      /\ UNCHANGED <<disk, tab, cache, coll, reader, root>> /\ Write(q)
    BY DEF CommitHeader, NewHeader
<1>1. /\ coord.active /\ tab # Nil /\ tab.virtual /\ coord.clip /\ coord.extend = Nil /\ coord.ext < MaxPos
      /\ coord \in Coords /\ view \in Files /\ disk \in Files /\ tab \in Tables
      /\ FileOK(disk, view, wq, coord) /\ Quiet(disk, view, wq, coord)
    BY <1>0 DEF StoreInv, HeaderInv, TrimInv, TypeInv, FileInv
<1>2. view = disk
    <2>1. view = Replay(disk, wq)
        BY <1>1 DEF FileOK
    <2> QED BY <1>0, <2>1, ReplayFew
<1>3. Switching(view, q, coord) /\ q # <<>>
    <2>1. HeaderKnown(view.hdr, coord)
        BY <1>1 DEF Quiet
    <2>2. CASE view.atomic
        <3>1. q = <<ToNew(coord)>>
            BY <2>2 DEF HeaderWrites, ToNew
        <3> HIDE DEF q
        <3> QED BY <2>1, <2>2, <3>1, SwitchingIs DEF HeaderKnown
    <2>3. CASE ~view.atomic
        <3> DEFINE h == [NewHeader(coord) EXCEPT !.dirty = TRUE]
        <3>1. h = DirtyHeader(coord)
            BY <1>1, HeadersOfCommit
        <3>2. q = (IF coord.backup THEN <<[kind |-> "backup", toc |-> coord.toc]>> ELSE <<>>)
                    \o <<[kind |-> "header", hdr |-> h], [kind |-> "clean"]>>
            BY <2>3 DEF HeaderWrites
        <3> HIDE DEF h, q
        <3>3. q = (IF coord.backup THEN <<ToBackup(coord)>> ELSE <<>>) \o <<ToDirty(coord), ToClean>>
            BY <3>1, <3>2, Zenon DEF ToBackup, ToDirty, ToClean
        <3>4. CASE coord.backup
            <4>1. q = <<ToBackup(coord)>> \o <<ToDirty(coord), ToClean>>
                BY <3>3, <3>4
            <4>2. \A x, y, z \in Writes : <<x>> \o <<y, z>> = <<x, y, z>>
                <5> TAKE x, y, z \in Writes
                <5> DEFINE s == <<x>> \o <<y, z>>
                           r == <<x, y, z>>
                <5>1. s \in Seq(Writes) /\ r \in Seq(Writes) /\ Len(s) = 3 /\ Len(r) = 3
                    OBVIOUS
                <5>2. s[1] = x /\ s[2] = y /\ s[3] = z
                    OBVIOUS
                <5>3. r[1] = x /\ r[2] = y /\ r[3] = z
                    OBVIOUS
                <5> HIDE DEF s, r
                <5>4. \A i \in 1 .. 3 : s[i] = r[i]
                    <6>1. \A i \in 1 .. 3 : i = 1 \/ i = 2 \/ i = 3
                        OBVIOUS
                    <6> QED BY <5>2, <5>3, <6>1
                <5>5. s = r
                    BY <5>1, <5>4, SeqEqual
                <5> QED BY <5>5 DEF s, r
            <4>3. q = <<ToBackup(coord), ToDirty(coord), ToClean>>
                <5>1. ToBackup(coord) \in Writes /\ ToDirty(coord) \in Writes /\ ToClean \in Writes
                    BY <1>1, CommitWrites, Zenon
                <5> QED BY <4>1, <4>2, <5>1, Zenon
            <4> QED BY <2>1, <2>3, <3>4, <4>3, SwitchingIs DEF HeaderKnown
        <3>5. CASE ~coord.backup
            <4>1. q = <<>> \o <<ToDirty(coord), ToClean>>
                BY <3>3, <3>5
            <4>2. q = <<ToDirty(coord), ToClean>>
                BY <4>1
            <4> QED BY <2>1, <2>3, <3>5, <4>2, SwitchingIs DEF HeaderKnown
        <3> QED BY <3>4, <3>5
    <2> QED BY <2>2, <2>3
<1> HIDE DEF q
<1>4. /\ Replay(view, q) \in Files /\ Replay(view, q).body = view.body /\ Replay(view, q).atomic = view.atomic
      /\ q \in Seq(Writes) /\ Len(q) \in 0 .. 3
    BY <1>1, <1>3, SwitchReplay
<1>5. wq' = q /\ view' = Replay(view, q)
    BY <1>0, <1>4 DEF Write
<1>6. view' \in Files /\ view'.body = view.body /\ view'.atomic = view.atomic
    BY <1>4, <1>5
<1>7. /\ coord' \in Coords /\ ~coord'.active /\ coord'.toc = coord.toc /\ coord'.ext = coord.ext
      /\ coord'.clip = coord.clip /\ coord'.extend = coord.extend
    <2> DEFINE b == BackupAfter
               a == FALSE
    <2>1. b \in BOOLEAN /\ a \in BOOLEAN /\ ~a
        BY <1>1 DEF BackupAfter, Coords, Files
    <2>2. coord' = [coord EXCEPT !.backup = b, !.active = a]
        BY <1>0
    <2> HIDE DEF a, b
    <2>3. IsCoord(coord', a, coord.toc, b, coord.clip, coord.ext, coord.extend)
        BY <1>1, <2>1, <2>2, CoordBackupActive
    <2> QED BY <2>1, <2>3 DEF IsCoord
<1>8. TypeInv'
    BY <1>0, <1>4, <1>5, <1>6, <1>7 DEF StoreInv, TypeInv
<1>9. FileInv'
    <2> DEFINE m == Len(q)
    <2>1. m \in 0 .. 3
        BY <1>4
    <2>2. m <= 3
        <3> HIDE DEF m
        <3> QED BY <2>1
    <2>3. SameUpTo(disk.body, view'.body, coord'.toc) /\ disk.atomic = view'.atomic
        BY <1>2, <1>6 DEF SameUpTo
    <2>4. view' = Replay(disk, q)
        BY <1>2, <1>5
    <2>5. Good(Load(view.body, coord.toc, 0), view.body, coord.toc, {}) /\ Load(view.body, coord.toc, 0).off = coord.toc
        BY <1>1 DEF FileOK
    <2>6. FileOK(disk, view', q, coord')
        BY <1>6, <1>7, <2>2, <2>3, <2>4, <2>5 DEF FileOK
    <2> QED BY <1>0, <1>5, <2>6 DEF FileInv
<1>10. HeaderInv'
    <2>1. Switching(disk, q, coord')
        BY <1>2, <1>3, <1>7, SwitchingSame
    <2>2. Switching(disk', wq', coord')
        BY <1>0, <1>5, <2>1
    <2> QED BY <1>0, <1>2, <1>6, <1>7, <2>2 DEF HeaderInv
<1>11. TableInv'
    <2>1. Using(tab, view.body, coord, cache, reader, root)
        BY <1>1, InMemory
    <2>2. Using(tab, view.body, coord', cache, reader, root)
        BY <1>7, <2>1, UsingCoord
    <2> QED BY <1>0, <1>6, <2>2 DEF TableInv, Using
<1>12. NoTableInv'
    BY <1>0, <1>1 DEF NoTableInv
<1>13. TrimInv'
    <2>1. view.body[coord.ext + 1] = Realize(tab, view.body, root) /\ EndsAt(view.body, coord.ext + 1)
        BY <1>0 DEF StoreInv, TrimInv
    <2> QED BY <1>0, <1>1, <1>6, <1>7, <2>1 DEF TrimInv
<1>14. StoreInv'
    BY <1>8, <1>9, <1>10, <1>11, <1>12, <1>13 DEF StoreInv
<1>15. AbsStable' = AbsStable
    BY <1>0, <1>3, <1>5, <1>6, <1>7 DEF AbsStable
<1>16. AbsCurrent' = AbsCurrent
    <2>1. HasTable /\ HasTable'
        BY <1>0, <1>1 DEF HasTable, Usable
    <2> QED BY <1>0, <1>6, <2>1 DEF AbsCurrent, MemorySnap
<1> QED BY <1>14, <1>15, <1>16, AbsInv, AbsNext, RefinesIf

\* The header names the new TOC: what is in memory is the commit point.
LEMMA HeaderWritten ==
    ASSUME StoreInv, phase = "header", wq = <<>>
    PROVE  /\ view = disk /\ disk.hdr = NewHeader(coord) /\ coord.ext < MaxPos /\ coord.extend = Nil
           /\ tab \in Tables /\ Using(tab, view.body, coord, cache, reader, root)
           /\ EndsAt(view.body, coord.ext + 1)
           /\ IsWritten(Written(tab, coord.ext + 1, root), tab, view.body, coord.ext, root, view.body)
           /\ CommitSnap(view.body, coord.ext + 1) = MemorySnap
<1> DEFINE hi == coord.ext
           u == Written(tab, hi + 1, root)
           b == view.body
<1>1. /\ tab # Nil /\ coord.extend = Nil /\ coord.ext < MaxPos /\ EndsAt(view.body, coord.ext + 1)
      /\ view.body[coord.ext + 1] = Realize(tab, view.body, root)
      /\ Switching(disk, wq, coord)
    BY DEF StoreInv, TrimInv, HeaderInv
<1>2. view = disk
    <2>1. view = Replay(disk, wq)
        BY DEF StoreInv, FileInv, FileOK
    <2> QED BY <2>1, ReplayFew
<1>3. disk.hdr = NewHeader(coord)
    BY <1>1, SwitchingIs
<1>4. Using(tab, b, coord, cache, reader, root)
    BY <1>1 DEF StoreInv, TypeInv, TableInv, Usable, Using, IsCache, Files
<1>5. /\ b \in [Pos -> Blocks] /\ hi \in 0 .. MaxPos /\ tab \in Tables /\ Good(tab, b, hi, MadeOf(coord))
    BY <1>4, UsingIs
<1>6. MadeOf(coord) = {}
    BY <1>1 DEF MadeOf
<1>7. hi \in 0 .. MaxPos - 1 /\ root \in Handles \cup {Nil}
    BY <1>1, <1>5, BoundsAssumption DEF StoreInv, TypeInv
<1> HIDE DEF hi, b
<1>8. IsWritten(u, tab, b, hi, root, b)
    <2>1. SameUpTo(b, b, hi)
        BY DEF SameUpTo
    <2>2. b[hi + 1] = Realize(tab, b, root)
        BY <1>1 DEF hi, b
    <2>3. MayWrite(tab, b, hi, root, b)
        BY <1>5, <1>6, <1>7, <2>1, <2>2 DEF MayWrite
    <2> QED BY <2>3, WrittenIs
<1> HIDE DEF u
<1>9. CommitSnap(b, hi + 1) = Snap(tab, b, root)
    <2>1. Load(b, hi + 1, 0) = u /\ u.primary = root /\ Image(u, b) = Image(tab, b)
        BY <1>8 DEF IsWritten
    <2> QED BY <2>1 DEF CommitSnap, Snap
<1> QED BY <1>1, <1>2, <1>3, <1>4, <1>5, <1>8, <1>9 DEF u, hi, b, MemorySnap

\* The end of CommitL: the table in memory is the one of the new TOC.
LEMMA StepCommitEnd == ASSUME StoreInv, CommitEnd PROVE StoreInv' /\ Refines
<1> DEFINE hi == coord.ext
           n == hi + 1
           b == view.body
<1>0. /\ phase = "header" /\ wq = <<>> /\ tab' = Adopt(tab, n, root) /\ phase' = "ready" /\ coll' = Nil
      /\ coord' = [coord EXCEPT !.active = TRUE, !.toc = n, !.ext = n, !.backup = TRUE, !.clip = FALSE]
      /\ UNCHANGED <<disk, view, wq, cache, reader, root>>
    BY DEF CommitEnd
<1>1. /\ view = disk /\ disk.hdr = NewHeader(coord) /\ coord.ext < MaxPos /\ coord.extend = Nil
      /\ tab \in Tables /\ Using(tab, b, coord, cache, reader, root)
      /\ EndsAt(b, n) /\ IsWritten(Written(tab, n, root), tab, b, hi, root, b)
      /\ CommitSnap(b, n) = MemorySnap
    BY <1>0, HeaderWritten
<1>2. coord \in Coords /\ hi \in 0 .. MaxPos /\ b \in [Pos -> Blocks]
    BY <1>1, UsingIs
<1>3. n \in 0 .. MaxPos /\ n \in Pos
    BY <1>1, <1>2, BoundsAssumption DEF Pos
<1>4. tab' = Written(tab, n, root)
    <2> HIDE DEF n
    <2> QED BY <1>0, <1>1, AdoptIs
<1>5. /\ Load(b, n, 0) = tab' /\ Good(tab', b, n, {}) /\ Image(tab', b) = Image(tab, b)
      /\ tab'.off = n /\ tab'.primary = root /\ tab'.virtual = FALSE
    BY <1>1, <1>4 DEF IsWritten
<1>6. /\ coord' \in Coords /\ coord'.active /\ coord'.toc = n /\ coord'.backup /\ ~coord'.clip
      /\ coord'.ext = n /\ coord'.extend = Nil
    <2> DEFINE yes == TRUE
               no == FALSE
    <2>1. yes \in BOOLEAN /\ no \in BOOLEAN /\ yes /\ ~no
        OBVIOUS
    <2>2. coord' = [coord EXCEPT !.active = yes, !.toc = n, !.ext = n, !.backup = yes, !.clip = no]
        BY <1>0
    <2> HIDE DEF yes, no, n
    <2>3. IsCoord(coord', yes, n, yes, no, n, coord.extend)
        BY <1>2, <1>3, <2>1, <2>2, CoordCommitted
    <2> QED BY <1>1, <2>1, <2>3 DEF IsCoord
<1>7. HeaderSays(disk.hdr, n) /\ ~disk.hdr.dirty
    <2>1. HeaderSays(NewHeader(coord), n)
        BY <1>1, <1>2, HeadersOfCommit
    <2>2. ~NewHeader(coord).dirty
        BY DEF NewHeader, Header
    <2> QED BY <1>1, <2>1, <2>2
<1> HIDE DEF hi, b
<1>8. InUse(tab', b, coord', cache, reader, root)
    <2>1. /\ Cached(Image(tab, b), cache)
          /\ reader # Nil => reader.pos \in 1 .. hi /\ b[reader.pos] = DataBlock(reader.val)
        <3>1. Cached(Image(tab, b), cache) /\ (reader # Nil => reader.pos \in 1 .. hi)
            BY <1>1, UsingIs DEF hi
        <3>2. reader # Nil => b[reader.pos] = DataBlock(reader.val)
            BY <1>1 DEF Using, InUse
        <3> QED BY <3>1, <3>2
    <2>2. MadeOf(coord') = {} /\ Extended(Image(tab', b), b, coord')
        BY <1>6 DEF MadeOf, Extended
    <2>3. Cached(Image(tab', b), cache)
        BY <1>5, <2>1
    <2>4. reader # Nil => reader.pos <= n
        BY <1>2, <2>1
    <2>5. n <= n
        BY <1>3
    <2> HIDE DEF n
    <2> QED BY <1>5, <1>6, <2>1, <2>2, <2>3, <2>4, <2>5 DEF InUse
<1> HIDE DEF n
<1>9. tab' \in Tables /\ tab' # Nil
    BY <1>5, NilAssumption DEF Good, Based
<1>10. TypeInv'
    BY <1>0, <1>6, <1>9 DEF StoreInv, TypeInv
<1>11. FileInv'
    <2>1. FileOK(disk, view, wq, coord)
        BY DEF StoreInv, FileInv
    <2>2. SameUpTo(disk.body, view.body, n)
        BY <1>1 DEF SameUpTo
    <2>3. FileOK(disk, view, wq, coord')
        BY <1>5, <1>6, <2>1, <2>2 DEF FileOK, b
    <2> QED BY <1>0, <2>3 DEF FileInv
<1>12. HeaderInv'
    <2>1. HeaderKnown(disk.hdr, coord')
        BY <1>6, <1>7 DEF HeaderKnown
    <2>2. Quiet(disk, view, wq, coord')
        BY <1>0, <1>1, <2>1 DEF Quiet
    <2>3. Quiet(disk', view', wq', coord') /\ HeaderSays(disk'.hdr, coord'.toc)
        BY <1>0, <1>6, <1>7, <2>2
    <2> QED BY <1>0, <1>6, <2>3 DEF HeaderInv
<1>13. TableInv'
    BY <1>0, <1>8 DEF TableInv, b
<1>14. NoTableInv'
    BY <1>0, <1>6, <1>9 DEF NoTableInv
<1>15. TrimInv'
    <2>1. LastOf(tab', coord') = n
        BY <1>6, <1>9 DEF LastOf
    <2> QED BY <1>0, <1>1, <2>1 DEF TrimInv, b
<1>16. StoreInv'
    BY <1>10, <1>11, <1>12, <1>13, <1>14, <1>15 DEF StoreInv
<1>17. AbsStable' = AbsStable
    BY <1>0, <1>1, <1>6 DEF AbsStable, b
<1>18. AbsCurrent' = AbsCurrent
    <2>1. HasTable /\ HasTable'
        BY <1>0, <1>1, <1>6, <1>9, NilAssumption DEF HasTable, Usable
    <2>2. Snap(tab', b, root) = Snap(tab, b, root)
        BY <1>5 DEF Snap
    <2> QED BY <1>0, <2>1, <2>2 DEF AbsCurrent, MemorySnap, b
<1> QED BY <1>16, <1>17, <1>18, AbsInv, AbsNext, RefinesIf

-----------------------------------------------------------------------------
(* The file system and failures *)

\* The last write of BeginL is the commit, for the streams.
LEMMA StepFlush == ASSUME StoreInv, Flush PROVE StoreInv' /\ Refines
<1>0. /\ wq # <<>> /\ disk' = Apply(disk, Head(wq)) /\ wq' = Tail(wq)
      /\ UNCHANGED <<view, tab, coord, cache, coll, reader, root, phase>>
    BY DEF Flush
<1>1. /\ disk \in Files /\ view \in Files /\ coord \in Coords /\ wq \in Seq(Writes)
      /\ FileOK(disk, view, wq, coord)
    BY DEF StoreInv, TypeInv, FileInv
<1>2. TableInv' /\ NoTableInv' /\ TrimInv'
    <2>1. TableInv /\ NoTableInv /\ TrimInv
        BY DEF StoreInv
    <2>2. TableInv' = TableInv
        BY <1>0 DEF TableInv, Usable
    <2>3. NoTableInv' = NoTableInv
        BY <1>0 DEF NoTableInv, Committed
    <2>4. TrimInv' = TrimInv
        BY <1>0 DEF TrimInv
    <2> QED BY <2>1, <2>2, <2>3, <2>4
<1>3. AbsCurrent' = AbsCurrent
    BY <1>0 DEF AbsCurrent, HasTable, Usable, MemorySnap
<1>4. CASE coord.active
    <2>1. Quiet(disk, view, wq, coord) /\ phase # "header"
        BY <1>4 DEF StoreInv, HeaderInv
    <2>2. /\ disk' \in Files /\ wq' \in Seq(Writes)
          /\ FileOK(disk', view, wq', coord) /\ Quiet(disk', view, wq', coord)
        BY <1>0, <1>1, <2>1, QuietFlush
    <2>3. TypeInv'
        BY <1>0, <2>2 DEF StoreInv, TypeInv
    <2>4. FileInv'
        BY <1>0, <2>2 DEF FileInv
    <2>5. HeaderInv'
        BY <1>0, <1>4, <2>1, <2>2 DEF StoreInv, HeaderInv, Quiet, HeaderKnown
    <2>6. StoreInv'
        BY <1>2, <2>3, <2>4, <2>5 DEF StoreInv
    <2>7. AbsStable' = AbsStable
        BY <1>0, <2>1 DEF AbsStable
    <2> QED BY <1>3, <2>6, <2>7, AbsInv, AbsNext, RefinesIf
<1>5. CASE phase = "header"
    <2>1. /\ ~coord.active /\ disk.body = view.body /\ Switching(disk, wq, coord)
          /\ coord.ext < MaxPos /\ tab # Nil
        BY <1>5 DEF StoreInv, HeaderInv, TrimInv
    <2>2. /\ disk' \in Files /\ disk'.body = disk.body /\ disk'.atomic = disk.atomic
          /\ Switching(disk', wq', coord)
        BY <1>0, <1>1, <2>1, SwitchFlush
    <2>3. Len(wq) \in 1 .. 3
        <3> DEFINE m == Len(wq)
        <3>1. m \in Nat /\ m # 0 /\ m <= 3
            BY <1>0, <1>1 DEF FileOK
        <3> HIDE DEF m
        <3>2. m \in 1 .. 3
            BY <3>1
        <3> QED BY <3>2 DEF m
    <2>4. Replay(disk', wq') = Replay(disk, wq) /\ wq' \in Seq(Writes) /\ Len(wq') = Len(wq) - 1
        BY <1>0, <1>1, <2>3, ReplayHead
    <2>5. TypeInv'
        BY <1>0, <2>2, <2>4 DEF StoreInv, TypeInv
    <2>6. FileInv'
        <3>1. Len(wq') <= 3
            <4> DEFINE m == Len(wq)
            <4>1. m \in 1 .. 3 /\ Len(wq') = m - 1
                BY <2>3, <2>4
            <4> HIDE DEF m
            <4>2. m - 1 <= 3
                BY <4>1
            <4> QED BY <4>1, <4>2
        <3>2. SameUpTo(disk'.body, view.body, coord.toc)
            BY <2>1, <2>2 DEF SameUpTo
        <3>3. FileOK(disk', view, wq', coord)
            BY <1>1, <2>2, <2>4, <3>1, <3>2 DEF FileOK
        <3> QED BY <1>0, <3>3 DEF FileInv
    <2>7. HeaderInv'
        BY <1>0, <1>5, <2>1, <2>2 DEF HeaderInv
    <2>8. StoreInv'
        BY <1>2, <2>5, <2>6, <2>7 DEF StoreInv
    <2>9. AbsCurrent = MemorySnap /\ MemorySnap' = MemorySnap
        BY <1>0, <1>5, <2>1 DEF AbsCurrent, HasTable, Usable, MemorySnap
    <2>10. AbsStable' = AbsStable \/ AbsStable' = AbsCurrent
        BY <1>0, <1>5, <2>9 DEF AbsStable
    <2> QED BY <1>3, <2>8, <2>10, AbsInv, AbsNext, RefinesIf
<1>6. coord.active \/ phase = "header"
    BY <1>0 DEF StoreInv, HeaderInv
<1> QED BY <1>4, <1>5, <1>6

\* The store is shut down or closed, with the commit point in the file as it was.
Lost ==
    /\ disk' \in Files /\ view' = disk' /\ wq' = <<>> /\ coll' = Nil
    /\ coord' \in Coords /\ ~coord'.active
    /\ FileOK(disk', disk', <<>>, coord') /\ HeaderSays(disk'.hdr, coord'.toc)
    /\ CommitSnap(disk'.body, coord'.toc) = AbsStable
    /\ tab' \in Tables \cup {Nil} /\ IsCache(cache')
    /\ reader' \in Opened \cup {Nil} /\ root' \in Handles \cup {Nil}
    /\ phase' \in {"ready", "closed"} /\ NoTableInv'

LEMMA StepLost == ASSUME StoreInv, Lost PROVE StoreInv' /\ Refines
<1>1. TypeInv'
    <2>1. wq' \in Seq(Writes)
        BY DEF Lost
    <2> QED BY <2>1 DEF TypeInv, Lost, IsCache
<1>2. FileInv' /\ HeaderInv'
    BY DEF FileInv, HeaderInv, Lost
<1>3. TableInv' /\ NoTableInv' /\ TrimInv'
    BY DEF TableInv, TrimInv, Usable, Lost
<1>4. StoreInv'
    BY <1>1, <1>2, <1>3 DEF StoreInv
<1>5. AbsStable' = AbsStable /\ AbsCurrent' = AbsStable
    BY DEF AbsStable, AbsCurrent, HasTable, Usable, Lost
<1> QED BY <1>4, <1>5, AbsInv, AbsNext, RefinesIf

\* What was queued is lost, before the commit took effect.
LEMMA LoseIs ==
    ASSUME StoreInv, LoseWrites, phase # "header" \/ wq # <<>>
    PROVE  /\ Survives(disk', view, coord) /\ view' = disk' /\ wq' = <<>>
           /\ AbsStable = CommitSnap(view.body, coord.toc)
<1>0. /\ disk' \in {disk} \cup (IF wq = <<>> THEN {} ELSE CutShort(disk, Head(wq)))
      /\ view' = disk' /\ wq' = <<>>
    BY DEF LoseWrites
<1>1. /\ disk \in Files /\ view \in Files /\ coord \in Coords /\ wq \in Seq(Writes)
      /\ FileOK(disk, view, wq, coord)
    BY DEF StoreInv, TypeInv, FileInv
<1>2. AbsStable = CommitSnap(view.body, coord.toc)
    BY DEF AbsStable
<1>3. CASE coord.active
    <2>1. Quiet(disk, view, wq, coord)
        BY <1>3 DEF StoreInv, HeaderInv
    <2>2. Survives(disk', view, coord)
        BY <1>0, <1>1, <2>1, QuietLose
    <2> QED BY <1>0, <1>2, <2>2
<1>4. CASE phase = "header"
    <2>1. /\ wq # <<>> /\ Switching(disk, wq, coord) /\ coord.ext < MaxPos
          /\ disk' \in {disk} \cup CutShort(disk, Head(wq))
        BY <1>0, <1>4 DEF StoreInv, HeaderInv, TrimInv
    <2>2. disk' \in Files /\ disk'.body = disk.body /\ HeaderSays(disk'.hdr, coord.toc)
        BY <1>1, <2>1, SwitchLose
    <2>3. SameUpTo(disk'.body, disk.body, coord.toc)
        BY <2>2 DEF SameUpTo
    <2>4. Survives(disk', view, coord)
        BY <1>1, <2>2, <2>3, SurvivesIf
    <2> QED BY <1>0, <1>2, <2>4
<1>5. CASE ~coord.active /\ phase # "header"
    <2>1. wq = <<>> /\ HeaderSays(disk.hdr, coord.toc)
        BY <1>5 DEF StoreInv, HeaderInv
    <2>2. disk' = disk
        BY <1>0, <2>1
    <2>3. SameUpTo(disk'.body, disk.body, coord.toc)
        BY <2>2 DEF SameUpTo
    <2>4. disk' \in Files /\ HeaderSays(disk'.hdr, coord.toc)
        BY <1>1, <2>1, <2>2
    <2>5. Survives(disk', view, coord)
        BY <1>1, <2>3, <2>4, SurvivesIf
    <2> QED BY <1>0, <1>2, <2>5
<1> QED BY <1>3, <1>4, <1>5

\* A failure shuts the store down.
LEMMA StepHostFails == ASSUME StoreInv, HostFails PROVE StoreInv' /\ Refines
<1>0. /\ wq # <<>> /\ LoseWrites /\ coll' = Nil /\ phase' = "ready"
      /\ phase = "header" \/ (phase = "ready" /\ coord.active)
      /\ coord' = [coord EXCEPT !.active = FALSE, !.reloc = Nil, !.target = 0]
      /\ UNCHANGED <<tab, cache, reader, root>>
    <2>1. phase \in {"ready", "toc", "header", "closed"}
        BY DEF StoreInv, TypeInv
    <2> QED BY <2>1 DEF HostFails
<1>1. /\ Survives(disk', view, coord) /\ view' = disk' /\ wq' = <<>>
      /\ AbsStable = CommitSnap(view.body, coord.toc)
    BY <1>0, LoseIs
<1>2. coord' \in Coords /\ ~coord'.active /\ coord'.toc = coord.toc /\ coord'.extend = coord.extend
    <2> DEFINE a == FALSE
    <2>1. a \in BOOLEAN /\ ~a /\ coord \in Coords
        BY DEF StoreInv, TypeInv
    <2>2. coord' = [coord EXCEPT !.active = a, !.reloc = Nil, !.target = 0]
        BY <1>0
    <2> HIDE DEF a
    <2>3. IsCoord(coord', a, coord.toc, coord.backup, coord.clip, coord.ext, coord.extend)
        BY <2>1, <2>2, CoordShut
    <2> QED BY <2>1, <2>3 DEF IsCoord
<1>3. Committed' = Committed
    BY <1>1, <1>2 DEF Committed, Survives
<1>4. NoTableInv'
    <2>1. tab # Nil => tab.primary = Committed.primary /\ (~tab.virtual => root = tab.primary)
        <3> HAVE tab # Nil
        <3>1. InUse(tab, view.body, coord, cache, reader, root)
            BY <1>0 DEF StoreInv, TableInv, Usable
        <3> QED BY <3>1 DEF InUse, Committed
    <2>2. tab = Nil => cache = NoEntries /\ reader = Nil /\ coord.extend = Nil /\ root = Committed.primary
        BY <1>0 DEF StoreInv, NoTableInv
    <2> QED BY <1>0, <1>2, <1>3, <2>1, <2>2 DEF NoTableInv
<1>5. FileOK(disk', disk', <<>>, coord') /\ disk' \in Files /\ HeaderSays(disk'.hdr, coord'.toc)
    BY <1>1, <1>2, SameFile DEF Survives
<1>6. CommitSnap(disk'.body, coord'.toc) = AbsStable
    BY <1>1, <1>2 DEF Survives
<1>7. tab' \in Tables \cup {Nil} /\ IsCache(cache') /\ reader' \in Opened \cup {Nil} /\ root' \in Handles \cup {Nil}
    BY <1>0 DEF StoreInv, TypeInv, IsCache
<1>8. Lost
    BY <1>0, <1>1, <1>2, <1>4, <1>5, <1>6, <1>7 DEF Lost
<1> QED BY <1>8, StepLost

\* Of a store that is closed only the file is left.
LEMMA ClosedIsLost ==
    ASSUME StoreInv, Closed, disk' \in Files, view' = disk', wq' = <<>>,
           NEW toc \in 0 .. MaxPos, HeaderSays(disk'.hdr, toc),
           NEW k \in Coords, k.toc = toc, FileOK(disk', disk', <<>>, k),
           CommitSnap(disk'.body, toc) = AbsStable
    PROVE  Lost
<1> DEFINE f == Fresh(ReadHeader(disk'))
           a == FALSE
<1>1. f \in Coords /\ f.toc = toc /\ f.extend = Nil
    BY FreshIs
<1>2. /\ coord' = [f EXCEPT !.active = a] /\ a \in BOOLEAN /\ ~a
      /\ tab' = Nil /\ cache' = NoEntries /\ coll' = Nil /\ reader' = Nil /\ root' = Nil /\ phase' = "closed"
    BY DEF Closed
<1> HIDE DEF f, a
<1>3. coord' \in Coords /\ ~coord'.active /\ coord'.toc = toc /\ coord'.extend = Nil
    <2>1. IsCoord(coord', a, f.toc, f.backup, f.clip, f.ext, f.extend)
        BY <1>1, <1>2, CoordActive
    <2> QED BY <1>1, <1>2, <2>1 DEF IsCoord
<1>4. FileOK(disk', disk', <<>>, coord')
    BY <1>3, SameFile
<1>5. NoTableInv'
    BY <1>2, <1>3 DEF NoTableInv
<1>6. IsCache(cache')
    BY <1>2, NoCacheIs DEF NoCache
<1> QED BY <1>2, <1>3, <1>4, <1>5, <1>6 DEF Lost

LEMMA StepCrash == ASSUME StoreInv, Crash PROVE StoreInv' /\ Refines
<1>0. LoseWrites /\ Closed
    BY DEF Crash
<1>1. coord \in Coords /\ coord.toc \in 0 .. MaxPos /\ coord.ext \in 0 .. MaxPos
    BY DEF StoreInv, TypeInv, Coords
<1>2. CASE phase # "header" \/ wq # <<>>
    <2>1. /\ Survives(disk', view, coord) /\ view' = disk' /\ wq' = <<>>
          /\ AbsStable = CommitSnap(view.body, coord.toc)
        BY <1>0, <1>2, LoseIs
    <2>2. /\ disk' \in Files /\ FileOK(disk', disk', <<>>, coord) /\ HeaderSays(disk'.hdr, coord.toc)
          /\ CommitSnap(disk'.body, coord.toc) = AbsStable
        BY <2>1 DEF Survives
    <2>3. Lost
        BY <1>0, <1>1, <2>1, <2>2, ClosedIsLost
    <2> QED BY <2>3, StepLost
<1>3. CASE phase = "header" /\ wq = <<>>
    <2> DEFINE n == coord.ext + 1
               k == ACoord(coord.active, n, coord.backup, coord.clip, coord.ext, coord.extend)
               u == Written(tab, n, root)
    <2>1. /\ view = disk /\ disk.hdr = NewHeader(coord) /\ coord.ext < MaxPos
          /\ IsWritten(u, tab, view.body, coord.ext, root, view.body)
          /\ CommitSnap(view.body, n) = MemorySnap
        BY <1>3, HeaderWritten
    <2>2. disk' = disk /\ view' = disk' /\ wq' = <<>>
        BY <1>0, <1>3 DEF LoseWrites
    <2>3. n \in 0 .. MaxPos
        BY <1>1, <2>1, BoundsAssumption
    <2>4. HeaderSays(disk'.hdr, n)
        BY <1>1, <2>1, <2>2, HeadersOfCommit
    <2>5. Load(disk.body, n, 0) = u /\ Good(u, disk.body, n, {}) /\ u.off = n
        BY <2>1 DEF IsWritten
    <2>6. FileOK(disk, disk, <<>>, coord) => disk = Replay(disk, <<>>) /\ Len(<<>>) <= 3
        BY DEF FileOK
    <2>7. FileOK(disk, view, wq, coord)
        BY DEF StoreInv, FileInv
    <2> HIDE DEF n, u
    <2>8. k \in Coords /\ k.toc = n
        <3>1. /\ coord.active \in BOOLEAN /\ coord.backup \in BOOLEAN /\ coord.clip \in BOOLEAN
              /\ coord.extend \in {Nil} \cup Extending
            BY <1>1 DEF Coords
        <3>2. IsCoord(k, coord.active, n, coord.backup, coord.clip, coord.ext, coord.extend)
            BY <1>1, <2>3, <3>1, CoordTyped
        <3> QED BY <3>2 DEF IsCoord
    <2> HIDE DEF k
    <2>9. FileOK(disk, disk, <<>>, k)
        <3>1. disk = Replay(disk, <<>>) /\ Len(<<>>) <= 3
            BY <1>3, <2>1, <2>6, <2>7
        <3>2. SameUpTo(disk.body, disk.body, k.toc)
            BY DEF SameUpTo
        <3> QED BY <2>5, <2>8, <3>1, <3>2 DEF FileOK
    <2>10. CommitSnap(disk'.body, n) = AbsStable
        BY <1>3, <2>1, <2>2 DEF AbsStable
    <2>11. disk' \in Files
        BY <2>2 DEF StoreInv, TypeInv
    <2>12. FileOK(disk', disk', <<>>, k)
        BY <2>2, <2>9
    <2>13. Lost
        BY <1>0, <2>2, <2>3, <2>4, <2>8, <2>10, <2>11, <2>12, ClosedIsLost
    <2> QED BY <2>13, StepLost
<1> QED BY <1>2, <1>3

LEMMA StepClose == ASSUME StoreInv, Close PROVE StoreInv' /\ Refines
<1>0. phase = "ready" /\ wq = <<>> /\ UNCHANGED <<disk, view, wq>> /\ Closed
    BY DEF Close
<1>1. LoseWrites
    <2>1. view = Replay(disk, wq)
        BY DEF StoreInv, FileInv, FileOK
    <2>2. view = disk
        BY <1>0, <2>1, ReplayFew
    <2> QED BY <1>0, <2>2 DEF LoseWrites
<1>2. /\ Survives(disk', view, coord) /\ view' = disk' /\ wq' = <<>>
      /\ AbsStable = CommitSnap(view.body, coord.toc)
    BY <1>0, <1>1, LoseIs
<1>3. /\ disk' \in Files /\ FileOK(disk', disk', <<>>, coord) /\ HeaderSays(disk'.hdr, coord.toc)
      /\ CommitSnap(disk'.body, coord.toc) = AbsStable /\ coord \in Coords /\ coord.toc \in 0 .. MaxPos
    BY <1>2 DEF Survives, StoreInv, TypeInv, Coords
<1>4. Lost
    BY <1>0, <1>2, <1>3, ClosedIsLost
<1> QED BY <1>4, StepLost

\* MarshalL finds the commit point that the header names.
LEMMA StepOpen == ASSUME StoreInv, Open PROVE StoreInv' /\ Refines
<1> DEFINE r == ReadHeader(disk)
           b == view.body
           toc == coord.toc
           f == Fresh(r)
<1>0. /\ phase = "closed" /\ phase' = "ready" /\ UNCHANGED <<disk, view, wq, cache, coll, reader>>
      /\ tab' = Load(disk.body, r.toc, Moved(r.reloc, r.target)) /\ root' = tab'.primary
      /\ coord' = [f EXCEPT !.ext = tab'.off]
    BY DEF Open
<1>1. /\ tab = Nil /\ ~coord.active /\ wq = <<>> /\ HeaderSays(disk.hdr, toc)
      /\ cache = NoEntries /\ reader = Nil
    BY <1>0 DEF StoreInv, HeaderInv, NoTableInv
<1>2. /\ disk \in Files /\ view \in Files /\ coord \in Coords /\ toc \in 0 .. MaxPos /\ b \in [Pos -> Blocks]
      /\ FileOK(disk, view, wq, coord)
    BY DEF StoreInv, TypeInv, Files, Coords, FileInv
<1>3. view = disk
    <2>1. view = Replay(disk, wq)
        BY <1>2 DEF FileOK
    <2> QED BY <1>1, <2>1, ReplayFew
<1>4. r.toc = toc /\ Moved(r.reloc, r.target) = 0
    <2>1. r.toc = toc /\ r.target = 0
        BY <1>1, <1>2, HeaderRead
    <2> QED BY <2>1 DEF Moved
<1>5. tab' = Load(b, toc, 0)
    BY <1>0, <1>3, <1>4
<1>6. Good(tab', b, toc, {}) /\ tab'.off = toc
    BY <1>2, <1>5 DEF FileOK
<1>7. /\ f \in Coords /\ f.toc = toc /\ f.active /\ f.clip /\ f.extend = Nil /\ HeaderKnown(disk.hdr, f)
    BY <1>1, <1>2, FreshIs
<1> HIDE DEF r, f, toc, b
<1>8. /\ coord' \in Coords /\ coord'.toc = toc /\ coord'.active /\ coord'.clip /\ coord'.extend = Nil
      /\ coord'.ext = toc /\ coord'.backup = f.backup
    <2>1. coord' = [f EXCEPT !.ext = toc]
        BY <1>0, <1>6
    <2>2. IsCoord(coord', f.active, f.toc, f.backup, f.clip, toc, f.extend)
        BY <1>2, <1>7, <2>1, CoordExt
    <2> QED BY <1>7, <2>2 DEF IsCoord
<1>9. tab' \in Tables /\ tab' # Nil /\ tab'.primary \in Handles \cup {Nil}
    BY <1>6, NilAssumption DEF Good, Based, Tables
<1>10. InUse(tab', b, coord', cache, reader, root')
    <2>1. MadeOf(coord') = {} /\ Extended(Image(tab', b), b, coord')
        BY <1>8 DEF MadeOf, Extended
    <2>2. Cached(Image(tab', b), cache)
        BY <1>1, NoCacheIs DEF Cached, NoCache
    <2>3. toc <= toc
        BY <1>2
    <2> QED BY <1>0, <1>1, <1>5, <1>6, <1>8, <2>1, <2>2, <2>3 DEF InUse
<1>11. TypeInv'
    BY <1>0, <1>8, <1>9 DEF StoreInv, TypeInv
<1>12. FileInv'
    <2>1. FileOK(disk, view, wq, coord')
        BY <1>2, <1>8, SameFile DEF toc
    <2> QED BY <1>0, <2>1 DEF FileInv
<1>13. HeaderInv'
    <2>1. HeaderKnown(disk.hdr, coord')
        BY <1>7, <1>8 DEF HeaderKnown
    <2>2. Quiet(disk', view', wq', coord') /\ HeaderSays(disk'.hdr, coord'.toc)
        BY <1>0, <1>1, <1>3, <2>1 DEF Quiet, HeaderKnown
    <2> QED BY <1>0, <1>8, <2>2 DEF HeaderInv
<1>14. TableInv'
    BY <1>0, <1>10 DEF TableInv, b
<1>15. NoTableInv' /\ TrimInv'
    BY <1>0, <1>8, <1>9 DEF NoTableInv, TrimInv
<1>16. StoreInv'
    BY <1>11, <1>12, <1>13, <1>14, <1>15 DEF StoreInv
<1>17. AbsStable' = AbsStable
    BY <1>0, <1>8 DEF AbsStable, toc
<1>18. AbsCurrent' = AbsCurrent
    <2>1. AbsCurrent = CommitSnap(b, toc)
        BY <1>1 DEF AbsCurrent, HasTable, b, toc
    <2>2. AbsCurrent' = Snap(tab', b, root')
        BY <1>0, <1>8, <1>9 DEF AbsCurrent, HasTable, Usable, MemorySnap, b
    <2>3. CommitSnap(b, toc) = Snap(tab', b, root')
        BY <1>0, <1>5 DEF CommitSnap
    <2> QED BY <2>1, <2>2, <2>3
<1> QED BY <1>16, <1>17, <1>18, AbsInv, AbsNext, RefinesIf

-----------------------------------------------------------------------------
(* The theorems *)

\* The TOC of a new store has no entries.
LEMMA NoTocGood ==
    ASSUME NEW b
    PROVE  /\ Good(NoToc, b, 0, {}) /\ Load(b, 0, 0) = NoToc /\ NoToc.off = 0 /\ NoToc.primary = Nil
           /\ Image(NoToc, b) = [i \in {} |-> EntryAt(NoToc, b, i)]
<1> DEFINE no == FALSE
           t == ATable(Nil, no, Nil, 0, NoEntries, 0, 0, 0)
<1>1. NoToc = t
    BY DEF NoToc, ATable
<1>2. NoEntries \in EntryMaps /\ DOMAIN NoEntries = {}
    <2>1. DOMAIN NoEntries = {} /\ NoEntries \in [{} -> Entries]
        BY DEF NoEntries
    <2> QED BY <2>1, EntryMapsAre
<1>3. 0 \in 0 .. MaxIndex /\ 0 \in 0 .. MaxPos /\ no \in BOOLEAN
    BY BoundsAssumption
<1> HIDE DEF no
<1>4. /\ t \in Tables /\ t.toc = 0 /\ t.off = 0 /\ t.count = 0 /\ t.ent = NoEntries
      /\ t.avail = Nil /\ t.primary = Nil
    BY <1>2, <1>3 DEF ATable, Tables
<1> HIDE DEF t
<1>5. 1 .. 0 = {} /\ 0 <= 0
    OBVIOUS
<1>6. Based(t, b, 0)
    BY <1>2, <1>4, <1>5 DEF Based
<1>7. Image(t, b) = [i \in {} |-> EntryAt(t, b, i)] /\ DOMAIN Image(t, b) = {}
    BY <1>4, <1>5 DEF Image
<1>8. Linked(Image(t, b), t.avail, {})
    <2> DEFINE s == <<>>
    <2>1. s \in Seq(Handles) /\ Len(s) = 0 /\ s = <<>>
        OBVIOUS
    <2> HIDE DEF s
    <2>2. Chain(s, Image(t, b), t.avail, {})
        BY <1>4, <1>7, <2>1 DEF Chain
    <2> QED BY <2>1, <2>2 DEF Linked
<1>9. Good(t, b, 0, {})
    BY <1>6, <1>7, <1>8 DEF Good, Placed
<1> QED BY <1>1, <1>4, <1>7, <1>9 DEF Load

\* A new store is in order, and holds nothing.
LEMMA InitInv == ASSUME Init PROVE StoreInv /\ Streams!StreamInit
<1> DEFINE h == Header(0, Nil, 0, 0, FALSE)
           f == Fresh(ReadHeader(disk))
           no == FALSE
<1>0. /\ disk.hdr = h /\ disk.body \in [Pos -> {Free}] /\ disk.atomic \in Media
      /\ disk \in [hdr : {h}, body : [Pos -> {Free}], atomic : Media]
      /\ view = disk /\ wq = <<>> /\ tab = Nil /\ cache = NoEntries /\ coll = Nil /\ reader = Nil /\ root = Nil
      /\ coord = [f EXCEPT !.clip = no] /\ phase = "ready"
    BY DEF Init
<1>1. 0 \in 0 .. MaxPos
    BY BoundsAssumption
<1>2. h \in Headers /\ HeaderSays(h, 0)
    <2> DEFINE z == 0
    <2>1. h = [dirty |-> no, backup |-> z, rel |-> Nil, ref |-> z, crc |-> <<z, Nil, z>>] /\ ~no /\ no \in BOOLEAN
        BY DEF Header
    <2>2. z \in 0 .. MaxPos
        BY <1>1
    <2> HIDE DEF h, no, z
    <2>3. h \in Headers /\ HeaderSays(h, z)
        BY <2>1, <2>2 DEF Headers, HeaderSays
    <2> QED BY <2>3 DEF z
<1> HIDE DEF h
<1>3. disk \in Files
    BY <1>0, <1>2, BoundsAssumption DEF Files, Blocks
<1>4. /\ f \in Coords /\ f.toc = 0 /\ f.active /\ f.extend = Nil /\ HeaderKnown(disk.hdr, f)
    <2> DEFINE z == 0
    <2>1. z \in 0 .. MaxPos /\ HeaderSays(disk.hdr, z)
        BY <1>0, <1>1, <1>2
    <2> HIDE DEF z
    <2>2. /\ f \in Coords /\ f.toc = z /\ f.active /\ f.extend = Nil /\ HeaderKnown(disk.hdr, f)
        BY <1>3, <2>1, FreshIs
    <2> QED BY <2>2 DEF z
<1>5. ~no /\ no \in BOOLEAN
    OBVIOUS
<1> HIDE DEF f, no
<1>6. /\ coord \in Coords /\ coord.toc = 0 /\ coord.active /\ coord.extend = Nil /\ coord.backup = f.backup
    <2>1. IsCoord(coord, f.active, f.toc, f.backup, no, f.ext, f.extend)
        BY <1>0, <1>4, <1>5, CoordClip
    <2> QED BY <1>4, <2>1 DEF IsCoord
<1>7. TypeInv
    <2>1. IsCache(cache)
        BY <1>0, NoCacheIs DEF NoCache
    <2>2. wq \in Seq(Writes)
        BY <1>0
    <2> QED BY <1>0, <1>3, <1>6, <2>1, <2>2 DEF TypeInv, IsCache
<1>8. FileInv
    <2>1. view = Replay(disk, wq) /\ Len(wq) <= 3
        <3>1. Len(<<>>) \in 0 .. 3 /\ Len(<<>>) = 0
            OBVIOUS
        <3>2. Replay(disk, <<>>) = disk
            BY <3>1, ReplayFew
        <3> QED BY <1>0, <3>1, <3>2
    <2>2. SameUpTo(disk.body, view.body, coord.toc)
        BY <1>0 DEF SameUpTo
    <2>3. Good(Load(view.body, 0, 0), view.body, 0, {}) /\ Load(view.body, 0, 0).off = 0
        BY NoTocGood
    <2> QED BY <1>0, <1>6, <2>1, <2>2, <2>3 DEF FileInv, FileOK
<1>9. HeaderInv
    <2>1. HeaderKnown(disk.hdr, coord)
        BY <1>4, <1>6 DEF HeaderKnown
    <2>2. Quiet(disk, view, wq, coord) /\ HeaderSays(disk.hdr, coord.toc)
        BY <1>0, <2>1 DEF Quiet, HeaderKnown
    <2> QED BY <1>0, <1>6, <2>2 DEF HeaderInv
<1>10. TableInv
    BY <1>0 DEF TableInv
<1>11. NoTableInv
    <2>1. Committed.primary = Nil
        BY <1>6, NoTocGood DEF Committed
    <2> QED BY <1>0, <1>6, <2>1 DEF NoTableInv
<1>12. TrimInv
    BY <1>0 DEF TrimInv, EndsAt
<1>13. StoreInv
    BY <1>7, <1>8, <1>9, <1>10, <1>11, <1>12 DEF StoreInv
<1>14. AbsStable = Streams!Bare /\ AbsCurrent = Streams!Bare
    <2> DEFINE b == view.body
    <2>1. StreamsOf(Image(NoToc, b), b) = [x \in {} |-> Nil]
        <3>1. DOMAIN Image(NoToc, b) = {}
            BY NoTocGood
        <3> HIDE DEF b
        <3> QED BY <3>1 DEF StreamsOf
    <2>2. CommitSnap(b, 0) = Streams!Bare
        BY <2>1, NoTocGood DEF CommitSnap, Snap, Streams!Bare
    <2> QED BY <1>0, <1>6, <2>2 DEF AbsStable, AbsCurrent, HasTable
<1> QED BY <1>13, <1>14, AbsInv DEF Streams!StreamInit

\* Every step but the start of a compaction keeps the invariant and is a step of
\* the streams.
LEMMA StepStore ==
    ASSUME StoreInv, [Next /\ ~CompactBegin]_storeVars
    PROVE  StoreInv' /\ Refines
<1>0. coll = Nil /\ phase \notin {"put", "move"}
    BY DEF StoreInv, TypeInv
<1>1. CASE UNCHANGED storeVars
    <2>1. StoreInv'
        BY <1>1 DEF storeVars, StoreInv, TypeInv, FileInv, HeaderInv, TableInv, NoTableInv, TrimInv, Usable, Committed
    <2>2. AbsStable' = AbsStable /\ AbsCurrent' = AbsCurrent
        BY <1>1 DEF storeVars, AbsStable, AbsCurrent, HasTable, Usable, MemorySnap
    <2> QED BY <2>1, <2>2, AbsInv, AbsNext, RefinesIf
<1>2. CASE \E d \in CreateData : CreateL(d)
    BY <1>2, StepCreateL
<1>3. CASE \E h \in Handles, d \in ReplaceData : ReplaceL(h, d)
    BY <1>3, StepReplaceL
<1>4. CASE CommitStream \/ AbandonStream \/ ExtendL \/ CloseStream
    BY <1>4, StepCommitStream, StepAbandonStream, StepAbandonShut, StepExtendL, StepCloseStream
<1>5. CASE \E h \in Handles : DeleteL(h)
    BY <1>5, StepDeleteL
<1>6. CASE \E h \in Roots : DoSetRootL(h)
    BY <1>6, StepDoSetRootL
<1>7. CASE \E h \in ReadStreams : OpenStream(h)
    BY <1>7, StepOpenStream
<1>8. CASE CommitUnchanged \/ CommitToc \/ CommitHeader \/ CommitEnd \/ CommitFails
    BY <1>8, StepCommitUnchanged, StepCommitToc, StepCommitHeader, StepCommitEnd, StepCommitFails
<1>9. CASE RevertL \/ RefreshL
    BY <1>9, StepRevertL, StepRefreshL
<1>10. ~(CompactSkip \/ CompactToc \/ (coll # Nil /\ \E s \in coll.streams : CompactStream(s)))
    BY <1>0 DEF CompactSkip, CompactToc, Compacting
<1>11. ~(PutL \/ PutFails \/ MoveL)
    BY <1>0 DEF PutL, PutFails, MoveL
<1>12. CASE Flush \/ HostFails \/ Crash \/ Close \/ Open
    BY <1>12, StepFlush, StepHostFails, StepCrash, StepClose, StepOpen
<1> QED BY <1>1, <1>2, <1>3, <1>4, <1>5, <1>6, <1>7, <1>8, <1>9, <1>10, <1>11, <1>12 DEF Next

\* No compaction is begun: clients do not call CPermanentFileStore::DoCompactL.
Uncompacted == Spec /\ [][~CompactBegin]_storeVars

\* Without compaction the file, its writes, the table and the coordinator always
\* agree as StoreInv says, however clients, the file server and crashes interleave.
THEOREM StoreInvariant == Uncompacted => []StoreInv
<1>1. Init => StoreInv
    BY InitInv
<1>2. StoreInv /\ [Next]_storeVars /\ [~CompactBegin]_storeVars => StoreInv'
    <2> SUFFICES ASSUME StoreInv, [Next]_storeVars, [~CompactBegin]_storeVars
                 PROVE  StoreInv'
        OBVIOUS
    <2>1. [Next /\ ~CompactBegin]_storeVars
        OBVIOUS
    <2> QED BY <2>1, StepStore
<1> QED BY <1>1, <1>2, PTL DEF Uncompacted, Spec

\* No stream that was deleted, reverted or replaced is read at a place that
\* iCache remembers (CPermanentFileStore::DoOpenL).
THEOREM StoreCache == Uncompacted => []CacheCorrect
BY StoreInvariant, InvCacheCorrect, PTL

\* The free entries of the TOC stay one list (CPermanentStoreToc::AllocL, FreeL, Cancel):
\* none is lost or handed out twice, whatever is abandoned, reverted or fails.
THEOREM StoreFreeList == Uncompacted => []FreeListInv
BY StoreInvariant, InvFreeList, PTL

\* A reader goes on reading what it opened through commits and failures of others.
THEOREM StoreReader == Uncompacted => []ReaderStable
BY StoreInvariant, InvReaderStable, PTL

\* ExtendLC never writes into what an earlier, abandoned stream left behind.
THEOREM StoreTrimmed == Uncompacted => []Trimmed
BY StoreInvariant, InvTrimmed, PTL

\* After every crash and failure the file holds the last commit point: each step
\* of the store is a change, a commit or the loss of all changes of StreamStore.
THEOREM StoreImplementsStreams == Uncompacted => StoreRefinement
<1>1. Init => Streams!StreamInit
    BY InitInv
<1>2. StoreInv /\ [Next]_storeVars /\ [~CompactBegin]_storeVars => [Streams!StreamNext]_(Streams!streamVars)
    <2> SUFFICES ASSUME StoreInv, [Next]_storeVars, [~CompactBegin]_storeVars
                 PROVE  [Streams!StreamNext]_(Streams!streamVars)
        OBVIOUS
    <2>1. [Next /\ ~CompactBegin]_storeVars
        OBVIOUS
    <2>2. Refines
        BY <2>1, StepStore
    <2> QED BY <2>2 DEF Refines, Streams!streamVars
<1>3. Uncompacted => Streams!StreamSpec
    BY <1>1, <1>2, StoreInvariant, PTL DEF Uncompacted, Spec, Streams!StreamSpec
<1> QED BY <1>3 DEF StoreRefinement

=============================================================================
