------------------------------- MODULE PermStore -------------------------------
(***************************************************************************)
(* CPermanentFileStore: streams in one file, reached through a table of     *)
(* contents (TOC).  A commit writes a new TOC behind everything else and    *)
(* then makes the header of the file point to it; compaction moves streams  *)
(* and the TOC towards the front, in place.                                 *)
(*                                                                          *)
(* The file is its header and a row of slots; a stream or a TOC takes one   *)
(* slot.  Writes reach the file in the order they were made (the order the  *)
(* code demands of the file server), but later: a crash loses those still   *)
(* queued and may tear the one under way.                                   *)
(***************************************************************************)
EXTENDS Integers, Sequences, FiniteSets

CONSTANTS
    MaxIndex,           \* bound: entries of a TOC
    Gens,               \* generations of a handle (16 in the code)
    MaxPos,             \* bound: slots of the file
    Data,               \* what a stream may hold
    CreateData, ReplaceData,  \* what clients put into new and replaced streams
    Roots, ReadStreams, \* streams that clients make the root, and that they read
    MaxChanges,         \* bound: changes that clients make to streams or the root
    MaxFaults,          \* bound: failures and crashes
    Empty,              \* KFrameNonexistent16: a stream with no data
    Nil,                \* no handle, no table
    TocBase,            \* KHandleTocBase
    Torn,               \* what a write cut short leaves
    Media,              \* TRUE for a file on a medium with atomic blocks (FileQoSL)
    Straddling,         \* entries (0: the link to the base TOC) across two blocks
    KSizeTocEntry, KSizeTocDeltaEntry, KSizeTocDeltaExtra, KTocDeltaCap, KTocDeltaMagic,
    Careless            \* what clients of the store do beyond what it can bear

Handles == (1 .. MaxIndex) \X (0 .. Gens - 1)

ASSUME BoundsAssumption ==
    /\ {MaxIndex, Gens, MaxPos, KSizeTocEntry, KSizeTocDeltaEntry, KSizeTocDeltaExtra,
        KTocDeltaCap, KTocDeltaMagic} \subseteq Nat \ {0}
    /\ CreateData \cup ReplaceData \subseteq Data \cup {Empty} /\ Roots \cup ReadStreams \subseteq Handles
    /\ MaxChanges \in Nat /\ MaxFaults \in Nat
    /\ Media \subseteq BOOLEAN /\ Media # {} /\ Straddling \subseteq 0 .. MaxIndex
ASSUME CarelessAssumption ==
    Careless \subseteq {"abandon replace", "compact dirty", "compact accessed"}

\* What an entry and a table of contents hold (CPermanentStoreToc).
Pos == 1 .. MaxPos
Entries == [gen : 0 .. Gens - 1, inv : BOOLEAN, ref : Pos \cup Handles \cup {Empty, Nil}]
EntryMaps == UNION {[I -> Entries] : I \in SUBSET (1 .. MaxIndex)}
Tables == [primary : Handles \cup {Nil}, virtual : BOOLEAN, avail : Handles \cup {Nil},
           count : 0 .. MaxIndex, ent : EntryMaps, toc : 0 .. MaxPos, off : 0 .. MaxPos, magic : Nat]
Opened == [h : Handles, pos : Pos, val : Data]
Extending == [h : Handles, new : BOOLEAN, pos : Pos \cup {Empty}]

ASSUME NilAssumption == Nil \notin Handles \cup Tables \cup Opened \cup Extending /\ Empty \notin Pos
\* The sizes of the entries of a TOC and of a delta.
ASSUME SizesAssumption == KSizeTocEntry <= KSizeTocDeltaEntry

VARIABLES
    disk,    \* the file: [hdr, body, atomic]
    view,    \* the file with the queued writes done: what the process sees
    wq,      \* writes queued in RFileBuf and below
    tab,     \* iTable: the TOC in memory, or Nil
    coord,   \* CPermanentStoreCoord
    cache,   \* iCache: handle to slot
    coll,    \* a compaction under way: its streams and iFree, or Nil
    reader,  \* a stream open for reading, or Nil
    root,    \* iRoot
    phase,   \* "ready", in an operation ("toc", "header", "put", "move"), or "closed"
    changes, \* changes so far
    faults   \* failures and crashes so far

storeVars == <<disk, view, wq, tab, coord, cache, coll, reader, root, phase, changes, faults>>

Drop(f, x) == [y \in DOMAIN f \ {x} |-> f[y]]
Put(f, x, v) == [y \in DOMAIN f \cup {x} |-> IF y = x THEN v ELSE f[y]]
NoEntries == [i \in {} |-> Nil]

-----------------------------------------------------------------------------
(* The file *)

Free == [kind |-> "free"]
Garbage == [kind |-> "torn"]
DataBlock(d) == [kind |-> "data", val |-> d]
IsToc(b) == b.kind \in {"base", "delta"}

\* TPermanentStoreHeader::Set, whose checksum is taken to tell apart all that
\* it is computed over, and SetBackupToc, which leaves it alone.
Header(toc, rel, ref, backup, dirty) ==
    [dirty |-> dirty, backup |-> backup, rel |-> rel, ref |-> ref, crc |-> <<toc, rel, ref>>]

\* One write to the file.
Apply(f, w) ==
    CASE w.kind = "block"  -> [f EXCEPT !.body[w.pos] = w.block]
      [] w.kind = "size"   -> [f EXCEPT !.body = [p \in Pos |-> IF p > w.pos THEN Free ELSE @[p]]]
      [] w.kind = "backup" -> [f EXCEPT !.hdr.backup = w.toc]
      [] w.kind = "header" -> [f EXCEPT !.hdr = w.hdr]
      [] w.kind = "clean"  -> [f EXCEPT !.hdr.dirty = FALSE]
      [] w.kind = "link"   -> [f EXCEPT !.body[w.pos].base = w.ref]
      [] w.kind = "base"   -> [f EXCEPT !.body[w.pos].ent[w.idx].ref = w.ref]
         \* at the place of the entry among those in memory: another place in
         \* the file unless the TOC there is a delta with the same entries
      [] w.kind = "delta"  ->
           IF f.body[w.pos].kind = "delta" /\ DOMAIN f.body[w.pos].ent = w.entries
           THEN [f EXCEPT !.body[w.pos].ent[w.idx].ref = w.ref]
           ELSE [f EXCEPT !.body[w.pos] = Garbage]

\* What may be found in the file when write w was cut short.  A header write
\* keeps the backup TOC and starts with the dirty flag; one byte is atomic,
\* and blocks are when the medium says so.
CutShort(f, w) ==
    CASE w.kind = "block"  -> {[f EXCEPT !.body[w.pos] = Garbage]}
      [] w.kind = "backup" -> {[f EXCEPT !.hdr.backup = Torn]}
      [] w.kind = "header" /\ ~f.atomic ->
           {[f EXCEPT !.hdr = [@ EXCEPT !.dirty = TRUE, !.rel = Torn, !.ref = Torn, !.crc = Torn]]}
      [] w.kind \in {"link", "base", "delta"} /\ (~f.atomic \/ w.idx \in Straddling) ->
           {Apply(f, [w EXCEPT !.ref = Torn])}
      [] OTHER -> {}

\* The file once the writes ws are done.
Replay(f, ws) ==
    LET after[n \in 0 .. Len(ws)] == IF n = 0 THEN f ELSE Apply(after[n - 1], ws[n]) IN
    after[Len(ws)]

Write(ws) ==
    /\ wq' = wq \o ws
    /\ view' = Replay(view, ws)

-----------------------------------------------------------------------------
(* CPermanentStoreToc *)

NoToc == [primary |-> Nil, virtual |-> FALSE, avail |-> Nil, count |-> 0, ent |-> NoEntries,
          toc |-> 0, off |-> 0, magic |-> 0]

HasDelta(t) == t.off # t.toc

IsDelta(t) ==
    LET n == Cardinality(DOMAIN t.ent) IN
    /\ n < KTocDeltaCap
    /\ (t.magic + n) * KSizeTocDeltaEntry <= t.count * KSizeTocEntry - KSizeTocDeltaExtra

\* ConstructL and InternalizeL: read the TOC in slot toc, a delta with the base
\* it names or the one that was moved; Nil if it is corrupt.
Load(body, toc, moved) ==
    IF toc = 0 THEN NoToc
    ELSE IF toc \notin Pos THEN Nil
    ELSE IF body[toc].kind = "base"
    THEN [NoToc EXCEPT !.primary = body[toc].primary, !.avail = body[toc].avail,
                       !.count = Len(body[toc].ent), !.toc = toc, !.off = toc]
    ELSE IF body[toc].kind # "delta" THEN Nil
    ELSE LET b == body[toc]
             base == IF moved = 0 THEN b.base ELSE moved IN
         IF base \notin 1 .. (toc - 1) THEN Nil
         ELSE IF body[base].kind # "base" THEN Nil
         ELSE IF Len(body[base].ent) > b.count THEN Nil
         ELSE [primary |-> b.primary, virtual |-> FALSE, avail |-> b.avail, count |-> b.count,
               ent |-> b.ent, toc |-> base, off |-> toc, magic |-> b.magic]

\* The entry of index i: iEntries, then DoAtL.
EntryAt(t, body, i) == IF i \in DOMAIN t.ent THEN t.ent[i] ELSE body[t.toc].ent[i]

\* AtL finds these.
Live(t, body) ==
    {<<i, EntryAt(t, body, i).gen>> : i \in {j \in 1 .. t.count : ~EntryAt(t, body, j).inv}}

At(t, body, h) == EntryAt(t, body, h[1]).ref

\* FetchL, with the new value of the entry that it returns.
Fetch(t, i, e) == [t EXCEPT !.ent = Put(@, i, e)]

\* DoAllocL, AllocL: the first free entry of the list or a new one.
CanAlloc(t) == t.avail # Nil \/ t.count < MaxIndex
NewHandle(t) == IF t.avail = Nil THEN <<t.count + 1, 0>> ELSE <<t.avail[1], (t.avail[2] + 1) % Gens>>
Alloc(t, body, inv) ==
    LET h == NewHandle(t)
        e == [gen |-> h[2], inv |-> inv, ref |-> Empty] IN
    IF t.avail = Nil
    THEN [Fetch(t, h[1], e) EXCEPT !.count = h[1], !.virtual = TRUE]
    ELSE [Fetch(t, h[1], e) EXCEPT !.avail = At(t, body, h), !.virtual = TRUE]

\* FreeL, and Cancel for an entry that was never given out.
FreeEntry(t, h) ==
    [Fetch(t, h[1], [gen |-> h[2], inv |-> TRUE, ref |-> t.avail]) EXCEPT !.avail = h, !.virtual = TRUE]

\* Mutant: a cancelled entry is not put on the list.
LoseEntry(t, h) == t

Cancel(t, h) == FreeEntry(t, h)

Set(t, h, p) == [Fetch(t, h[1], [gen |-> h[2], inv |-> FALSE, ref |-> p]) EXCEPT !.virtual = TRUE]

\* RealizeL with DeltaL and RewriteL: the TOC as it is written to the file.
Magic(t) == t.magic + (IF Cardinality(DOMAIN t.ent) > KTocDeltaMagic
                       THEN Cardinality(DOMAIN t.ent) - KTocDeltaMagic ELSE 0)
Realize(t, body, primary) ==
    IF IsDelta(t)
    THEN [kind |-> "delta", primary |-> primary, avail |-> t.avail, count |-> t.count,
          base |-> t.toc, magic |-> Magic(t), ent |-> t.ent]
    ELSE [kind |-> "base", primary |-> primary, avail |-> t.avail,
          ent |-> [i \in 1 .. t.count |-> EntryAt(t, body, i)]]

Adopt(t, toc, primary) ==
    LET a == [t EXCEPT !.off = toc, !.primary = primary, !.virtual = FALSE] IN
    IF IsDelta(t) THEN [a EXCEPT !.magic = Magic(t)]
    ELSE [a EXCEPT !.toc = toc, !.ent = NoEntries, !.magic = 0]

\* PutL: one reference is changed in place, in the delta or the base.
PutWrites(t, body, h, p, always) ==
    IF h = TocBase
    THEN IF always \/ body[t.off].base # p
         THEN <<[kind |-> "link", pos |-> t.off, idx |-> 0, ref |-> p]>> ELSE <<>>
    ELSE IF h[1] \in DOMAIN t.ent
    THEN IF t.ent[h[1]].gen = h[2] /\ ~t.ent[h[1]].inv /\ t.ent[h[1]].ref # p
         THEN <<[kind |-> "delta", pos |-> t.off, idx |-> h[1], ref |-> p, entries |-> DOMAIN t.ent]>>
         ELSE <<>>
    ELSE IF always \/ At(t, body, h) # p
         THEN <<[kind |-> "base", pos |-> t.toc, idx |-> h[1], ref |-> p]>> ELSE <<>>
PutTable(t, h, p) ==
    IF h = TocBase THEN [t EXCEPT !.toc = p]
    ELSE IF h[1] \in DOMAIN t.ent THEN [t EXCEPT !.ent[h[1]].ref = p]
    ELSE t

\* The streams of a table, with the one the header says was moved.
Contents(t, body, rel, target) ==
    [h \in Live(t, body) |->
        LET p == IF h = rel THEN target ELSE At(t, body, h) IN
        IF p = Empty THEN Empty
        ELSE IF p \in Pos /\ body[p].kind = "data" THEN body[p].val ELSE Torn]

-----------------------------------------------------------------------------
(* CPermanentStoreCoord *)

\* InternalizeL: which TOC counts, and which stream was being moved.
ReadHeader(f) ==
    LET h == f.hdr
        ahead == ~h.dirty /\ h.rel = Nil /\ h.backup # h.ref
        toc == IF ahead THEN h.ref ELSE h.backup IN
    [toc |-> toc, backup |-> ahead,
     reloc |-> IF h.dirty THEN Nil ELSE h.rel, target |-> IF h.dirty \/ h.rel = Nil THEN 0 ELSE h.ref,
     valid |-> h.dirty \/ h.crc = <<toc, h.rel, h.ref>>]

Moved(reloc, target) == IF reloc = TocBase THEN target ELSE 0

Fresh(r) == [active |-> TRUE, toc |-> r.toc, reloc |-> r.reloc, target |-> r.target,
             backup |-> r.backup, clip |-> TRUE, ext |-> 0, extend |-> Nil]

Active == phase = "ready" /\ coord.active
Accessed == reader # Nil \/ coord.extend # Nil

\* TableL
Table == IF tab # Nil THEN tab ELSE Load(view.body, coord.toc, Moved(coord.reloc, coord.target))
Extent == IF tab # Nil THEN coord.ext ELSE Table.off

\* ConsolidateL: the entry of a stream that was moved is brought up to date.
Consolidated == IF coord.reloc = Nil THEN Table ELSE PutTable(Table, coord.reloc, coord.target)
ConsolidateWrites ==
    IF coord.reloc = Nil THEN <<>>
    ELSE PutWrites(Table, view.body, coord.reloc, coord.target, FALSE)

\* Mutant: the cache keeps the old place of a stream that was moved.
RelocatedUncached(c, h, p) == c

Relocated(c, h, p) == IF h \in DOMAIN c THEN [c EXCEPT ![h] = p] ELSE c
ConsolidatedCache == IF coord.reloc = Nil THEN cache ELSE Relocated(cache, coord.reloc, coord.target)

\* TrimL: what lies behind the last stream or TOC is cut off.
TrimWrites ==
    IF coord.clip /\ \E p \in Pos : p > Extent /\ view.body[p] # Free
    THEN <<[kind |-> "size", pos |-> Extent]>> ELSE <<>>

\* BeginL: the writes that replace the header.
HeaderWrites(hdr) ==
    IF view.atomic THEN <<[kind |-> "header", hdr |-> hdr]>>
    ELSE (IF coord.backup THEN <<[kind |-> "backup", toc |-> coord.toc]>> ELSE <<>>)
         \o <<[kind |-> "header", hdr |-> [hdr EXCEPT !.dirty = TRUE]], [kind |-> "clean"]>>
BackupAfter == coord.backup /\ view.atomic

\* An operation that changes the file starts when the writes before it have
\* been passed on (SeekL); if they cannot be, it leaves and has done nothing.
Begin == Active /\ wq = <<>> /\ Table # Nil

Change == changes < MaxChanges /\ changes' = changes + 1
Fault == faults < MaxFaults /\ faults' = faults + 1 /\ UNCHANGED changes

-----------------------------------------------------------------------------
(* Streams *)

\* What CoordL, TrimL (if the operation trims) and ConsolidateL leave behind.
Prepared(trim) == [coord EXCEPT !.reloc = Nil, !.target = 0, !.ext = Extent, !.clip = @ /\ ~trim]
Prepare(trim) == (IF trim THEN TrimWrites ELSE <<>>) \o ConsolidateWrites

\* ExtendLC: the data of a stream is written behind everything else.
NewPos(d) == IF d = Empty THEN Empty ELSE Extent + 1
DataWrites(d) ==
    IF d = Empty THEN <<>> ELSE <<[kind |-> "block", pos |-> Extent + 1, block |-> DataBlock(d)]>>

StartStream(h, new, d) ==
    /\ Change
    /\ coord.extend = Nil
    /\ d # Empty => Extent < MaxPos
    /\ Write(Prepare(TRUE) \o DataWrites(d))
    /\ coord' = [Prepared(TRUE) EXCEPT !.extend = [h |-> h, new |-> new, pos |-> NewPos(d)]]
    /\ UNCHANGED <<disk, coll, reader, root, phase, faults>>

\* CreateLC on the store: the entry of the new stream is not valid yet.
CreateL(d) ==
    /\ Begin /\ CanAlloc(Table)
    /\ tab' = Alloc(Consolidated, view.body, TRUE)
    /\ cache' = ConsolidatedCache
    /\ StartStream(NewHandle(Table), TRUE, d)

\* ReplaceLC: the entry of the old stream is fetched, and does not change.
ReplaceL(h, d) ==
    /\ Begin /\ h \in Live(Table, view.body)
    /\ LET e == EntryAt(Consolidated, Replay(view, ConsolidateWrites).body, h[1]) IN
       /\ tab' = Fetch(Consolidated, h[1], e)
       /\ cache' = IF h \in DOMAIN ConsolidatedCache THEN ConsolidatedCache
                   ELSE Put(ConsolidatedCache, h, e.ref)
    /\ StartStream(h, FALSE, d)

\* CommitL on the stream: HPermanentStoreBuf::DoSynchL, DoCommit and DoRelease.
CommitStream ==
    /\ Active /\ coord.extend # Nil
    /\ LET x == coord.extend IN
       /\ tab' = Set(tab, x.h, x.pos)
       /\ cache' = IF x.pos = Empty THEN Drop(cache, x.h) ELSE Put(cache, x.h, x.pos)
       /\ coord' = [coord EXCEPT !.extend = Nil, !.ext = IF x.pos = Empty THEN @ ELSE x.pos]
    /\ UNCHANGED <<disk, view, wq, coll, reader, root, phase, changes, faults>>

\* Mutant: the data written so far is not cut off.
ReleasedUncut(c) == [c EXCEPT !.extend = Nil]

Released(c) == [c EXCEPT !.extend = Nil, !.clip = TRUE]

\* The stream is closed without a commit: DoRelease.  A stream that was being
\* replaced stays as it was, but keeps the entry that ReplaceL fetched.
AbandonStream ==
    /\ phase = "ready" /\ coord.extend # Nil
    /\ ~coord.extend.new /\ coord.active => "abandon replace" \in Careless
    /\ tab' = IF coord.extend.new THEN Cancel(tab, coord.extend.h) ELSE tab
    /\ coord' = Released(coord)
    /\ UNCHANGED <<disk, view, wq, cache, coll, reader, root, phase, changes, faults>>

\* An operation that only changes the table.
ChangeTable(t, c) ==
    /\ Change
    /\ Write(Prepare(FALSE))
    /\ tab' = t /\ cache' = c
    /\ coord' = Prepared(FALSE)
    /\ UNCHANGED <<disk, coll, reader, phase, faults>>

ExtendL ==
    /\ Begin /\ CanAlloc(Table)
    /\ ChangeTable(Alloc(Consolidated, view.body, FALSE), ConsolidatedCache)
    /\ UNCHANGED root

\* DeleteL; not of a stream that is being replaced.
DeleteL(h) ==
    /\ Begin /\ h \in Live(Table, view.body)
    /\ coord.extend # Nil => coord.extend.h # h
    /\ ChangeTable(FreeEntry(Consolidated, h), Drop(ConsolidatedCache, h))
    /\ UNCHANGED root

DoSetRootL(h) ==
    /\ Begin /\ h \in Live(Table, view.body)
    /\ ChangeTable([Consolidated EXCEPT !.virtual = TRUE], ConsolidatedCache)
    /\ root' = h

\* DoOpenL for reading, of a stream with data.
OpenStream(h) ==
    /\ Active /\ Table # Nil /\ reader = Nil /\ h \in Live(Table, view.body)
    /\ LET off == At(Table, view.body, h)
           at == IF h \in DOMAIN cache THEN cache[h]
                 ELSE IF coord.reloc = h THEN coord.target ELSE off IN
       /\ at # Empty
       /\ reader' = [h |-> h, pos |-> at,
                     val |-> Contents(Table, view.body, coord.reloc, coord.target)[h]]
       /\ cache' = Put(cache, h, at)
       /\ coord' = IF h \notin DOMAIN cache /\ coord.reloc = h /\ coord.target = off
                   THEN [coord EXCEPT !.ext = Extent, !.reloc = Nil, !.target = 0]
                   ELSE [coord EXCEPT !.ext = Extent]
    /\ tab' = Table
    /\ UNCHANGED <<disk, view, wq, coll, root, phase, changes, faults>>

CloseStream ==
    /\ phase = "ready" /\ reader # Nil
    /\ reader' = Nil
    /\ UNCHANGED <<disk, view, wq, tab, coord, cache, coll, root, phase, changes, faults>>

-----------------------------------------------------------------------------
(* Commit and revert *)

\* A commit of a table with no changes trims, consolidates and synchronises.
CommitUnchanged ==
    /\ Begin /\ coord.extend = Nil /\ ~Table.virtual
    /\ Write(Prepare(TRUE))
    /\ tab' = Consolidated /\ cache' = ConsolidatedCache
    /\ coord' = Prepared(TRUE)
    /\ UNCHANGED <<disk, coll, reader, root, phase, changes, faults>>

\* CommitL as far as RealizeL: the new TOC is written.
CommitToc ==
    /\ Begin /\ coord.extend = Nil /\ Table.virtual /\ Extent < MaxPos
    /\ Write(Prepare(TRUE) \o <<[kind |-> "block", pos |-> Extent + 1,
                                 block |-> Realize(Consolidated, view.body, root)]>>)
    /\ tab' = Consolidated
    /\ coord' = [Prepared(TRUE) EXCEPT !.clip = TRUE]
    /\ phase' = "toc"
    /\ UNCHANGED <<disk, cache, coll, reader, root, changes, faults>>

\* BeginL: from here on a failure shuts the store down.
CommitHeader ==
    /\ phase = "toc" /\ wq = <<>>
    /\ LET new == coord.ext + 1 IN
       Write(HeaderWrites(Header(new, Nil, new, coord.toc, FALSE)))
    /\ coord' = [coord EXCEPT !.backup = BackupAfter, !.active = FALSE]
    /\ phase' = "header"
    /\ UNCHANGED <<disk, tab, cache, coll, reader, root, changes, faults>>

\* The rest of CommitL, once all is written; the generation changes, so that
\* a compaction under way has to start again.
CommitEnd ==
    /\ phase = "header" /\ wq = <<>>
    /\ LET new == coord.ext + 1 IN
       /\ tab' = Adopt(tab, new, root)
       /\ coord' = [coord EXCEPT !.active = TRUE, !.toc = new, !.ext = new,
                                 !.backup = TRUE, !.clip = FALSE]
    /\ coll' = Nil /\ phase' = "ready"
    /\ UNCHANGED <<disk, view, wq, cache, reader, root, changes, faults>>

\* A write of the TOC, or of the backup in the header, fails: the commit leaves
\* and the store goes on; what is queued stays queued.
CommitFails ==
    /\ Fault
    /\ phase = "toc"
    /\ \/ UNCHANGED <<view, wq>>
       \/ /\ wq = <<>> /\ coord.backup /\ ~view.atomic
          /\ Write(<<[kind |-> "backup", toc |-> coord.toc]>>)
    /\ phase' = "ready"
    /\ UNCHANGED <<disk, tab, coord, cache, coll, reader, root>>

\* RevertL, which needs all streams closed.
RevertL ==
    /\ phase = "ready" /\ ~Accessed /\ tab # Nil
    /\ tab' = Nil /\ cache' = NoEntries
    /\ root' = IF tab.virtual THEN tab.primary ELSE root
    /\ coord' = [coord EXCEPT !.clip = @ \/ tab.virtual, !.ext = 0]
    /\ UNCHANGED <<disk, view, wq, coll, reader, phase, changes, faults>>

\* CoordL on a store that was shut down: RefreshL and InternalizeL, which wants
\* the table gone and finds the TOC it knows.
RefreshL ==
    /\ phase = "ready" /\ ~coord.active /\ tab = Nil
    /\ LET r == ReadHeader(view) IN
       /\ r.valid /\ coord.toc \in {0, r.toc}
       /\ coord' = Fresh(r)
    /\ UNCHANGED <<disk, view, wq, tab, cache, coll, reader, root, phase, changes, faults>>

-----------------------------------------------------------------------------
(* Compaction: CPermanentStoreCollector, the variant with all streams in memory *)

\* FastResetL, FastSort and FastExtentL: the streams with data and, below a
\* delta, the base TOC.  The iterator looks at the delta of the file only.
Snapshot(t, body) ==
    LET src == IF HasDelta(t) THEN t ELSE [t EXCEPT !.ent = NoEntries,
                                                    !.count = IF t.toc = 0 THEN 0 ELSE Len(body[t.toc].ent)] IN
    {[h |-> h, pos |-> At(src, body, h)] : h \in {k \in Live(src, body) : At(src, body, k) # Empty}}
      \cup (IF HasDelta(t) THEN {[h |-> TocBase, pos |-> t.toc]} ELSE {})

CompactBegin ==
    /\ Begin
    /\ Table.virtual => "compact dirty" \in Careless
    /\ LET f == Replay(view, Prepare(TRUE)) IN
       coll' = [streams |-> Snapshot(Consolidated, f.body), free |-> 1]
    /\ Write(Prepare(TRUE))
    /\ tab' = Consolidated /\ cache' = ConsolidatedCache
    /\ coord' = Prepared(TRUE)
    /\ UNCHANGED <<disk, reader, root, phase, changes, faults>>

\* DoNextL goes on only with the table it started with, and no changes.
Compacting == Begin /\ coll # Nil /\ ~Table.virtual
First == CHOOSE s \in coll.streams : \A o \in coll.streams : s.pos <= o.pos

\* No hole before the next stream, or nothing that fits into it.
CompactSkip ==
    /\ Compacting /\ coll.streams # {}
    /\ coll' = [streams |-> coll.streams \ {First}, free |-> First.pos + 1]
    /\ tab' = Table /\ coord' = [coord EXCEPT !.ext = Extent]
    /\ UNCHANGED <<disk, view, wq, cache, reader, root, phase, changes, faults>>

CopyTo(p, from) == [kind |-> "block", pos |-> p, block |-> view.body[from]]
NeedsHeader(h) == ~view.atomic \/ (IF h = TocBase THEN 0 ELSE h[1]) \in Straddling

\* Mutant: a stream is moved though one is open.
MayMoveAccessed(s) == s \in coll.streams /\ coll.free < First.pos

\* RelocateStreamL needs exclusive access, and BestFit a hole.
MayMove(s) == ~Accessed /\ s \in coll.streams /\ coll.free < First.pos

\* Mutant: the header or the TOC is changed before the stream is copied.
PutThenCopy(copy, rest) == rest \o <<copy>>

\* The order of the steps that the comment on RelocateStreamL insists on.
MoveWrites(copy, rest) == <<copy>> \o rest

\* FastRelocateL, RelocateStreamL and Coord::RelocateL: stream s is copied into
\* the hole and, where the write of its entry may be torn, recorded in the
\* header first.
CompactStream(s) ==
    /\ Compacting /\ MayMove(s)
    /\ IF NeedsHeader(s.h)
       THEN /\ Write(MoveWrites(CopyTo(coll.free, s.pos),
                               HeaderWrites(Header(coord.toc, s.h, coll.free, coord.toc, FALSE))))
            /\ coord' = [coord EXCEPT !.ext = Extent, !.reloc = s.h, !.target = coll.free,
                                      !.backup = BackupAfter]
            /\ tab' = Table /\ phase' = "put"
            /\ UNCHANGED <<cache, coll>>
       ELSE /\ Write(MoveWrites(CopyTo(coll.free, s.pos),
                               PutWrites(Table, view.body, s.h, coll.free, TRUE)))
            /\ coord' = [coord EXCEPT !.ext = Extent]
            /\ tab' = PutTable(Table, s.h, coll.free)
            /\ cache' = Relocated(cache, s.h, coll.free)
            /\ coll' = [streams |-> coll.streams \ {s}, free |-> coll.free + 1]
            /\ UNCHANGED phase
    /\ UNCHANGED <<disk, reader, root, changes, faults>>

\* The rest of RelocateL: its entry in the TOC is overwritten.
PutL ==
    /\ phase = "put" /\ wq = <<>>
    /\ Write(PutWrites(tab, view.body, coord.reloc, coord.target, TRUE))
    /\ tab' = PutTable(tab, coord.reloc, coord.target)
    /\ cache' = Relocated(cache, coord.reloc, coord.target)
    /\ coll' = [streams |-> {s \in coll.streams : s.h # coord.reloc}, free |-> coord.target + 1]
    /\ coord' = [coord EXCEPT !.reloc = Nil, !.target = 0]
    /\ phase' = "ready"
    /\ UNCHANGED <<disk, reader, root, changes, faults>>

Pending(kind) == \E i \in 1 .. Len(wq) : wq[i].kind = kind

\* PutL leaves: the stream stays recorded as moved, and the collector is stale.
PutFails ==
    /\ Fault
    /\ phase = "put" /\ ~Pending("header")
    /\ coll' = Nil /\ phase' = "ready"
    /\ UNCHANGED <<disk, view, wq, tab, coord, cache, reader, root>>

\* RelocateTocL and MoveL as far as BeginL: the TOC follows the last stream.
CompactToc ==
    /\ Compacting /\ coll.streams = {} /\ coord.toc # 0 /\ coll.free < coord.toc
    /\ Accessed => "compact accessed" \in Careless
    /\ Write(<<CopyTo(coll.free, coord.toc)>>
               \o HeaderWrites(Header(coll.free, Nil, coll.free, coord.toc, FALSE)))
    /\ tab' = Table
    /\ coord' = [coord EXCEPT !.ext = Extent, !.backup = BackupAfter]
    /\ phase' = "move"
    /\ UNCHANGED <<disk, cache, coll, reader, root, changes, faults>>

\* The rest of MoveL; the last write is still queued.
MoveL ==
    /\ phase = "move" /\ ~Pending("header")
    /\ tab' = [tab EXCEPT !.off = coll.free, !.toc = IF HasDelta(tab) THEN @ ELSE coll.free]
    /\ coord' = [coord EXCEPT !.toc = coll.free, !.backup = TRUE,
                              !.ext = IF @ = tab.off THEN coll.free ELSE @,
                              !.clip = @ \/ coord.ext = tab.off]
    /\ coll' = Nil /\ phase' = "ready"
    /\ UNCHANGED <<disk, view, wq, cache, reader, root, changes, faults>>

-----------------------------------------------------------------------------
(* The file system, failures, crashes *)

Flush ==
    /\ wq # <<>>
    /\ disk' = Apply(disk, Head(wq))
    /\ wq' = Tail(wq)
    /\ UNCHANGED <<view, tab, coord, cache, coll, reader, root, phase, changes, faults>>

\* A write fails, perhaps half done, and those behind it are given up.
LoseWrites ==
    /\ disk' \in {disk} \cup (IF wq = <<>> THEN {} ELSE CutShort(disk, Head(wq)))
    /\ view' = disk' /\ wq' = <<>>

\* While the host is released, in BeginL or in the SynchL of a commit with or
\* without changes or of a revert, the failure shuts the store down.  A client
\* that sees it gives up its compaction.
HostFails ==
    /\ Fault
    /\ wq # <<>>
    /\ \/ phase \in {"header", "put", "move"} /\ Head(wq).kind = "header"
       \/ phase = "header" /\ Head(wq).kind = "clean"
       \/ phase = "ready" /\ coord.active /\ (tab # Nil => ~tab.virtual)
    /\ LoseWrites
    /\ coord' = [coord EXCEPT !.active = FALSE, !.reloc = Nil, !.target = 0]
    /\ coll' = Nil /\ phase' = "ready"
    /\ UNCHANGED <<tab, cache, reader, root>>

Closed ==
    /\ tab' = Nil /\ cache' = NoEntries /\ coll' = Nil /\ reader' = Nil /\ root' = Nil
    /\ coord' = [Fresh(ReadHeader(disk')) EXCEPT !.active = FALSE]
    /\ phase' = "closed"

\* The process dies.
Crash ==
    /\ phase # "closed"
    /\ Fault
    /\ LoseWrites
    /\ Closed

\* The store is deleted, which no stream or collector may refer to any more;
\* what is queued is passed on first.
Close ==
    /\ phase = "ready" /\ ~Accessed /\ coll = Nil /\ wq = <<>>
    /\ UNCHANGED <<disk, view, wq, changes, faults>>
    /\ Closed

\* MarshalL: header, table of contents, root.
Open ==
    /\ phase = "closed"
    /\ LET r == ReadHeader(disk)
           t == Load(disk.body, r.toc, Moved(r.reloc, r.target)) IN
       /\ r.valid /\ t # Nil
       /\ tab' = t /\ root' = t.primary
       /\ coord' = [Fresh(r) EXCEPT !.ext = t.off]
    /\ phase' = "ready"
    /\ UNCHANGED <<disk, view, wq, cache, coll, reader, changes, faults>>

\* A new store: ExternalizeL has written a header of zeros.
Init ==
    /\ disk \in [hdr : {Header(0, Nil, 0, 0, FALSE)}, body : [Pos -> {Free}], atomic : Media]
    /\ view = disk /\ wq = <<>>
    /\ tab = Nil /\ cache = NoEntries /\ coll = Nil /\ reader = Nil /\ root = Nil
    /\ changes = 0 /\ faults = 0
    /\ coord = [Fresh(ReadHeader(disk)) EXCEPT !.clip = FALSE]
    /\ phase = "ready"

Datum == Data \cup {Empty}
Next ==
    \/ \E d \in CreateData : CreateL(d)
    \/ \E h \in Handles, d \in ReplaceData : ReplaceL(h, d)
    \/ CommitStream \/ AbandonStream \/ ExtendL \/ CloseStream
    \/ \E h \in Handles : DeleteL(h)
    \/ \E h \in Roots : DoSetRootL(h)
    \/ \E h \in ReadStreams : OpenStream(h)
    \/ CommitUnchanged \/ CommitToc \/ CommitHeader \/ CommitEnd \/ CommitFails
    \/ RevertL \/ RefreshL
    \/ CompactBegin \/ CompactSkip \/ PutL \/ PutFails \/ CompactToc \/ MoveL
    \/ coll # Nil /\ \E s \in coll.streams : CompactStream(s)
    \/ Flush \/ HostFails \/ Crash \/ Close \/ Open

Spec == Init /\ [][Next]_storeVars

-----------------------------------------------------------------------------
(* Properties *)

\* What the next process to open the file will find.
\* (A value bound by a set constructor is computed once.)
The(S) == CHOOSE x \in S : TRUE
Unreadable == [root |-> Torn, streams |-> NoEntries]
Held(f, r) ==
    The({IF t = Nil THEN Unreadable
         ELSE [root |-> t.primary, streams |-> Contents(t, f.body, r.reloc, r.target)]
           : t \in {Load(f.body, r.toc, Moved(r.reloc, r.target))}})
Stable == The({IF r.valid THEN Held(disk, r) ELSE Unreadable : r \in {ReadHeader(disk)}})

\* What the client has.
Usable == phase # "closed" /\ (coord.active \/ phase = "header")
Current ==
    IF ~Usable THEN Stable
    ELSE The({IF t = Nil THEN Unreadable
              ELSE [root |-> root, streams |-> Contents(t, view.body, coord.reloc, coord.target)]
                : t \in {Table}})

Streams == INSTANCE StreamStore
    WITH Stream <- Handles, NoRoot <- Nil, stable <- Stable, current <- Current

\* However writes are delayed, torn or lost, and whatever fails, the file holds
\* the streams of the last commit point, or of the next one as soon as the one
\* byte (or block) that completes it is written; moving streams and the TOC in
\* a compaction is not visible, neither to the client nor after a crash.
StoreRefinement == Streams!StreamSpec

\* A place remembered in iCache is where the stream is now: no stream that was
\* deleted, reverted or moved is read at its old place (DoOpenL asks the cache
\* first).
CacheCorrect ==
    Usable /\ tab # Nil => \A h \in DOMAIN cache :
        /\ h \in DOMAIN Current.streams
        /\ IF cache[h] = Empty THEN Current.streams[h] = Empty
           ELSE view.body[cache[h]] = DataBlock(Current.streams[h])

\* The free entries are linked into one list that ends, and each is on it, but
\* for the one of a stream being created: none is lost, none handed out twice.
AvailChain(t, body) ==
    LET c[n \in 0 .. MaxIndex] ==
            IF n = 0 THEN t.avail
            ELSE IF c[n - 1] = Nil THEN Nil ELSE EntryAt(t, body, c[n - 1][1]).ref IN c
FreeListInv ==
    Usable /\ tab # Nil =>
        LET c == AvailChain(tab, view.body)
            free == {i \in 1 .. tab.count : EntryAt(tab, view.body, i).inv}
            created == IF coord.extend # Nil /\ coord.extend.new THEN {coord.extend.h[1]} ELSE {}
            used == {n \in 0 .. MaxIndex : c[n] # Nil} IN
        /\ c[MaxIndex] = Nil
        /\ {c[n] : n \in used} = {<<i, EntryAt(tab, view.body, i).gen>> : i \in free \ created}
        /\ Cardinality(used) = Cardinality(free \ created)

\* Whoever reads a stream goes on reading what it opened, through commits,
\* compactions and failures, as long as nobody deletes the stream.
ReaderStable ==
    reader # Nil /\ coord.active /\ reader.h \in Live(tab, view.body) =>
        view.body[reader.pos] = DataBlock(reader.val)

\* ExtendLC relies on it: when no cut is due, the file ends with the last
\* stream or TOC, or with the stream being written.
Trimmed ==
    phase = "ready" /\ coord.active /\ ~coord.clip /\ tab # Nil =>
        \A p \in Pos : view.body[p] # Free =>
            p <= (IF coord.extend = Nil \/ coord.extend.pos = Empty THEN coord.ext ELSE coord.extend.pos)
=============================================================================
