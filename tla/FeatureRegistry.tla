--------------------------- MODULE FeatureRegistry ---------------------------
(***************************************************************************)
(* The registry of the feature manager (featuremgmt/featuremgr):           *)
(* CFeatMgrFeatureRegistry, its file of persisted features and the         *)
(* operations it caches for an executable that the software installer      *)
(* launched.  The operators take and return two records,                   *)
(*   r, the registry: the list in memory, the file features.dat, whether   *)
(*      the file has been read, and unsaved: the features whose last       *)
(*      change did not reach the file (the client was told so);            *)
(*   w, the caching: the iSWI... members, and of the operations cached:    *)
(*      current, those since the last SWIStart, and promised, those whose  *)
(*      SWIEnd was accepted and whose installation has not ended.          *)
(* unsaved, current and promised are history, no decision reads them.      *)
(***************************************************************************)
EXTENDS Integers, Sequences, SequencesExt, FiniteSets

CONSTANTS
    Feature,     \* the UIDs
    Data,        \* the data of a feature
    KDefaultData,
    Session,     \* the clients, each a process with one session
    Absent,      \* no entry
    NoData,      \* a request without data
    NoFile,      \* features.dat is missing
    Torn,        \* features.dat was created and not written
    Rom,         \* the list ReadFeatureFilesL builds from the ROM's files
    MAXSWIOPS    \* the most operations cached for one executable

Flags == {"EFeatureRuntime", "EFeaturePersisted", "EFeatureModifiable",
          "EFeatureUninitialized", "EFeatureBlackListed"}
Entry == [supported : BOOLEAN, data : Data, flags : SUBSET Flags]
Listing == [Feature -> Entry \cup {Absent}]

ASSUME RegistryAssumption ==
    /\ IsFiniteSet(Session)
    /\ KDefaultData \in Data
    /\ Absent \notin Entry /\ NoData \notin Data
    /\ NoFile # Torn /\ {NoFile, Torn} \cap Listing = {}
    /\ Rom \in Listing
    /\ \A f \in Feature : Rom[f] # Absent => "EFeatureRuntime" \notin Rom[f].flags
    /\ MAXSWIOPS \in Nat \ {0}

\* The requests that change a feature.
Command ==
    [op : {"add"}, f : Feature, e : Entry] \cup [op : {"delete"}, f : Feature]
      \cup [op : {"set"}, f : Feature, enable : {"enable", "disable", "untouch"},
            data : Data \cup {NoData}]

Has(l, f) == l[f] # Absent
Flagged(l, f, flag) == Has(l, f) /\ flag \in l[f].flags
Empty == [f \in Feature |-> Absent]

\* ValidateRuntimeFeatureFlagL
Valid(flags) ==
    /\ "EFeatureBlackListed" \notin flags
    /\ "EFeatureUninitialized" \in flags => "EFeatureModifiable" \in flags
-----------------------------------------------------------------------------
(* Reading: ReadFileL over the features known so far, ReadRuntimeFeaturesL. *)

\* Mutant: every entry must be of a feature that is known.
CorruptUnknown(list, file) ==
    \E f \in Feature : Has(file, f) /\ (~Valid(file[f].flags) \/ ~Has(list, f))

\* An entry that is not of the run time must be of a feature that is known.
Corrupt(list, file) ==
    \E f \in Feature : /\ Has(file, f)
                       /\ \/ ~Valid(file[f].flags)
                          \/ ~Flagged(file, f, "EFeatureRuntime") /\ ~Has(list, f)

\* Mutant: a feature of the ROM is left as it is.
OverlaidNew(list, file) ==
    [f \in Feature |-> IF Has(list, f) THEN list[f] ELSE file[f]]

\* The file's entries replace those of the list, but for a blacklisted feature.
Overlaid(list, file) ==
    [f \in Feature |-> IF Has(file, f) /\ ~Flagged(list, f, "EFeatureBlackListed")
                       THEN file[f] ELSE list[f]]

\* A file that cannot be read to its end (KErrEof) is neither used nor deleted.
ReadRuntimeFeaturesL(r) ==
    CASE r.file = NoFile -> [r EXCEPT !.ready = TRUE]
      [] r.file = Torn -> r
      [] r.file \notin {NoFile, Torn} /\ Corrupt(r.list, r.file) ->
            [r EXCEPT !.file = NoFile, !.ready = TRUE]
      [] r.file \notin {NoFile, Torn} /\ ~Corrupt(r.list, r.file) ->
            [r EXCEPT !.list = Overlaid(r.list, r.file), !.ready = TRUE]
-----------------------------------------------------------------------------
(* Writing: UpdateRuntimeFeaturesFileL.  out is what the file system does:  *)
(* "done", "fails", or "torn", out of space after the file was created.     *)
(* An existing file is rewritten beside itself and replaced.                *)

\* Mutant: the entries that did not change are not copied.
UpdatedAlone(file, f, e, type) ==
    [Empty EXCEPT ![f] = IF type = "EFeatureFeatureDeleted" THEN Absent ELSE e]

\* A deleted entry that is not there is inserted like a new one.
Updated(file, f, e, type) ==
    IF Has(file, f) /\ type = "EFeatureFeatureDeleted"
    THEN [file EXCEPT ![f] = Absent]
    ELSE [file EXCEPT ![f] = e]

UpdateRuntimeFeaturesFileL(file, f, e, type, out) ==
    CASE file = NoFile /\ out = "done" -> [Empty EXCEPT ![f] = e]
      [] file = NoFile /\ out = "torn" -> Torn
      [] file \notin {NoFile, Torn} /\ out = "done" -> Updated(file, f, e, type)
      [] OTHER -> file

\* The list keeps the change whether or not the file could be written.  The
\* deletion of a feature that the file lacks, because its addition could not
\* be written, writes it there: the feature stays unsaved.
HandleChange(r, f, e, type, out) ==
    IF "EFeaturePersisted" \notin e.flags
    THEN r
    ELSE [r EXCEPT
            !.file = UpdateRuntimeFeaturesFileL(r.file, f, e, type, out),
            !.unsaved = IF /\ r.file # Torn /\ out = "done"
                           /\ type = "EFeatureFeatureDeleted" => f \notin r.unsaved
                        THEN @ \ {f} ELSE @ \cup {f}]

AddFeature(r, f, e, out) ==
    LET entry == [e EXCEPT !.flags = @ \cup {"EFeatureRuntime"}]
    IN IF Has(r.list, f) \/ ~Valid(entry.flags)
       THEN r
       ELSE HandleChange([r EXCEPT !.list[f] = entry], f, entry,
                         "EFeatureFeatureCreated", out)

DeleteFeature(r, f, out) ==
    IF Flagged(r.list, f, "EFeatureRuntime")
    THEN HandleChange([r EXCEPT !.list[f] = Absent], f, r.list[f],
                      "EFeatureFeatureDeleted", out)
    ELSE r

SetFeature(r, f, enable, data, out) ==
    IF ~Flagged(r.list, f, "EFeatureModifiable")
    THEN r
    ELSE LET old == r.list[f]
             entry == [supported |-> IF enable = "untouch" THEN old.supported
                                     ELSE enable = "enable",
                       data |-> IF data = NoData THEN old.data ELSE data,
                       flags |-> old.flags \ {"EFeatureUninitialized"}]
         IN HandleChange([r EXCEPT !.list[f] = entry], f, entry,
                         "EFeatureStatusDataUpdated", out)

Apply(r, q, out) ==
    CASE q.op = "add" -> AddFeature(r, q.f, q.e, out)
      [] q.op = "delete" -> DeleteFeature(r, q.f, out)
      [] q.op = "set" -> SetFeature(r, q.f, q.enable, q.data, out)
-----------------------------------------------------------------------------
(* The caching for the software installer.                                 *)

NoProcess == "1"

\* Mutant: the cached operations stay.
SWIResetKeeping(w) ==
    [w EXCEPT !.current = <<>>, !.caching = FALSE, !.process = NoProcess,
              !.status = "ESWIComplete", !.oom = FALSE, !.count = 0,
              !.listening = FALSE, !.timer = FALSE]

SWIReset(w) ==
    [w EXCEPT !.ops = <<>>, !.current = <<>>, !.caching = FALSE, !.process = NoProcess,
              !.status = "ESWIComplete", !.oom = FALSE, !.count = 0,
              !.listening = FALSE, !.timer = FALSE]

SWIInit == [ops |-> <<>>, caching |-> FALSE, process |-> NoProcess,
            status |-> "ESWIComplete", oom |-> FALSE, count |-> 0,
            listening |-> FALSE, timer |-> FALSE, event |-> FALSE,
            added |-> FALSE, current |-> <<>>, promised |-> <<>>]

\* What the cache keeps of a request: "untouch" is a number other than zero,
\* which the flag EFeatureSupported takes for true.
Cached(q) == IF q.op = "set" /\ q.enable = "untouch"
             THEN [q EXCEPT !.enable = "enable"] ELSE q

\* oom: the array could not grow.  added stands for iAddFeatCount > 0: the
\* counter is never reset.
SWICacheCommand(w, q, oom) ==
    IF w.count >= MAXSWIOPS \/ w.oom THEN w
    ELSE LET counted == [w EXCEPT !.added = @ \/ q.op = "add"]
         IN IF oom THEN [counted EXCEPT !.oom = TRUE]
            ELSE [counted EXCEPT !.ops = Append(@, Cached(q)), !.count = @ + 1,
                                 !.current = Append(@, Cached(q))]

\* Mutant: no timer.
SWIStartUntimed(w, s, installing, short) ==
    IF w.caching \/ ~installing THEN w
    ELSE [w EXCEPT !.caching = TRUE, !.status = "ESWIInstalling", !.process = s,
                   !.current = <<>>, !.listening = ~short, !.event = FALSE]

\* short: memory runs out when the listener and the timer are created.
SWIStart(w, s, installing, short) ==
    IF w.caching \/ ~installing THEN w
    ELSE [w EXCEPT !.caching = TRUE, !.status = "ESWIInstalling", !.process = s,
                   !.current = <<>>, !.listening = ~short, !.timer = ~short,
                   !.event = FALSE]

\* short: room for the features to be added could not be reserved.  The answer
\* is not recorded: without an addition it is KErrGeneral, and the operations
\* are kept all the same.  Operations that are refused stay in the array, but
\* belong to nobody.
SWIEnd(w, s, short) ==
    LET zeroed == [w EXCEPT !.count = 0]
    IN IF ~(w.caching /\ w.process = s) THEN zeroed
       ELSE IF w.status = "ESWIAborted" THEN SWIReset(w)
       ELSE IF w.oom \/ (short /\ w.added)
            THEN [zeroed EXCEPT !.caching = FALSE, !.timer = FALSE,
                                !.current = <<>>, !.status = "ESWIOutOfMemory"]
            ELSE [zeroed EXCEPT !.caching = FALSE, !.timer = FALSE,
                                !.current = <<>>, !.promised = @ \o w.current]

\* A request of a client to the registry; DispatchMessageL.
Dispatch(x, s, q, installing, out, oom) ==
    CASE q.op = "SWIStart" ->
            [x EXCEPT !.w = SWIStart(@, s, installing, oom)]
      [] q.op = "SWIEnd" -> [x EXCEPT !.w = SWIEnd(@, s, oom)]
      [] q.op \in {"add", "delete", "set"} /\ x.w.caching /\ x.w.process = s ->
            [x EXCEPT !.w = SWICacheCommand(@, q, oom)]
      [] OTHER -> [x EXCEPT !.r = Apply(@, q, out)]

\* CommitSWIFeatChanges.  Nobody caches, so the operations take effect.
CommitSWIFeatChanges(x, out) ==
    LET r[n \in 0 .. Len(x.w.ops)] ==
            IF n = 0 THEN x.r ELSE Apply(r[n - 1], x.w.ops[n], out)
    IN [r |-> r[Len(x.w.ops)],
        w |-> [SWIReset(x.w) EXCEPT !.promised = <<>>]]

\* SWIAborted
SWIAborted(w) ==
    IF w.caching THEN [w EXCEPT !.status = "ESWIAborted"]
    ELSE [SWIReset(w) EXCEPT !.promised = <<>>]

\* Mutant: a successful installation commits whatever was cached.
ListenedRefused(x, install, out) ==
    CASE install = "success" /\ ~x.w.caching -> CommitSWIFeatChanges(x, out)
      [] install = "success" /\ x.w.caching -> [x EXCEPT !.w = SWIReset(@)]
      [] install = "aborted" -> [x EXCEPT !.w = SWIAborted(@)]
      [] OTHER -> x

\* CSWIListener::RunL: what the listener does with the installation's state
\* when it runs.
Listened(x, install, out) ==
    CASE install = "success" /\ x.w.status # "ESWIOutOfMemory" /\ ~x.w.caching ->
            CommitSWIFeatChanges(x, out)
      [] install = "success" /\ (x.w.status = "ESWIOutOfMemory" \/ x.w.caching) ->
            [x EXCEPT !.w = SWIReset(@)]
      [] install = "aborted" -> [x EXCEPT !.w = SWIAborted(@)]
      [] OTHER -> x

\* CSWITimer::RunL
SWITimedOut(w) == IF w.caching THEN SWIReset(w) ELSE w
=============================================================================
