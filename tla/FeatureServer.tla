---------------------------- MODULE FeatureServer ----------------------------
(***************************************************************************)
(* The feature manager server: CFeatMgrServer with its plugins, its timer  *)
(* and its part in backup and restore (CBurState), the requests of its     *)
(* sessions (CFeatMgrSession) and the registry they change.  The server is *)
(* one thread: an action is one run of an active object or one request.    *)
(***************************************************************************)
EXTENDS FeatureRegistry

CONSTANTS
    Plugin,      \* the plugins in the ROM
    PluginKind,  \* "simple", "mixed" or "enhanced"
    PluginInfo,  \* what a plugin answers: an entry for some features
    Idle,        \* no request
    Requests,    \* the requests of the clients
    LockFlags,   \* the TFileLockFlags the backup server sends
    Restored,    \* the files a restore may bring
    Outcomes,    \* what the file system may do
    Installs,    \* whether software is installed
    MaxChanges, MaxFaults, MaxBur,  \* bounds of requests, failures, backups
    Careless     \* what the model's environment may do, see the README

ASSUME ServerAssumption ==
    /\ PluginKind \in [Plugin -> {"simple", "mixed", "enhanced"}]
    /\ PluginInfo \in [Plugin -> Listing]
    /\ Requests \subseteq Command \cup [op : {"SWIStart", "SWIEnd"}]
    /\ Idle \notin Command \cup [op : {"SWIStart", "SWIEnd"}]
    /\ LockFlags \subseteq {"EReleaseLockReadOnly", "EReleaseLockNoAccess", "ETakeLock"}
    /\ Restored \subseteq Listing
    /\ "done" \in Outcomes /\ Outcomes \subseteq {"done", "fails", "torn"}
    /\ Installs \in BOOLEAN
    /\ {MaxChanges, MaxFaults, MaxBur} \subseteq Nat

VARIABLES
    reg,      \* the registry: list, file, ready (iFeaturesReady), unsaved
    swi,      \* the cached operations
    srv,      \* the server's members, below
    queue,    \* iList of each session: the request it waits for
    install,  \* the property KSAUidSoftwareInstallKeyValue
    up,       \* whether the server runs
    used      \* how much of the bounds is used

vars == <<reg, swi, srv, queue, install, up, used>>

World == [r |-> reg, w |-> swi]
Installing == install = "installing"
-----------------------------------------------------------------------------
(* Bounds and failures.                                                    *)

\* A step that meets the outcome out, and memory running out or not.
Meets(out, oom) ==
    /\ (out # "done" \/ oom) => used.faults < MaxFaults
Fault(out, oom) == IF out # "done" \/ oom THEN 1 ELSE 0
-----------------------------------------------------------------------------
(* The requests that waited: ServicePendingRequests of the server and of    *)
(* the sessions.  order is the order of the sessions in the server's list.  *)

Orders == {o \in [1 .. Cardinality(Session) -> Session] : IsInjective(o)}

Served(x, order, out) ==
    LET y[n \in 0 .. Len(order)] ==
            IF n = 0 THEN x
            ELSE LET s == order[n]
                 IN IF queue[s] = Idle THEN y[n - 1]
                    ELSE Dispatch(y[n - 1], s, queue[s], Installing, out, FALSE)
    IN y[Len(order)]

NoneWaits == [s \in Session |-> Idle]
-----------------------------------------------------------------------------
(* Plugins.                                                                *)

\* LoadPluginsL: a plugin that does not know the first command gets the other.
Asked == [p \in Plugin |-> IF PluginKind[p] = "enhanced" THEN "enhanced" ELSE "basic"]
NoPlugins == [p \in Plugin |-> "none"]

\* MergePluginFeaturesL, of the list of a basic and of an enhanced answer.
MergedBasic(list, info) ==
    [f \in Feature |->
        IF ~Has(info, f) \/ Flagged(list, f, "EFeatureBlackListed") THEN list[f]
        ELSE IF Has(list, f) THEN [list[f] EXCEPT !.supported = info[f].supported]
        ELSE [supported |-> info[f].supported, data |-> KDefaultData, flags |-> {}]]
MergedEnhanced(list, info) ==
    [f \in Feature |->
        IF ~Has(info, f) \/ Flagged(list, f, "EFeatureBlackListed") THEN list[f]
        ELSE info[f]]
Merged(list, p, command) ==
    IF command = "basic" THEN MergedBasic(list, PluginInfo[p])
    ELSE MergedEnhanced(list, PluginInfo[p])

\* FeatureInfoL: after its basic answer a plugin is asked for the other one.
Answered(p) ==
    IF srv.plugins[p] = "basic" /\ PluginKind[p] = "mixed" THEN "enhanced" ELSE "ready"

\* ReadRuntimeFeaturesL where the features are not ready yet.
ReadOnce(r) == IF r.ready THEN r ELSE ReadRuntimeFeaturesL(r)

\* A plugin answers: FeatureInfoL and CheckPluginsReadyL.  When the file
\* cannot be read the latter leaves before it serves anybody.
PluginAnswers(p) ==
    /\ up = "up" /\ srv.plugins[p] \in {"basic", "enhanced"}
    /\ LET plugins == [srv.plugins EXCEPT ![p] = Answered(p)]
           all == \A q \in Plugin : plugins[q] = "ready"
           merged == [reg EXCEPT !.list = Merged(@, p, srv.plugins[p])]
           r == IF all THEN ReadOnce(merged) ELSE merged
           serves == all /\ r.ready /\ srv.pending
       IN \E order \in Orders, out \in Outcomes :
            LET x == IF serves THEN Served([r |-> r, w |-> swi], order, out)
                     ELSE [r |-> r, w |-> swi]
            IN /\ Meets(out, FALSE) /\ (~serves => out = "done")
               /\ reg' = x.r /\ swi' = x.w
               /\ queue' = IF serves THEN NoneWaits ELSE queue
               /\ srv' = [srv EXCEPT !.plugins = plugins, !.pluginsReady = all,
                                     !.pending = @ /\ ~serves]
               /\ used' = [used EXCEPT !.faults = @ + Fault(out, FALSE)]
    /\ UNCHANGED <<install, up>>

\* Mutant: nobody is served while the features are not ready.
TimerServesReady == ~srv.pluginsDeleted /\ srv.pending /\ reg.ready

TimerServes == ~srv.pluginsDeleted /\ srv.pending

\* TimerFired and DeletePlugins: whoever has not answered is not waited for.
TimerFired ==
    /\ up = "up" /\ srv.timers > 0
    /\ \E order \in Orders, out \in Outcomes :
         LET serves == TimerServes
             r == IF srv.pluginsDeleted THEN reg ELSE ReadOnce(reg)
             x == IF serves THEN Served([r |-> r, w |-> swi], order, out)
                  ELSE [r |-> r, w |-> swi]
         IN /\ Meets(out, FALSE) /\ (~serves => out = "done")
            /\ reg' = x.r /\ swi' = x.w
            /\ queue' = IF serves THEN NoneWaits ELSE queue
            /\ used' = [used EXCEPT !.faults = @ + Fault(out, FALSE)]
    /\ srv' = IF srv.pluginsDeleted THEN [srv EXCEPT !.timers = @ - 1]
              ELSE [srv EXCEPT !.timers = @ - 1, !.pluginsReady = TRUE,
                               !.pending = @ /\ ~TimerServes, !.plugins = NoPlugins,
                               !.pluginsDeleted = TRUE]
    /\ UNCHANGED <<install, up>>
-----------------------------------------------------------------------------
(* Requests: CFeatMgrSession::ServiceL, for the requests that write.  They  *)
(* are refused during a backup or a restore, and wait for the plugins       *)
(* otherwise.  A client waits for the answer to its request.                *)

Wait(s, q) ==
    /\ up = "up" /\ queue[s] = Idle /\ used.changes < MaxChanges
    /\ ~srv.pluginsReady /\ ~srv.busy
    /\ queue' = [queue EXCEPT ![s] = q]
    /\ used' = [used EXCEPT !.changes = @ + 1]
    /\ UNCHANGED <<reg, swi, srv, install, up>>

\* Left out of the model's environment unless Careless says otherwise.
Careful(q, oom) ==
    /\ q.op = "SWIStart" =>
          /\ swi.promised # <<>> => "two executables" \in Careless
          /\ swi.status = "ESWIOutOfMemory" => "after refusal" \in Careless
          /\ oom => "failed start" \in Careless

Request(s, q) ==
    /\ up = "up" /\ queue[s] = Idle /\ used.changes < MaxChanges
    /\ srv.pluginsReady /\ ~srv.busy
    /\ \E out \in Outcomes, oom \in BOOLEAN :
         LET x == Dispatch(World, s, q, Installing, out, oom)
         IN /\ Meets(out, oom) /\ Careful(q, oom)
            /\ x # World
            /\ reg' = x.r /\ swi' = x.w
            /\ used' = [used EXCEPT !.changes = @ + 1, !.faults = @ + Fault(out, oom)]
    /\ UNCHANGED <<srv, queue, install, up>>
-----------------------------------------------------------------------------
(* Software installation.  The listener reads the property when it runs,    *)
(* and the installer may have set it again by then.                         *)

\* Mutant: the listener is not waiting when the caching has ended.
ListenerCaching(w) == [w EXCEPT !.event = w.listening /\ w.caching]

Listener(w) == [w EXCEPT !.event = w.listening]

SetProperty(old, new) ==
    /\ up = "up" /\ Installs /\ install = old
    /\ swi.event => "missed" \in Careless
    /\ new = "installing" => used.changes < MaxChanges
    /\ install' = new /\ swi' = Listener(swi)
    /\ UNCHANGED <<reg, srv, queue, up, used>>
InstallStarts == SetProperty("none", "installing")
InstallEnds == \E result \in {"success", "aborted"} : SetProperty("installing", result)
InstallOver == \E result \in {"success", "aborted"} : SetProperty(result, "none")

ListenerRuns ==
    /\ up = "up" /\ swi.listening /\ swi.event
    /\ \E out \in Outcomes :
         LET x == Listened([World EXCEPT !.w.event = FALSE], install, out)
         IN /\ Meets(out, FALSE) /\ (x.r = reg => out = "done")
            /\ reg' = x.r /\ swi' = x.w
            /\ used' = [used EXCEPT !.faults = @ + Fault(out, FALSE)]
    /\ UNCHANGED <<srv, queue, install, up>>

SWITimerRuns ==
    /\ up = "up" /\ swi.timer
    /\ swi' = [SWITimedOut(swi) EXCEPT !.timer = FALSE]
    /\ UNCHANGED <<reg, srv, queue, install, up, used>>
-----------------------------------------------------------------------------
(* Backup and restore: ChangeFileLockL, BUR_StateMachine and the functions  *)
(* its tables name.                                                        *)

\* ClearFeaturesL and LoadFeaturesL.
Reloaded ==
    LET cleared == [reg EXCEPT !.list = Rom, !.ready = FALSE]
    IN IF Plugin = {} THEN ReadRuntimeFeaturesL(cleared) ELSE cleared
Reloading(server) ==
    [server EXCEPT !.pluginsReady = Plugin = {}, !.pluginsDeleted = FALSE,
                   !.pending = TRUE, !.plugins = Asked,
                   !.timers = IF Plugin = {} THEN @ ELSE @ + 1]
Serving(server) == [server EXCEPT !.pluginsReady = TRUE, !.pending = FALSE]

\* Goto_StartBackupState, Goto_StartRestoreState
Starts(flag, state) ==
    /\ srv.bur = "None" /\ flag \in LockFlags /\ used.bur < MaxBur
    /\ srv' = [srv EXCEPT !.bur = state, !.busy = TRUE]
    /\ used' = [used EXCEPT !.bur = @ + 1]
    /\ UNCHANGED <<reg, swi, queue, install, up>>
StartBackup == up = "up" /\ Starts("EReleaseLockReadOnly", "BackupStarted")
StartRestore == up = "up" /\ Starts("EReleaseLockNoAccess", "RestoreStarted")

\* The requests that wait are served, by the registry r and the server v.
ServeAll(r, v) ==
    \E order \in Orders, out \in Outcomes :
        LET x == Served([r |-> r, w |-> swi], order, out)
        IN /\ Meets(out, FALSE) /\ (queue = NoneWaits => out = "done")
           /\ reg' = x.r /\ swi' = x.w /\ queue' = NoneWaits
           /\ srv' = [v EXCEPT !.pending = FALSE]
           /\ used' = [used EXCEPT !.faults = @ + Fault(out, FALSE)]

\* Goto_EndBackupState, then Goto_NormalState.  Goto_ErrorState does the same
\* when the lock is released a second time.
EndBackup ==
    /\ up = "up" /\ srv.bur = "BackupStarted"
    /\ ServeAll(reg, [srv EXCEPT !.bur = "None", !.busy = FALSE])
    /\ UNCHANGED <<install, up>>

\* The restore brings another file; the server holds no lock on it.
RestoreFile ==
    /\ up = "up" /\ srv.bur = "RestoreStarted"
    /\ \E file \in Restored : reg' = [reg EXCEPT !.file = file, !.unsaved = {}]
    /\ UNCHANGED <<swi, srv, queue, install, up, used>>

\* Goto_EndRestoreState, then Goto_NormalState.  When the features cannot be
\* loaded the state is Error, from which no lock flag leads away.
EndRestore ==
    /\ up = "up" /\ srv.bur = "RestoreStarted"
    /\ LET v == [Reloading(srv) EXCEPT !.busy = FALSE]
       IN IF Plugin # {} \/ Reloaded.ready
          THEN ServeAll(Reloaded, [Serving(v) EXCEPT !.bur = "None"])
          ELSE /\ reg' = Reloaded /\ srv' = [v EXCEPT !.bur = "Error"]
               /\ UNCHANGED <<swi, queue, used>>
    /\ UNCHANGED <<install, up>>

\* Goto_ErrorState: the lock is released again during a restore.  The state is
\* None afterwards and iBURInProgress stays set: requests are still refused.
RestoreAgain ==
    /\ up = "up" /\ srv.bur = "RestoreStarted"
    /\ ServeAll(Reloaded, [Serving(Reloading(srv)) EXCEPT !.bur = "None"])
    /\ UNCHANGED <<install, up>>
-----------------------------------------------------------------------------
(* The device restarts.  A file that cannot be read stops the server from   *)
(* starting where there is no plugin.                                      *)

Started == [r |-> ReadRuntimeFeaturesL([reg EXCEPT !.list = Rom, !.ready = FALSE]),
            v |-> [pluginsReady |-> Plugin = {}, pluginsDeleted |-> FALSE,
                   pending |-> TRUE, plugins |-> Asked, busy |-> FALSE,
                   bur |-> "None", timers |-> IF Plugin = {} THEN 0 ELSE 1]]

Restart ==
    /\ reg' = [(IF Plugin = {} THEN Started.r
                ELSE [reg EXCEPT !.list = Rom, !.ready = FALSE]) EXCEPT !.unsaved = {}]
    /\ up' = IF Plugin # {} \/ Started.r.ready THEN "up" ELSE "failed"
    /\ srv' = Started.v /\ swi' = SWIInit /\ queue' = NoneWaits /\ install' = "none"
    /\ UNCHANGED used

Init ==
    /\ reg = [list |-> Rom, file |-> NoFile, ready |-> Plugin = {}, unsaved |-> {}]
    /\ swi = SWIInit
    /\ srv = [pluginsReady |-> Plugin = {}, pluginsDeleted |-> FALSE, pending |-> TRUE,
              plugins |-> Asked, busy |-> FALSE, bur |-> "None",
              timers |-> IF Plugin = {} THEN 0 ELSE 1]
    /\ queue = NoneWaits
    /\ install = "none"
    /\ up = "up"
    /\ used = [changes |-> 0, faults |-> 0, bur |-> 0]

Next ==
    \/ \E s \in Session, q \in Requests : Wait(s, q) \/ Request(s, q)
    \/ \E p \in Plugin : PluginAnswers(p)
    \/ TimerFired
    \/ InstallStarts \/ InstallEnds \/ InstallOver
    \/ ListenerRuns \/ SWITimerRuns
    \/ StartBackup \/ EndBackup
    \/ StartRestore \/ RestoreFile \/ EndRestore \/ RestoreAgain
    \/ Restart

\* The server's own active objects run when they are due.  Neither a plugin
\* nor a client nor the installer has to do anything.
Fairness == WF_vars(TimerFired) /\ WF_vars(SWITimerRuns) /\ WF_vars(ListenerRuns)

Spec == Init /\ [][Next]_vars /\ Fairness
-----------------------------------------------------------------------------
(* Properties.                                                             *)

\* The list before the file is read, when every plugin has answered.
Known ==
    LET WithPlugin(list, p) ==
            LET basic == IF PluginKind[p] = "enhanced" THEN list
                         ELSE MergedBasic(list, PluginInfo[p])
            IN IF PluginKind[p] = "simple" THEN basic
               ELSE MergedEnhanced(basic, PluginInfo[p])
        known[n \in 0 .. Cardinality(Plugin)] ==
            IF n = 0 THEN Rom ELSE WithPlugin(known[n - 1], SetToSeq(Plugin)[n])
    IN known[Cardinality(Plugin)]
AfterRestart == ReadRuntimeFeaturesL([reg EXCEPT !.list = Known]).list

\* A persisted feature, and the absence of a feature, survive a restart: what
\* the list says now is what a restart would make of the file, for every
\* feature whose last change the file system accepted (HandleChange,
\* UpdateRuntimeFeaturesFileL and ReadFileL agree).
PersistedSurvive ==
    reg.ready /\ srv.bur # "RestoreStarted" =>
        \A f \in Feature \ reg.unsaved :
            \/ Flagged(reg.list, f, "EFeaturePersisted")
            \/ ~Has(reg.list, f) /\ ~Has(Known, f)
            => AfterRestart[f] = reg.list[f]

Holds(file, f) == file \notin {NoFile, Torn} /\ Has(file, f)

\* A step that carries out a client's request to delete f: the request itself,
\* the service of the requests that waited, or the commit of an installation.
Deletes(f) ==
    LET Deletion(q) == q # Idle /\ q.op = "delete" /\ q.f = f IN
    \/ \E s \in Session, q \in Requests : Deletion(q) /\ Request(s, q)
    \/ \E q \in Range(queue) : Deletion(q) /\ queue' = NoneWaits /\ ~Restart
    \/ \E q \in Range(swi.ops) : Deletion(q) /\ ListenerRuns

\* The file loses a feature only by a client's request to delete it or in the
\* course of a restore: neither a change of another feature, nor a failing
\* write, nor a restart (which deletes a file that it takes for corrupt), nor a
\* plugin that answers late takes a saved feature away.
FileKept ==
    [][\A f \in Feature :
          Holds(reg.file, f) /\ ~Holds(reg'.file, f) =>
              Deletes(f) \/ srv.bur = "RestoreStarted"]_vars

\* The cache holds the operations whose SWIEnd was accepted, followed by those
\* of the executable that is caching now, and nothing else: no operation of an
\* executable that was aborted or timed out, nor one that a SWIEnd refused, is
\* there to be committed with a later one, and none that was accepted has been
\* dropped.  (What was refused for lack of memory stays in the array until the
\* installation ends; the next property is about that.)
PromisedOperations ==
    IF swi.status = "ESWIOutOfMemory" THEN IsPrefix(swi.promised, swi.ops)
    ELSE swi.ops = swi.promised \o swi.current

\* When the listener changes the registry it carries out what was promised, all
\* of it and nothing more: not the operations of an executable that is still
\* caching, nor those that a SWIEnd refused ("It will be disregarded",
\* iOomOccured).
OnlyPromisesCommitted ==
    [][ListenerRuns /\ reg' # reg => swi.ops = swi.promised]_vars

\* Caching ends even if the executable never calls SWIEnd (CSWITimer).
CachingEnds == swi.caching ~> ~swi.caching

\* When the installation has ended its accepted operations are committed or
\* dropped (CSWIListener).
InstallSettles ==
    swi.promised # <<>> /\ install \in {"success", "aborted"} ~> swi.promised = <<>>

\* A request that waits for the plugins is served, though a plugin may never
\* answer (CFeatMgrTimer) and whatever backups and restores come meanwhile: as
\* long as there was none, and afterwards if iPendingRequests is set, which
\* their end clears for good (see the README).
QueueServed ==
    \A s \in Session :
        queue[s] # Idle /\ (srv.pending \/ used.bur = 0) ~> queue[s] = Idle
=============================================================================
