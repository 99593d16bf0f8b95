------------------------------ MODULE CenRepCache ------------------------------
(***************************************************************************)
(* CRepositoryCacheManager: which repositories are in memory, the list of   *)
(* those that may be unloaded (idle) in the order of their time, and the    *)
(* one timer that runs for the first of them.                               *)
(*                                                                          *)
(* Every access puts its repository at the end of the list, connected or    *)
(* not.  Times are counted down: an entry has expired at 0, and may stay a  *)
(* while before the timer's RunL gets to run.                               *)
(***************************************************************************)
EXTENDS Integers, Sequences, FiniteSets, SequencesExt

CONSTANTS
    Repo,       \* repositories
    Size,       \* Size[r]: memory that r takes
    CacheSize,  \* iCacheSize
    Timeout,    \* iDefaultTimeout
    MaxLate,    \* bound: how long past its time an entry is followed
    TxnRepo,    \* repositories whose clients use transactions
    Stopped     \* no timer request outstanding

ASSUME SizeAssumption == Size \in [Repo -> Nat \ {0}] /\ CacheSize \in Nat
ASSUME TimeAssumption == Timeout \in Nat \ {0} /\ MaxLate \in Nat /\ Stopped \notin Nat
ASSUME TxnRepoAssumption == TxnRepo \subseteq Repo

VARIABLES
    open,       \* repositories in CObservable::iOpenRepositories
    connected,  \* repositories with at least one observer
    inTxn,      \* repositories for which IsTransactionActive
    idle,       \* iIdleRepositories: sequence of [rep, left]
    usage,      \* iTotalCacheUsage
    timer,      \* time left of the outstanding timer request, or Stopped
    enabled     \* iEnabled

cacheVars == <<open, connected, inTxn, idle, usage, timer, enabled>>

\* The part of the state the cache manager works on.
Cache == [open |-> open, idle |-> idle, usage |-> usage, timer |-> timer]

Install(c) == open' = c.open /\ idle' = c.idle /\ usage' = c.usage /\ timer' = c.timer

\* The memory of the repositories in a list.
SizeOf(list) ==
    LET sum[n \in 0 .. Len(list)] == IF n = 0 THEN 0 ELSE sum[n - 1] + Size[list[n].rep]
    IN sum[Len(list)]
Expired(e) == e.left <= 0

\* RescheduleTimer for the first entry: one that has expired already is given
\* the default timeout.
RescheduleTimer(list) ==
    IF list = <<>> THEN Stopped ELSE IF Expired(list[1]) THEN Timeout ELSE list[1].left

\* Mutant: removing the first entry leaves the timer as it is, cancelled.
RemoveIdleNoTimer(c, r) ==
    LET i == SelectInSeq(c.idle, LAMBDA e : e.rep = r) IN
    IF i = 0 THEN c
    ELSE [c EXCEPT !.idle = RemoveAt(c.idle, i), !.usage = @ - Size[r],
                   !.timer = IF i = 1 THEN Stopped ELSE c.timer]

\* Mutant: the size of a removed entry stays counted.
RemoveIdleKeepUsage(c, r) ==
    LET i == SelectInSeq(c.idle, LAMBDA e : e.rep = r) IN
    IF i = 0 THEN c
    ELSE [c EXCEPT !.idle = RemoveAt(c.idle, i),
                   !.timer = IF i = 1 THEN RescheduleTimer(RemoveAt(c.idle, i)) ELSE c.timer]

\* Mutant: the repository keeps its old entry.
RemoveIdleNothing(c, r) == c

RemoveIdleRepository(c, r) ==
    LET i == SelectInSeq(c.idle, LAMBDA e : e.rep = r)
        rest == RemoveAt(c.idle, i)
    IN IF i = 0 THEN c
       ELSE [c EXCEPT !.idle = rest, !.usage = @ - Size[r],
                      !.timer = IF i = 1 THEN RescheduleTimer(rest) ELSE c.timer]

\* The entries at positions I are unloaded and leave the list.
Evict(c, I) ==
    LET seen[n \in 0 .. Len(c.idle)] ==
            IF n = 0 THEN [c EXCEPT !.idle = <<>>]
            ELSE LET e == c.idle[n]
                 IN IF n \in I THEN [seen[n - 1] EXCEPT !.open = @ \ {e.rep},
                                                       !.usage = @ - Size[e.rep]]
                    ELSE [seen[n - 1] EXCEPT !.idle = Append(@, e)]
    IN seen[Len(c.idle)]

Fits(c, r) == c.usage + Size[r] <= CacheSize

\* Forced eviction: entries are unloaded one by one until r fits or none is
\* left.  Their order (age and size weighed against each other) is left open.
ForcedEvictions(c, r) ==
    IF c.idle = <<>> \/ Size[r] >= CacheSize \/ Fits(c, r) THEN {c}
    ELSE {Evict(c, I) : I \in {J \in SUBSET DOMAIN c.idle :
              /\ J = DOMAIN c.idle \/ Fits(Evict(c, J), r)
              /\ \E last \in J : ~Fits(Evict(c, J \ {last}), r)}}

\* The end of StartEviction: a new entry if there is room.  The timer is set
\* again only if the time of the first entry is not the one (top) it was.
Insert(c, r, top) ==
    LET list == Append(c.idle, [rep |-> r, left |-> Timeout]) IN
    IF ~Fits(c, r) THEN c
    ELSE [c EXCEPT !.idle = list, !.usage = @ + Size[r],
                   !.timer = IF top = <<>> \/ top[1].left # list[1].left
                             THEN RescheduleTimer(list) ELSE @]

\* StartEviction(aRepository) with the possible results.  RunL passes a
\* reference to the repository in a slot of the list; once the entry has been
\* removed that slot holds the next one, if there is one (and yet another one
\* after evictions, which is not followed: the list is broken by then).
StartEviction(c, r, slot) ==
    LET removed == RemoveIdleRepository(c, r)
        target == IF slot \in DOMAIN removed.idle THEN removed.idle[slot].rep ELSE r
    IN {Insert(f, target, removed.idle) : f \in ForcedEvictions(removed, target)}

Listed(c, r) == \E i \in DOMAIN c.idle : c.idle[i].rep = r

FlushCache(c, full) ==
    [c EXCEPT !.open = @ \ {c.idle[i].rep : i \in {j \in DOMAIN c.idle :
                               full \/ c.idle[j].rep \notin connected}},
              !.idle = <<>>, !.usage = 0]

-----------------------------------------------------------------------------
Init ==
    /\ open = {} /\ connected = {} /\ inTxn = {}
    /\ idle = <<>> /\ usage = 0 /\ timer = Stopped /\ enabled = TRUE

\* AccessL of r on the cache c: load r if need be, and restart its time.
Access(c, r) ==
    LET loaded == [c EXCEPT !.open = @ \cup {r}] IN
    IF enabled THEN \E d \in StartEviction(loaded, r, 0) : Install(d) ELSE Install(loaded)

OpenL(r) ==
    /\ Access(Cache, r)
    /\ connected' = connected \cup {r}
    /\ UNCHANGED <<inTxn, enabled>>

\* LoadRepositoryLC runs out of memory and tries again with the cache flushed.
OpenOutOfMemory(r, full) ==
    /\ r \notin open /\ enabled
    /\ Access(FlushCache(Cache, full), r)
    /\ connected' = connected \cup {r}
    /\ UNCHANGED <<inTxn, enabled>>

\* A request that starts or ends the transactions on r.
TransactionRequest(r) ==
    /\ r \in connected \cap TxnRepo
    /\ Access(Cache, r)
    /\ inTxn' \in {inTxn \cup {r}, inTxn \ {r}}
    /\ UNCHANGED <<connected, enabled>>

\* Mutant: the repository is not deleted when it cannot be made idle.
RemoveObserverKeeping(r) ==
    /\ r \in connected
    /\ connected' = connected \ {r} /\ inTxn' = inTxn \ {r}
    /\ IF r \in open /\ enabled THEN \E c \in StartEviction(Cache, r, 0) : Install(c)
       ELSE Install(Cache)
    /\ UNCHANGED enabled

\* The last client of r leaves: r is made idle, or unloaded if the cache has
\* no room for it or is disabled.
RemoveObserver(r) ==
    /\ r \in connected
    /\ connected' = connected \ {r} /\ inTxn' = inTxn \ {r}
    /\ IF r \in open /\ enabled
       THEN \E c \in StartEviction(Cache, r, 0) :
               Install(IF Listed(c, r) THEN c ELSE [c EXCEPT !.open = @ \ {r}])
       ELSE Install([Cache EXCEPT !.open = @ \ {r}])
    /\ UNCHANGED enabled

\* The timer is served.  The first expired repository found in a transaction
\* is put back and that is all; otherwise the expired ones are unloaded.
RunL ==
    LET expired == {i \in DOMAIN idle : Expired(idle[i])}
        busy == {i \in expired : idle[i].rep \in inTxn}
        served == [Cache EXCEPT !.timer = Stopped]
        left == Evict(served, expired)
    IN
    /\ timer = 0
    /\ IF busy # {}
       THEN LET i == Min(busy) IN \E c \in StartEviction(served, idle[i].rep, i) : Install(c)
       ELSE Install([left EXCEPT !.timer = RescheduleTimer(left.idle)])
    /\ UNCHANGED <<connected, inTxn, enabled>>

\* A backup or restore begins, and ends.
DisableCache ==
    /\ enabled /\ enabled' = FALSE
    /\ Install([FlushCache(Cache, FALSE) EXCEPT !.timer = Stopped])
    /\ UNCHANGED <<connected, inTxn>>

EnableCache == ~enabled /\ enabled' = TRUE /\ UNCHANGED <<open, connected, inTxn, idle, usage, timer>>

\* Time passes.  How long ago an entry expired is counted up to MaxLate.
Tick ==
    /\ idle' = [i \in DOMAIN idle |->
                  [idle[i] EXCEPT !.left = IF @ > -MaxLate THEN @ - 1 ELSE @]]
    /\ timer' = IF timer \in {Stopped, 0} THEN timer ELSE timer - 1
    /\ UNCHANGED <<open, connected, inTxn, usage, enabled>>

Next ==
    \/ \E r \in Repo : OpenL(r) \/ TransactionRequest(r) \/ RemoveObserver(r)
    \/ \E r \in Repo, full \in BOOLEAN : OpenOutOfMemory(r, full)
    \/ RunL \/ DisableCache \/ EnableCache \/ Tick

\* Time goes on and the scheduler serves the timer; no client has to do anything.
Spec == Init /\ [][Next]_cacheVars /\ WF_cacheVars(Tick) /\ WF_cacheVars(RunL)

-----------------------------------------------------------------------------
\* The idle list names repositories that are in memory, each once: an entry
\* left behind would be used after its repository is deleted.
IdleEntriesLive ==
    /\ \A i \in DOMAIN idle : idle[i].rep \in open
    /\ \A i, j \in DOMAIN idle : idle[i].rep = idle[j].rep => i = j

\* The usage is the memory of the idle repositories and within the limit.
UsageWithinLimit == usage = SizeOf(idle) /\ usage <= CacheSize

\* As long as there is something to unload the timer runs.
TimerArmed == idle # <<>> => timer # Stopped

\* What nobody is connected to is in memory only to be unloaded.
UnusedIsIdle == \A r \in open \ connected : Listed(Cache, r)

\* A repository that stays unused is unloaded in the end.
UnusedIsUnloaded == \A r \in Repo : r \in open \ connected ~> r \notin open \/ r \in connected
=============================================================================
