------------------------- MODULE FeatureServerProofs -------------------------
(***************************************************************************)
(* Theorems about FeatureServer: what is promised to an executable that     *)
(* the installer launched, and that persisted features survive.            *)
(***************************************************************************)
EXTENDS FeatureServer, FiniteSetTheorems, InductionProofs, TLAPS

-----------------------------------------------------------------------------
(* The operations of an installation, one after the other *)

\* g are the registries while the first n of the operations ops are applied.
Applying(g, r, ops, out, n) ==
    g = [i \in 0 .. n |-> IF i = 0 THEN r ELSE Apply(g[i - 1], ops[i], out)]

\* The recursive definition in CommitSWIFeatChanges has a value.
LEMMA ApplyingExists ==
    ASSUME NEW r, NEW ops, NEW out, NEW N \in Nat
    PROVE  \E g : Applying(g, r, ops, out, N)
<1> DEFINE A == {n \in 0 .. N : \E g : Applying(g, r, ops, out, n)}
<1>1. 0 \in A
    <2>1. Applying([i \in 0 .. 0 |-> r], r, ops, out, 0)
        BY DEF Applying
    <2> QED BY <2>1
<1>2. ASSUME NEW n \in 0 .. N - 1, n \in A PROVE n + 1 \in A
    <2>1. PICK g : Applying(g, r, ops, out, n)
        BY <1>2
    <2> DEFINE h == [i \in 0 .. n + 1 |->
                        IF i = n + 1 THEN Apply(g[n], ops[n + 1], out) ELSE g[i]]
    <2>2. ASSUME NEW i \in 0 .. n + 1
          PROVE  h[i] = IF i = 0 THEN r ELSE Apply(h[i - 1], ops[i], out)
        <3>1. CASE i = n + 1
            BY <3>1
        <3>2. CASE i \in 0 .. n
            BY <2>1, <3>2 DEF Applying
        <3> QED BY <3>1, <3>2
    <2>3. Applying(h, r, ops, out, n + 1)
        BY <2>2 DEF Applying
    <2> QED BY <2>3
<1>3. \A n \in 0 .. N : n \in A
    <2> HIDE DEF A
    <2> QED BY <1>1, <1>2, SetInduction, Zenon
<1> QED BY <1>3

\* What is committed is the last of these registries, and the cache is reset.
LEMMA CommitApplies ==
    ASSUME NEW x, NEW out, Len(x.w.ops) \in Nat
    PROVE  /\ \E g : /\ Applying(g, x.r, x.w.ops, out, Len(x.w.ops))
                     /\ CommitSWIFeatChanges(x, out).r = g[Len(x.w.ops)]
           /\ CommitSWIFeatChanges(x, out).w = [SWIReset(x.w) EXCEPT !.promised = <<>>]
<1> DEFINE r == CHOOSE g : Applying(g, x.r, x.w.ops, out, Len(x.w.ops))
<1>1. Applying(r, x.r, x.w.ops, out, Len(x.w.ops))
    BY ApplyingExists
<1>2. CommitSWIFeatChanges(x, out) =
        [r |-> r[Len(x.w.ops)], w |-> [SWIReset(x.w) EXCEPT !.promised = <<>>]]
    BY DEF CommitSWIFeatChanges, Applying
<1> HIDE DEF r
<1> QED BY <1>1, <1>2

-----------------------------------------------------------------------------
(* The requests that waited, one after the other *)

\* What one session's request makes of y.
ServedOne(y, s, out) ==
    IF queue[s] = Idle THEN y ELSE Dispatch(y, s, queue[s], Installing, out, FALSE)
Serving1(g, x, order, out, n) ==
    g = [i \in 0 .. n |-> IF i = 0 THEN x ELSE ServedOne(g[i - 1], order[i], out)]

\* The recursive definition in Served has a value.
LEMMA ServingExists ==
    ASSUME NEW x, NEW order, NEW out, NEW N \in Nat
    PROVE  \E g : Serving1(g, x, order, out, N)
<1> DEFINE A == {n \in 0 .. N : \E g : Serving1(g, x, order, out, n)}
<1>1. 0 \in A
    <2>1. Serving1([i \in 0 .. 0 |-> x], x, order, out, 0)
        BY DEF Serving1
    <2> QED BY <2>1
<1>2. ASSUME NEW n \in 0 .. N - 1, n \in A PROVE n + 1 \in A
    <2>1. PICK g : Serving1(g, x, order, out, n)
        BY <1>2
    <2> DEFINE h == [i \in 0 .. n + 1 |->
                        IF i = n + 1 THEN ServedOne(g[n], order[n + 1], out) ELSE g[i]]
    <2>2. ASSUME NEW i \in 0 .. n + 1
          PROVE  h[i] = IF i = 0 THEN x ELSE ServedOne(h[i - 1], order[i], out)
        <3>1. CASE i = n + 1
            BY <3>1
        <3>2. CASE i \in 0 .. n
            BY <2>1, <3>2 DEF Serving1
        <3> QED BY <3>1, <3>2
    <2>3. Serving1(h, x, order, out, n + 1)
        BY <2>2 DEF Serving1
    <2> QED BY <2>3
<1>3. \A n \in 0 .. N : n \in A
    <2> HIDE DEF A
    <2> QED BY <1>1, <1>2, SetInduction, Zenon
<1> QED BY <1>3

\* Served is the last of these.
LEMMA ServedSteps ==
    ASSUME NEW x, NEW order, NEW out, Len(order) \in Nat
    PROVE  \E g : Serving1(g, x, order, out, Len(order)) /\ Served(x, order, out) = g[Len(order)]
<1> DEFINE y == CHOOSE g : Serving1(g, x, order, out, Len(order))
<1>1. Serving1(y, x, order, out, Len(order))
    BY ServingExists
<1>2. Served(x, order, out) = y[Len(order)]
    BY DEF Served, Serving1, ServedOne
<1> QED BY <1>1, <1>2

-----------------------------------------------------------------------------
(* What is promised to an executable *)

Swi == [ops : Seq(Command), caching : BOOLEAN, process : Session \cup {NoProcess},
        status : {"ESWIComplete", "ESWIInstalling", "ESWIAborted", "ESWIOutOfMemory"},
        oom : BOOLEAN, count : Nat, listening : BOOLEAN, timer : BOOLEAN,
        event : BOOLEAN, added : BOOLEAN, current : Seq(Command),
        promised : Seq(Command)]

\* Nothing is promised while an executable caches or was refused; otherwise
\* nothing but the promise is cached.  All this only if executables come one by
\* one: none starts after the SWIEnd of another until the installation is over.
OneByOne == {"two executables", "after refusal"} \cap Careless = {}
Kept(w) ==
    OneByOne =>
        /\ w.caching => w.status # "ESWIOutOfMemory"
        /\ IF w.caching \/ w.status = "ESWIOutOfMemory"
           THEN w.promised = <<>> ELSE w.current = <<>>
        /\ w.status # "ESWIOutOfMemory" => w.ops = w.promised \o w.current

\* Nothing is added by the empty sequence.
LEMMA ConcatEmpty ==
    ASSUME NEW S, NEW s \in Seq(S)
    PROVE  s \o <<>> = s /\ <<>> \o s = s
OBVIOUS

\* The initial cache.
LEMMA SWIInitKept == SWIInit \in Swi /\ Kept(SWIInit)
BY DEF SWIInit, Swi, Kept, NoProcess

\* SWIReset empties it; promised is history and not its business.
LEMMA SWIResetType ==
    ASSUME NEW w \in Swi
    PROVE  /\ SWIReset(w) \in Swi
           /\ ~SWIReset(w).caching /\ SWIReset(w).status = "ESWIComplete"
           /\ SWIReset(w).ops = <<>> /\ SWIReset(w).current = <<>>
           /\ SWIReset(w).promised = w.promised
<1>1. /\ ~SWIReset(w).caching /\ SWIReset(w).status = "ESWIComplete"
      /\ SWIReset(w).ops = <<>> /\ SWIReset(w).current = <<>>
      /\ SWIReset(w).promised = w.promised
    BY DEF SWIReset, Swi
<1> DEFINE a == [w EXCEPT !.ops = <<>>, !.current = <<>>, !.caching = FALSE,
                          !.process = NoProcess,
                          !.status = "ESWIComplete"]
<1>2. a \in Swi
    <2>1. <<>> \in Seq(Command) /\ NoProcess \in Session \cup {NoProcess}
        OBVIOUS
    <2> HIDE DEF NoProcess
    <2> QED BY <2>1 DEF Swi
<1>3. SWIReset(w) = [a EXCEPT !.oom = FALSE, !.count = 0, !.listening = FALSE, !.timer = FALSE]
    BY DEF SWIReset, Swi
<1> HIDE DEF a
<1>4. [a EXCEPT !.oom = FALSE, !.count = 0, !.listening = FALSE, !.timer = FALSE] \in Swi
    BY <1>2 DEF Swi
<1> QED BY <1>1, <1>3, <1>4

\* ... which breaks no promise when there is none.
LEMMA SWIResetKept ==
    ASSUME NEW w \in Swi, OneByOne => w.promised = <<>>
    PROVE  SWIReset(w) \in Swi /\ Kept(SWIReset(w))
<1>1. <<>> \o <<>> = <<>>
    OBVIOUS
<1> QED BY <1>1, SWIResetType DEF Kept

\* ... and with the promises gone there are none left to keep.
LEMMA SWIClearedKept ==
    ASSUME NEW w \in Swi
    PROVE  LET c == [SWIReset(w) EXCEPT !.promised = <<>>] IN c \in Swi /\ Kept(c)
<1> DEFINE v == SWIReset(w)
<1>1. /\ v \in Swi /\ ~v.caching /\ v.status = "ESWIComplete" /\ v.ops = <<>>
      /\ v.current = <<>>
    BY SWIResetType
<1> HIDE DEF v
<1>2. [v EXCEPT !.promised = <<>>] \in Swi /\ Kept([v EXCEPT !.promised = <<>>])
    <2>1. <<>> \o <<>> = <<>>
        OBVIOUS
    <2> QED BY <1>1, <2>1 DEF Swi, Kept
<1> QED BY <1>2 DEF v

\* What the cache keeps of a command is one.
LEMMA CachedType == ASSUME NEW q \in Command PROVE Cached(q) \in Command
BY DEF Cached, Command

\* SWICacheCommand: what is promised stays at the front of the operations.
LEMMA SWICacheCommandKept ==
    ASSUME NEW w \in Swi, Kept(w), NEW q \in Command, NEW oom \in BOOLEAN, w.caching
    PROVE  SWICacheCommand(w, q, oom) \in Swi /\ Kept(SWICacheCommand(w, q, oom))
<1> DEFINE c == [w EXCEPT !.added = @ \/ q.op = "add"]
<1>1. /\ c \in Swi /\ c.caching = w.caching /\ c.promised = w.promised
      /\ c.status = w.status /\ c.ops = w.ops /\ c.current = w.current
    BY DEF Swi
<1>2. Cached(q) \in Command
    BY CachedType
<1> HIDE DEF c
<1>3. [c EXCEPT !.oom = TRUE] \in Swi /\ Kept([c EXCEPT !.oom = TRUE])
    BY <1>1 DEF Swi, Kept
<1> DEFINE ops == Append(c.ops, Cached(q))
           current == Append(c.current, Cached(q))
<1>4. ops \in Seq(Command) /\ current \in Seq(Command) /\ c.count + 1 \in Nat
    BY <1>1, <1>2 DEF Swi
<1>6. OneByOne => ops = <<>> \o current
    <2>1. c.current \in Seq(Command)
        BY <1>1 DEF Swi
    <2>2. OneByOne => c.ops = <<>> \o c.current
        BY <1>1 DEF Kept
    <2>3. <<>> \o c.current = c.current
        BY <2>1, ConcatEmpty
    <2>4. current \in Seq(Command)
        BY <1>4
    <2>5. <<>> \o current = current
        BY <2>4, ConcatEmpty
    <2> QED BY <2>2, <2>3, <2>5
<1> HIDE DEF ops, current
<1>5. LET d == [c EXCEPT !.ops = ops, !.count = @ + 1, !.current = current]
      IN d \in Swi /\ Kept(d)
    BY <1>1, <1>4, <1>6 DEF Swi, Kept
<1> QED BY <1>3, <1>5 DEF SWICacheCommand, c, ops, current

\* An executable starts caching when nothing is promised.
LEMMA SWIStartKept ==
    ASSUME NEW w \in Swi, Kept(w), NEW s \in Session, NEW installing, NEW short \in BOOLEAN,
           OneByOne => w.promised = <<>> /\ w.status # "ESWIOutOfMemory"
    PROVE  SWIStart(w, s, installing, short) \in Swi /\ Kept(SWIStart(w, s, installing, short))
<1> DEFINE a == [w EXCEPT !.caching = TRUE, !.status = "ESWIInstalling", !.process = s,
                          !.current = <<>>]
           v(long) == [a EXCEPT !.listening = long, !.timer = long, !.event = FALSE]
<1>1. /\ a \in Swi /\ a.caching = TRUE /\ a.status = "ESWIInstalling"
      /\ a.promised = w.promised /\ a.current = <<>> /\ a.ops = w.ops
    <2> DEFINE none == <<>>
    <2>1. none \in Seq(Command)
        OBVIOUS
    <2> HIDE DEF none
    <2>2. LET b == [w EXCEPT !.caching = TRUE, !.status = "ESWIInstalling", !.process = s,
                             !.current = none]
          IN /\ b \in Swi /\ b.caching = TRUE /\ b.status = "ESWIInstalling"
             /\ b.promised = w.promised /\ b.current = none /\ b.ops = w.ops
        BY <2>1 DEF Swi
    <2> QED BY <2>2 DEF none
<1>4. ~w.caching /\ OneByOne => w.ops = <<>>
    <2>1. <<>> \o <<>> = <<>>
        OBVIOUS
    <2> QED BY <2>1 DEF Kept
<1> HIDE DEF a
<1>2. ASSUME NEW long \in BOOLEAN, ~w.caching PROVE v(long) \in Swi /\ Kept(v(long))
    <2>1. v(long) \in Swi
        BY <1>1 DEF Swi
    <2>2. /\ v(long).caching = TRUE /\ v(long).status = "ESWIInstalling"
          /\ v(long).promised = w.promised /\ v(long).current = <<>> /\ v(long).ops = w.ops
        BY <1>1 DEF Swi
    <2>3. <<>> \o <<>> = <<>>
        OBVIOUS
    <2> HIDE DEF v
    <2> QED BY <1>2, <1>4, <2>1, <2>2, <2>3 DEF Kept
<1>3. \/ SWIStart(w, s, installing, short) = w
      \/ ~w.caching /\ SWIStart(w, s, installing, short) = v(~short)
    BY DEF SWIStart, a
<1>5. (~short) \in BOOLEAN
    OBVIOUS
<1> HIDE DEF v
<1> QED BY <1>2, <1>3, <1>5

\* SWIEnd: the operations that are there become the promise, or none is added.
LEMMA SWIEndKept ==
    ASSUME NEW w \in Swi, Kept(w), NEW s \in Session, NEW short \in BOOLEAN
    PROVE  SWIEnd(w, s, short) \in Swi /\ Kept(SWIEnd(w, s, short))
<1> DEFINE z == [w EXCEPT !.count = 0]
<1>1. z \in Swi /\ Kept(z)
    BY DEF Swi, Kept
<1>2. w.caching => SWIReset(w) \in Swi /\ Kept(SWIReset(w))
    BY SWIResetKept DEF Kept
<1>3. w.caching => LET e == [z EXCEPT !.caching = FALSE, !.timer = FALSE, !.current = <<>>,
                                      !.status = "ESWIOutOfMemory"]
                   IN e \in Swi /\ Kept(e)
    <2> DEFINE none == <<>>
    <2>1. none \in Seq(Command)
        OBVIOUS
    <2> HIDE DEF none
    <2>2. w.caching => LET e == [z EXCEPT !.caching = FALSE, !.timer = FALSE, !.current = none,
                                          !.status = "ESWIOutOfMemory"]
                       IN e \in Swi /\ Kept(e)
        BY <2>1 DEF Swi, Kept
    <2> QED BY <2>2 DEF none
<1> DEFINE p == w.promised \o w.current
<1>4. w.caching => LET e == [z EXCEPT !.caching = FALSE, !.timer = FALSE, !.current = <<>>,
                                      !.promised = p]
                   IN e \in Swi /\ Kept(e)
    <2>1. p \in Seq(Command) /\ p \o <<>> = p /\ <<>> \in Seq(Command)
        <3>1. w.promised \in Seq(Command) /\ w.current \in Seq(Command)
            BY DEF Swi
        <3>2. p \in Seq(Command)
            BY <3>1
        <3> QED BY <3>2, ConcatEmpty
    <2>2. w.caching /\ OneByOne => w.ops = p /\ w.status # "ESWIOutOfMemory"
        BY DEF Kept
    <2> HIDE DEF p
    <2> QED BY <2>1, <2>2 DEF Swi, Kept
<1> HIDE DEF z
<1>5. CASE ~(w.caching /\ w.process = s)
    BY <1>1, <1>5 DEF SWIEnd, z
<1>6. CASE w.caching /\ w.process = s
    <2>1. z.promised = w.promised
        BY DEF z, Swi
    <2> QED BY <1>2, <1>3, <1>4, <1>6, <2>1 DEF SWIEnd, z
<1> QED BY <1>5, <1>6

\* A registry with a cache that keeps its promises.
Keeping(x) == x = [r |-> x.r, w |-> x.w] /\ x.w \in Swi /\ Kept(x.w)

\* Requests keep them, if no executable starts while something is promised.
LEMMA DispatchKeeps ==
    ASSUME NEW x, Keeping(x), NEW s \in Session, NEW q \in Requests, NEW installing, NEW out,
           NEW oom \in BOOLEAN,
           OneByOne /\ q.op = "SWIStart" =>
               x.w.promised = <<>> /\ x.w.status # "ESWIOutOfMemory"
    PROVE  Keeping(Dispatch(x, s, q, installing, out, oom))
<1> DEFINE d == Dispatch(x, s, q, installing, out, oom)
<1>1. CASE q.op = "SWIStart"
    <2> DEFINE v == SWIStart(x.w, s, installing, oom)
    <2>1. v \in Swi /\ Kept(v)
        BY <1>1, SWIStartKept DEF Keeping
    <2>2. d = [x EXCEPT !.w = v]
        BY <1>1 DEF Dispatch
    <2> HIDE DEF v, d
    <2> QED BY <2>1, <2>2 DEF Keeping, d
<1>2. CASE q.op = "SWIEnd"
    <2> DEFINE v == SWIEnd(x.w, s, oom)
    <2>1. v \in Swi /\ Kept(v)
        BY <1>2, SWIEndKept DEF Keeping
    <2>2. d = [x EXCEPT !.w = v]
        BY <1>2 DEF Dispatch
    <2> HIDE DEF v, d
    <2> QED BY <2>1, <2>2 DEF Keeping, d
<1>3. CASE q.op \in {"add", "delete", "set"} /\ x.w.caching /\ x.w.process = s
    <2> DEFINE v == SWICacheCommand(x.w, q, oom)
    <2>1. q \in Command
        BY <1>3, ServerAssumption
    <2>2. v \in Swi /\ Kept(v)
        BY <1>3, <2>1, SWICacheCommandKept DEF Keeping
    <2>3. d = [x EXCEPT !.w = v]
        BY <1>3 DEF Dispatch
    <2> HIDE DEF v, d
    <2> QED BY <2>2, <2>3 DEF Keeping, d
<1>4. CASE /\ q.op # "SWIStart" /\ q.op # "SWIEnd"
           /\ ~(q.op \in {"add", "delete", "set"} /\ x.w.caching /\ x.w.process = s)
    <2>1. d = [x EXCEPT !.r = Apply(x.r, q, out)]
        BY <1>4 DEF Dispatch
    <2> HIDE DEF d
    <2> QED BY <2>1 DEF Keeping, d
<1> QED BY <1>1, <1>2, <1>3, <1>4

\* No executable waits to start caching.
NoStartWaits == \A s \in Session : queue[s] # Idle => queue[s].op # "SWIStart"

QueueType == queue \in [Session -> Requests \cup {Idle}]

\* An order of the sessions is a sequence of them.
LEMMA OrdersType ==
    ASSUME NEW order \in Orders
    PROVE  Len(order) \in Nat /\ \A i \in 1 .. Len(order) : order[i] \in Session
<1>1. Cardinality(Session) \in Nat
    BY RegistryAssumption, FS_CardinalityType
<1>2. order \in [1 .. Cardinality(Session) -> Session]
    BY DEF Orders
<1>3. Len(order) = Cardinality(Session)
    BY <1>1, <1>2
<1> QED BY <1>1, <1>2, <1>3

\* So do the requests that waited, whatever their order.
LEMMA ServedKeeps ==
    ASSUME NEW x, Keeping(x), NEW order \in Orders, NEW out, QueueType, NoStartWaits
    PROVE  Keeping(Served(x, order, out))
<1> DEFINE N == Len(order)
<1>1. N \in Nat /\ \A i \in 1 .. N : order[i] \in Session
    BY OrdersType
<1>2. PICK g : Serving1(g, x, order, out, N) /\ Served(x, order, out) = g[N]
    BY <1>1, ServedSteps
<1> HIDE DEF N
<1>3. /\ g[0] = x
      /\ \A i \in 0 .. N - 1 : g[i + 1] = ServedOne(g[i], order[i + 1], out)
    BY <1>1, <1>2 DEF Serving1
<1> DEFINE A == {i \in 0 .. N : Keeping(g[i])}
<1>4. 0 \in A
    BY <1>1, <1>3
<1>5. ASSUME NEW i \in 0 .. N - 1, i \in A PROVE i + 1 \in A
    <2>1. Keeping(g[i]) /\ order[i + 1] \in Session
        BY <1>1, <1>5
    <2> DEFINE s == order[i + 1]
    <2>0. g[i + 1] = ServedOne(g[i], s, out) /\ i + 1 \in 0 .. N
        BY <1>1, <1>3
    <2> HIDE DEF s
    <2>2. CASE queue[s] = Idle
        BY <2>0, <2>1, <2>2 DEF ServedOne
    <2>3. CASE queue[s] # Idle
        <3>1. queue[s] \in Requests /\ queue[s].op # "SWIStart"
            BY <2>1, <2>3 DEF QueueType, NoStartWaits, s
        <3>2. Keeping(Dispatch(g[i], s, queue[s], Installing, out, FALSE))
            BY <2>1, <3>1, DispatchKeeps DEF s
        <3>3. g[i + 1] = Dispatch(g[i], s, queue[s], Installing, out, FALSE)
            BY <2>0, <2>3 DEF ServedOne
        <3>4. Keeping(g[i + 1])
            BY <3>2, <3>3, Zenon
        <3> QED BY <2>0, <3>4
    <2> QED BY <2>2, <2>3
<1>6. \A i \in 0 .. N : i \in A
    <2> HIDE DEF A
    <2> QED BY <1>1, <1>4, <1>5, SetInduction, Zenon
<1> QED BY <1>1, <1>2, <1>6

\* The listener keeps them or drops them with the operations.
LEMMA ListenedKeeps ==
    ASSUME NEW x, Keeping(x), NEW state, NEW out
    PROVE  Listened(x, state, out).w \in Swi /\ Kept(Listened(x, state, out).w)
<1> DEFINE w == x.w
           cleared == [SWIReset(w) EXCEPT !.promised = <<>>]
<1>1. x = [r |-> x.r, w |-> w] /\ w \in Swi /\ Kept(w) /\ Len(w.ops) \in Nat
    BY DEF Keeping, Swi
<1>2. cleared \in Swi /\ Kept(cleared)
    BY <1>1, SWIClearedKept
<1>3. CASE state = "success" /\ w.status # "ESWIOutOfMemory" /\ ~w.caching
    <2>1. Listened(x, state, out) = CommitSWIFeatChanges(x, out)
        BY <1>3 DEF Listened
    <2>2. CommitSWIFeatChanges(x, out).w = cleared
        BY <1>1, CommitApplies
    <2> QED BY <1>2, <2>1, <2>2
<1>4. CASE state = "success" /\ (w.status = "ESWIOutOfMemory" \/ w.caching)
    <2>1. SWIReset(w) \in Swi /\ Kept(SWIReset(w))
        BY <1>1, <1>4, SWIResetKept DEF Kept
    <2>2. Listened(x, state, out).w = SWIReset(w)
        BY <1>1, <1>4 DEF Listened
    <2> QED BY <2>1, <2>2
<1>5. CASE state = "aborted"
    <2>1. Listened(x, state, out).w = SWIAborted(w)
        BY <1>1, <1>5 DEF Listened
    <2>2. w.caching => /\ [w EXCEPT !.status = "ESWIAborted"] \in Swi
                       /\ Kept([w EXCEPT !.status = "ESWIAborted"])
        BY <1>1 DEF Swi, Kept
    <2> QED BY <1>2, <2>1, <2>2 DEF SWIAborted
<1>6. CASE state \notin {"success", "aborted"}
    <2>1. Listened(x, state, out) = x
        BY <1>6 DEF Listened
    <2> QED BY <1>1, <2>1
<1> QED BY <1>3, <1>4, <1>5, <1>6

CacheInv == swi \in Swi /\ Kept(swi) /\ QueueType

\* The world now, with any registry, keeps what is promised.
LEMMA WorldKeeps == ASSUME CacheInv, NEW r PROVE Keeping([r |-> r, w |-> swi])
BY DEF CacheInv, Keeping

\* A world whose cache is replaced.
LEMMA WorldExcept ==
    ASSUME NEW a, NEW b, NEW c PROVE [[r |-> a, w |-> b] EXCEPT !.w = c] = [r |-> a, w |-> c]
OBVIOUS

\* Nobody waits when all have been served.
LEMMA NoneWaitsType == NoneWaits \in [Session -> Requests \cup {Idle}]
BY DEF NoneWaits

\* Every step keeps the promises, but for the start of a second executable.
LEMMA CacheInvStep ==
    ASSUME CacheInv, NoStartWaits, [Next]_vars
    PROVE  CacheInv'
<1> DEFINE Goal == swi' \in Swi /\ Kept(swi') /\ queue' \in [Session -> Requests \cup {Idle}]
<1> SUFFICES Goal
    BY DEF CacheInv, QueueType, Kept
<1>1. swi \in Swi /\ Kept(swi) /\ queue \in [Session -> Requests \cup {Idle}] /\ QueueType
    BY DEF CacheInv, QueueType
<1>2. NoneWaits \in [Session -> Requests \cup {Idle}]
    BY NoneWaitsType
<1>3. ASSUME NEW s \in Session, NEW q \in Requests, Wait(s, q) PROVE Goal
    BY <1>1, <1>3 DEF Wait
<1>4. ASSUME NEW s \in Session, NEW q \in Requests, Request(s, q) PROVE Goal
    <2>1. PICK out \in Outcomes, oom \in BOOLEAN :
              /\ Careful(q, oom)
              /\ swi' = Dispatch(World, s, q, Installing, out, oom).w
        BY <1>4 DEF Request
    <2>2. OneByOne /\ q.op = "SWIStart" =>
              swi.promised = <<>> /\ swi.status # "ESWIOutOfMemory"
        BY <2>1 DEF Careful, OneByOne
    <2>3. Keeping(World) /\ World.w = swi
        BY WorldKeeps DEF World
    <2>4. Keeping(Dispatch(World, s, q, Installing, out, oom))
        BY <2>2, <2>3, DispatchKeeps
    <2> QED BY <1>1, <1>4, <2>1, <2>4 DEF Keeping, Request
<1>5. ASSUME NEW r, NEW order \in Orders, NEW out, swi' = Served([r |-> r, w |-> swi], order, out).w
      PROVE  swi' \in Swi /\ Kept(swi')
    <2>1. Keeping(Served([r |-> r, w |-> swi], order, out))
        BY <1>1, WorldKeeps, ServedKeeps
    <2> QED BY <1>5, <2>1 DEF Keeping
<1>6. ASSUME NEW p \in Plugin, PluginAnswers(p) PROVE Goal
    <2> DEFINE all == \A q \in Plugin : [srv.plugins EXCEPT ![p] = Answered(p)][q] = "ready"
               merged == [reg EXCEPT !.list = Merged(@, p, srv.plugins[p])]
               r == IF all THEN ReadOnce(merged) ELSE merged
               serves == all /\ r.ready /\ srv.pending
    <2>1. PICK order \in Orders, out \in Outcomes :
              /\ swi' = (IF serves THEN Served([r |-> r, w |-> swi], order, out)
                         ELSE [r |-> r, w |-> swi]).w
              /\ queue' = IF serves THEN NoneWaits ELSE queue
        BY <1>6 DEF PluginAnswers
    <2> HIDE DEF r, serves
    <2>2. CASE serves
        BY <1>2, <1>5, <2>1, <2>2
    <2>3. CASE ~serves
        BY <1>1, <2>1, <2>3
    <2> QED BY <2>2, <2>3
<1>7. ASSUME TimerFired PROVE Goal
    <2> DEFINE r == IF srv.pluginsDeleted THEN reg ELSE ReadOnce(reg)
    <2>1. PICK order \in Orders, out \in Outcomes :
              /\ swi' = (IF TimerServes THEN Served([r |-> r, w |-> swi], order, out)
                         ELSE [r |-> r, w |-> swi]).w
              /\ queue' = IF TimerServes THEN NoneWaits ELSE queue
        BY <1>7 DEF TimerFired
    <2> HIDE DEF r
    <2>2. CASE TimerServes
        BY <1>2, <1>5, <2>1, <2>2
    <2>3. CASE ~TimerServes
        BY <1>1, <2>1, <2>3
    <2> QED BY <2>2, <2>3
<1>8. ASSUME InstallStarts \/ InstallEnds \/ InstallOver PROVE Goal
    <2>1. swi' = [swi EXCEPT !.event = swi.listening] /\ queue' = queue
        BY <1>8 DEF InstallStarts, InstallEnds, InstallOver, SetProperty, Listener
    <2> QED BY <1>1, <2>1 DEF Swi, Kept
<1>9. ASSUME ListenerRuns PROVE Goal
    <2> DEFINE v == [swi EXCEPT !.event = FALSE]
               x == [World EXCEPT !.w.event = FALSE]
    <2>1. v \in Swi /\ Kept(v)
        BY <1>1 DEF Swi, Kept
    <2>2. x = [r |-> reg, w |-> v]
        <3>1. World.w = swi /\ World.r = reg /\ DOMAIN World = {"r", "w"}
            BY DEF World
        <3>3. x = [World EXCEPT !.w = v]
            BY <3>1
        <3> HIDE DEF v, x
        <3>4. [World EXCEPT !.w = v] = [r |-> reg, w |-> v]
            BY WorldExcept DEF World
        <3> QED BY <3>3, <3>4
    <2> HIDE DEF v
    <2>3. Keeping(x)
        BY <2>1, <2>2 DEF Keeping
    <2> HIDE DEF x
    <2>4. PICK out \in Outcomes : swi' = Listened(x, install, out).w
        BY <1>9 DEF ListenerRuns, x
    <2>5. queue' = queue
        BY <1>9 DEF ListenerRuns
    <2> QED BY <1>1, <2>3, <2>4, <2>5, ListenedKeeps
<1>10. ASSUME SWITimerRuns PROVE Goal
    <2>1. SWITimedOut(swi) \in Swi /\ Kept(SWITimedOut(swi))
        BY <1>1, SWIResetKept DEF SWITimedOut, Kept
    <2> DEFINE v == SWITimedOut(swi)
    <2>2. swi' = [v EXCEPT !.timer = FALSE] /\ queue' = queue
        BY <1>10 DEF SWITimerRuns
    <2> HIDE DEF v
    <2>3. [v EXCEPT !.timer = FALSE] \in Swi /\ Kept([v EXCEPT !.timer = FALSE])
        BY <2>1 DEF Swi, Kept, v
    <2> QED BY <1>1, <2>2, <2>3
<1>11. ASSUME StartBackup \/ StartRestore \/ RestoreFile \/ UNCHANGED vars PROVE Goal
    BY <1>1, <1>11 DEF StartBackup, StartRestore, Starts, RestoreFile, vars
<1>12. ASSUME NEW r, NEW v, ServeAll(r, v) PROVE Goal
    <2>1. PICK order \in Orders, out \in Outcomes :
              swi' = Served([r |-> r, w |-> swi], order, out).w /\ queue' = NoneWaits
        BY <1>12 DEF ServeAll
    <2> QED BY <1>2, <1>5, <2>1
<1>13. ASSUME EndBackup \/ EndRestore \/ RestoreAgain PROVE Goal
    BY <1>1, <1>12, <1>13 DEF EndBackup, EndRestore, RestoreAgain
<1>14. ASSUME Restart PROVE Goal
    BY <1>2, <1>14, SWIInitKept DEF Restart
<1> QED BY <1>3, <1>4, <1>6, <1>7, <1>8, <1>9, <1>10, <1>11, <1>13, <1>14 DEF Next

\* Initially there is nothing to keep.
LEMMA CacheInvInit == Init => CacheInv
BY SWIInitKept, NoneWaitsType DEF Init, CacheInv, QueueType

\* From this the property follows: nothing promised is a prefix of anything.
LEMMA KeptPromises == OneByOne /\ CacheInv => PromisedOperations
<1> SUFFICES ASSUME OneByOne, CacheInv PROVE PromisedOperations
    OBVIOUS
<1>1. swi.ops \in Seq(Command) /\ Kept(swi)
    BY DEF CacheInv, Swi
<1>2. IsPrefix(<<>>, swi.ops)
    BY <1>1 DEF IsPrefix
<1> QED BY <1>1, <1>2 DEF PromisedOperations, Kept

(***************************************************************************)
(* What SWIEnd accepted is cached until its installation ends, all of it    *)
(* and, but for what the executable that caches adds, nothing else,         *)
(* whatever fails and times out, provided that no executable starts after   *)
(* the SWIEnd of another in the same installation (it would find what was   *)
(* refused, and adopt it) and none of them waits for plugins.               *)
(***************************************************************************)
THEOREM PromisesKept ==
    ASSUME {"two executables", "after refusal"} \cap Careless = {}
    PROVE  Spec /\ []NoStartWaits => []PromisedOperations
<1>1. Init => CacheInv
    BY CacheInvInit
<1>2. CacheInv /\ NoStartWaits /\ [Next]_vars => CacheInv'
    BY CacheInvStep
<1>3. CacheInv => PromisedOperations
    BY KeptPromises DEF OneByOne
<1> QED BY <1>1, <1>2, <1>3, PTL DEF Spec

(***************************************************************************)
(* Under the same provisos the listener commits the promise and nothing     *)
(* else: what a SWIEnd refused is not in the registry afterwards.           *)
(***************************************************************************)
THEOREM PromisesCommitted ==
    ASSUME {"two executables", "after refusal"} \cap Careless = {}
    PROVE  Spec /\ []NoStartWaits => OnlyPromisesCommitted
<1>1. Init => CacheInv
    BY CacheInvInit
<1>2. CacheInv /\ NoStartWaits /\ [Next]_vars => CacheInv'
    BY CacheInvStep
<1>3. ASSUME CacheInv, ListenerRuns, reg' # reg PROVE swi.ops = swi.promised
    <2> DEFINE v == [swi EXCEPT !.event = FALSE]
               x == [World EXCEPT !.w.event = FALSE]
    <2>1. /\ swi \in Swi /\ Kept(swi) /\ swi.promised \in Seq(Command)
        BY <1>3 DEF CacheInv, Swi
    <2>2. v.status = swi.status /\ v.caching = swi.caching
        BY <2>1 DEF Swi
    <2>3. x.r = reg /\ x.w = v
        BY DEF World
    <2> HIDE DEF v, x
    <2>4. PICK out : reg' = Listened(x, install, out).r
        BY <1>3 DEF ListenerRuns, x
    <2>5. v.status # "ESWIOutOfMemory" /\ ~v.caching
        <3>1. CASE install = "success" /\ (v.status = "ESWIOutOfMemory" \/ v.caching)
            BY <1>3, <2>3, <2>4, <3>1 DEF Listened, World, x
        <3>2. CASE install = "aborted"
            BY <1>3, <2>3, <2>4, <3>2 DEF Listened, World, x
        <3>3. CASE install \notin {"success", "aborted"}
            BY <1>3, <2>3, <2>4, <3>3 DEF Listened
        <3> QED BY <3>1, <3>2, <3>3
    <2>6. swi.promised \o <<>> = swi.promised
        BY <2>1, ConcatEmpty
    <2> QED BY <2>1, <2>2, <2>5, <2>6 DEF Kept, OneByOne
<1>4. CacheInv /\ [Next]_vars => [ListenerRuns /\ reg' # reg => swi.ops = swi.promised]_vars
    BY <1>3
<1> QED BY <1>1, <1>2, <1>4, PTL DEF Spec, OnlyPromisesCommitted

-----------------------------------------------------------------------------
(***************************************************************************)
(* The list and the file, without plugins.  A blacklisted feature of the    *)
(* ROM is not to be modifiable, and a restored file is one the server could *)
(* have written: it has persisted features only.                           *)
(***************************************************************************)
CleanRom == \A f \in Feature : Flagged(Rom, f, "EFeatureBlackListed")
                                 => ~Flagged(Rom, f, "EFeatureModifiable")
OwnFile(file) == \A f \in Feature : Holds(file, f) => "EFeaturePersisted" \in file[f].flags

Reg == [list : Listing, file : Listing \cup {NoFile, Torn}, ready : BOOLEAN,
        unsaved : SUBSET Feature]

\* The entry of a feature in the list is valid if it is of the run time and of
\* a known feature otherwise; a blacklisted feature stays what the ROM says.
SaneEntry(e, f) ==
    /\ "EFeatureRuntime" \in e.flags \/ Has(Rom, f)
    /\ "EFeatureRuntime" \in e.flags => Valid(e.flags)
    /\ "EFeatureBlackListed" \in e.flags => "EFeatureModifiable" \notin e.flags
SaneList(l) ==
    \A f \in Feature : /\ Has(l, f) => SaneEntry(l[f], f)
                       /\ Flagged(Rom, f, "EFeatureBlackListed") => l[f] = Rom[f]
Sane(r) == r \in Reg /\ SaneList(r.list) /\ OwnFile(r.file)

\* The file can be read, and with a feature whose changes were saved it agrees:
\* what it holds is what the list has, and a persisted feature it does not hold
\* is as the ROM has it.
AgreeOn(l, file, f) ==
    IF Holds(file, f) THEN l[f] = file[f]
    ELSE Flagged(l, f, "EFeaturePersisted") => l[f] = Rom[f]
Readable(file) == file \notin {NoFile, Torn} => ~Corrupt(Rom, file)
Agree(r) ==
    /\ Readable(r.file)
    /\ \A f \in Feature \ r.unsaved :
          ~Flagged(Rom, f, "EFeatureBlackListed") => AgreeOn(r.list, r.file, f)

\* The fields of a registry and of an entry.
LEMMA RegFields ==
    ASSUME NEW r \in Reg
    PROVE  /\ r.list \in Listing /\ r.unsaved \subseteq Feature
           /\ r.file \in Listing \cup {NoFile, Torn}
           /\ \A f \in Feature : Has(r.list, f) => r.list[f] \in Entry
BY DEF Reg, Listing, Has

\* What the file becomes when feature f changes to e or is deleted: new.
FileChange(file, new, f, e, type, out) ==
    /\ new \in Listing \cup {NoFile, Torn}
    /\ \A g \in Feature : g # f => (Holds(new, g) => Holds(file, g) /\ new[g] = file[g])
    /\ \A g \in Feature : g # f => (Holds(file, g) => Holds(new, g))
    /\ Holds(file, f) /\ ~Holds(new, f) => type = "EFeatureFeatureDeleted"
    /\ Holds(new, f) => new[f] = e \/ (Holds(file, f) /\ new[f] = file[f])
    /\ file # Torn /\ out = "done" /\ type # "EFeatureFeatureDeleted" =>
          Holds(new, f) /\ new[f] = e
    /\ Holds(file, f) /\ out = "done" /\ type = "EFeatureFeatureDeleted" => ~Holds(new, f)

\* That is what UpdateRuntimeFeaturesFileL does, whatever fails in it.
LEMMA UpdateType ==
    ASSUME NEW file \in Listing \cup {NoFile, Torn}, NEW f \in Feature, NEW e \in Entry,
           NEW type, NEW out
    PROVE  FileChange(file, UpdateRuntimeFeaturesFileL(file, f, e, type, out), f, e, type, out)
<1> DEFINE new == UpdateRuntimeFeaturesFileL(file, f, e, type, out)
<1> SUFFICES FileChange(file, new, f, e, type, out)
    OBVIOUS
<1>0. Listing \cap {NoFile, Torn} = {} /\ e # Absent
    BY RegistryAssumption
<1>1. CASE file = NoFile /\ out = "done"
    <2> DEFINE n == [Empty EXCEPT ![f] = e]
    <2>1. new = n
        BY <1>1 DEF UpdateRuntimeFeaturesFileL
    <2>2. n \in Listing /\ n[f] = e /\ \A g \in Feature \ {f} : n[g] = Absent
        BY DEF Empty, Listing
    <2> HIDE DEF n
    <2>3. new \notin {NoFile, Torn}
        BY <1>0, <2>1, <2>2
    <2> HIDE DEF new
    <2> QED BY <1>0, <1>1, <2>1, <2>2, <2>3 DEF FileChange, Holds, Has
<1>2. CASE file = NoFile /\ out = "torn"
    <2>1. new = Torn
        BY <1>2 DEF UpdateRuntimeFeaturesFileL
    <2> HIDE DEF new
    <2> QED BY <1>0, <1>2, <2>1 DEF FileChange, Holds
<1>3. CASE file \notin {NoFile, Torn} /\ out = "done"
    <2>1. new = Updated(file, f, e, type)
        BY <1>3 DEF UpdateRuntimeFeaturesFileL
    <2>2. file \in Listing
        BY <1>3
    <2>3. CASE Has(file, f) /\ type = "EFeatureFeatureDeleted"
        <3>1. new = [file EXCEPT ![f] = Absent]
            BY <2>1, <2>3 DEF Updated
        <3>2. new \in Listing /\ new[f] = Absent /\ \A g \in Feature \ {f} : new[g] = file[g]
            BY <2>2, <3>1 DEF Listing
        <3> HIDE DEF new
        <3> QED BY <1>0, <1>3, <2>2, <2>3, <3>2 DEF FileChange, Holds, Has
    <2>4. CASE ~(Has(file, f) /\ type = "EFeatureFeatureDeleted")
        <3>1. new = [file EXCEPT ![f] = e]
            BY <2>1, <2>4 DEF Updated
        <3>2. new \in Listing /\ new[f] = e /\ \A g \in Feature \ {f} : new[g] = file[g]
            BY <2>2, <3>1 DEF Listing
        <3> HIDE DEF new
        <3> QED BY <1>0, <1>3, <2>2, <2>4, <3>2 DEF FileChange, Holds, Has
    <2> QED BY <2>3, <2>4
<1>4. CASE ~(file = NoFile /\ out \in {"done", "torn"}) /\ ~(file \notin {NoFile, Torn} /\ out = "done")
    <2>1. new = file
        BY <1>4 DEF UpdateRuntimeFeaturesFileL
    <2> HIDE DEF new
    <2> QED BY <1>4, <2>1 DEF FileChange, Holds
<1> QED BY <1>1, <1>2, <1>3, <1>4

\* A file stays readable when a valid entry of a known feature is written.
LEMMA UpdateReadable ==
    ASSUME NEW file \in Listing \cup {NoFile, Torn}, NEW f \in Feature, NEW e \in Entry,
           NEW type, NEW out, NEW new, FileChange(file, new, f, e, type, out),
           Valid(e.flags), "EFeatureRuntime" \in e.flags \/ Has(Rom, f), Readable(file)
    PROVE  Readable(new)
<1> SUFFICES ASSUME new \notin {NoFile, Torn}, NEW g \in Feature, Has(new, g)
             PROVE  Valid(new[g].flags) /\ ("EFeatureRuntime" \in new[g].flags \/ Has(Rom, g))
    BY DEF Readable, Corrupt, Flagged
<1>1. Holds(new, g)
    BY DEF Holds
<1>2. ASSUME Holds(file, g)
      PROVE  Valid(file[g].flags) /\ ("EFeatureRuntime" \in file[g].flags \/ Has(Rom, g))
    BY <1>2 DEF Readable, Corrupt, Flagged, Holds
<1>3. CASE g # f
    <2>1. Holds(file, g) /\ new[g] = file[g]
        BY <1>1, <1>3 DEF FileChange
    <2> QED BY <1>2, <2>1
<1>4. CASE g = f
    <2>1. new[f] = e \/ (Holds(file, f) /\ new[f] = file[f])
        BY <1>1, <1>4 DEF FileChange
    <2> QED BY <1>2, <1>4, <2>1
<1> QED BY <1>3, <1>4

\* HandleChange: feature f, which is not blacklisted, becomes x by a change
\* with the entry e.  A deletion is one of an entry of the run time, and an
\* entry that is not persisted takes the place of none that is.
ChangeOK(r, f, x, e, type) ==
    /\ ~Flagged(Rom, f, "EFeatureBlackListed")
    /\ Valid(e.flags)
    /\ "EFeatureRuntime" \in e.flags \/ Has(Rom, f)
    /\ "EFeaturePersisted" \notin e.flags => ~Flagged(r.list, f, "EFeaturePersisted")
    /\ IF type = "EFeatureFeatureDeleted"
       THEN x = Absent /\ e = r.list[f] /\ "EFeatureRuntime" \in e.flags
       ELSE x = e

\* What r becomes.
Changed(r, h, f, x) ==
    /\ Sane(h)
    /\ Agree(r) => Agree(h)
    /\ \A g \in Feature : Holds(r.file, g) /\ ~Holds(h.file, g) => g = f /\ x = Absent
    /\ h.list = [r.list EXCEPT ![f] = x]

\* Such a change keeps the list sane, the file readable, and both in agreement.
LEMMA HandleChangeSane ==
    ASSUME NEW r, Sane(r), NEW f \in Feature, NEW x \in Entry \cup {Absent}, NEW e \in Entry,
           NEW type, NEW out, ChangeOK(r, f, x, e, type)
    PROVE  Changed(r, HandleChange([r EXCEPT !.list[f] = x], f, e, type, out), f, x)
<1> DEFINE h == HandleChange([r EXCEPT !.list[f] = x], f, e, type, out)
<1> SUFFICES Changed(r, h, f, x)
    OBVIOUS
<1> DEFINE l == [r.list EXCEPT ![f] = x]
           n == UpdateRuntimeFeaturesFileL(r.file, f, e, type, out)
           saved == r.file # Torn /\ out = "done" /\ (type = "EFeatureFeatureDeleted" => f \notin r.unsaved)
           u == IF saved THEN r.unsaved \ {f} ELSE r.unsaved \cup {f}
           persisted == "EFeaturePersisted" \in e.flags
<1>1. r \in Reg /\ SaneList(r.list) /\ OwnFile(r.file)
    BY DEF Sane
<1>2. r.list \in Listing /\ r.unsaved \subseteq Feature /\ r.file \in Listing \cup {NoFile, Torn}
    BY <1>1, RegFields
<1>3. l \in Listing /\ l[f] = x /\ \A g \in Feature \ {f} : l[g] = r.list[g]
    BY <1>2 DEF Listing
<1>4. [r EXCEPT !.list[f] = x] = [r EXCEPT !.list = l]
    BY <1>1 DEF Reg
<1> HIDE DEF l
<1>5. SaneEntry(e, f)
    BY DEF ChangeOK, SaneEntry, Valid
<1>6. SaneList(l)
    <2> SUFFICES ASSUME NEW g \in Feature
                 PROVE  /\ Has(l, g) => SaneEntry(l[g], g)
                        /\ Flagged(Rom, g, "EFeatureBlackListed") => l[g] = Rom[g]
        BY DEF SaneList
    <2>1. CASE g = f
        BY <1>3, <1>5, <2>1 DEF ChangeOK, Has
    <2>2. CASE g # f
        BY <1>1, <1>3, <2>2 DEF SaneList, Has
    <2> QED BY <2>1, <2>2
<1>7. CASE ~persisted
    <2>1. h = [r EXCEPT !.list = l]
        BY <1>4, <1>7 DEF HandleChange
    <2>2. h \in Reg /\ h.list = l /\ h.file = r.file /\ h.unsaved = r.unsaved
        BY <1>1, <1>3, <2>1 DEF Reg
    <2>3. Sane(h)
        BY <1>1, <1>6, <2>2 DEF Sane
    <2>4. ASSUME Agree(r), NEW g \in Feature \ r.unsaved, ~Flagged(Rom, g, "EFeatureBlackListed")
          PROVE  AgreeOn(l, r.file, g)
        <3>1. AgreeOn(r.list, r.file, g)
            BY <2>4 DEF Agree
        <3>2. CASE g # f
            BY <1>3, <3>1, <3>2 DEF AgreeOn, Flagged, Has
        <3>3. CASE g = f
            <4>1. ~Flagged(r.list, f, "EFeaturePersisted")
                BY <1>7 DEF ChangeOK
            <4>2. ~Holds(r.file, f)
                BY <1>1, <3>1, <3>3, <4>1 DEF AgreeOn, OwnFile, Flagged, Holds, Has
            <4>3. ~Flagged(l, f, "EFeaturePersisted")
                BY <1>3, <1>7 DEF ChangeOK, Flagged, Has
            <4> QED BY <3>3, <4>2, <4>3 DEF AgreeOn
        <3> QED BY <3>2, <3>3
    <2>5. Agree(r) => Agree(h)
        BY <2>2, <2>4 DEF Agree
    <2> HIDE DEF h
    <2> QED BY <2>2, <2>3, <2>5 DEF l, Changed
<1>8. CASE persisted
    <2>0. FileChange(r.file, n, f, e, type, out) /\ u \subseteq Feature
        BY <1>2, UpdateType
    <2> HIDE DEF n
    <2>1. h = [r EXCEPT !.list = l, !.file = n, !.unsaved = u]
        <3> DEFINE m == [r EXCEPT !.list = l]
        <3>1. m \in Reg /\ m.file = r.file /\ m.unsaved = r.unsaved
            BY <1>1, <1>3 DEF Reg
        <3>2. h = [m EXCEPT !.file = n, !.unsaved = u]
            BY <1>4, <1>8, <3>1 DEF HandleChange, n
        <3> HIDE DEF u
        <3>3. [m EXCEPT !.file = n, !.unsaved = u] = [r EXCEPT !.list = l, !.file = n, !.unsaved = u]
            BY <1>1 DEF Reg
        <3> QED BY <3>2, <3>3
    <2> HIDE DEF u
    <2>2. h \in Reg /\ h.list = l /\ h.file = n /\ h.unsaved = u
        BY <1>1, <1>3, <2>0, <2>1 DEF Reg, FileChange
    <2>4. OwnFile(n)
        <3> SUFFICES ASSUME NEW g \in Feature, Holds(n, g)
                     PROVE  "EFeaturePersisted" \in n[g].flags
            BY DEF OwnFile
        <3>1. CASE g = f
            <4>1. n[f] = e \/ (Holds(r.file, f) /\ n[f] = r.file[f])
                BY <2>0, <3>1 DEF FileChange
            <4> QED BY <1>1, <1>8, <3>1, <4>1 DEF OwnFile
        <3>2. CASE g # f
            <4>1. Holds(r.file, g) /\ n[g] = r.file[g]
                BY <2>0, <3>2 DEF FileChange
            <4> QED BY <1>1, <4>1 DEF OwnFile
        <3> QED BY <3>1, <3>2
    <2>5. Sane(h)
        BY <1>6, <2>2, <2>4 DEF Sane
    <2>6. Agree(r) => Readable(n)
        BY <1>2, <2>0, UpdateReadable DEF Agree, ChangeOK
    <2>7. ASSUME Agree(r), NEW g \in Feature \ u, ~Flagged(Rom, g, "EFeatureBlackListed")
          PROVE  AgreeOn(l, n, g)
        <3>1. CASE g # f
            <4>1. AgreeOn(r.list, r.file, g)
                BY <2>7, <3>1 DEF Agree, u
            <4>2. /\ l[g] = r.list[g]
                  /\ Holds(n, g) => Holds(r.file, g) /\ n[g] = r.file[g]
                  /\ Holds(r.file, g) => Holds(n, g)
                BY <1>3, <2>0, <3>1 DEF FileChange
            <4>3. CASE Holds(n, g)
                BY <2>0, <3>1, <4>1, <4>2, <4>3 DEF AgreeOn, FileChange
            <4>4. CASE ~Holds(n, g)
                BY <4>1, <4>2, <4>4 DEF AgreeOn, Flagged, Has
            <4> QED BY <4>3, <4>4
        <3>2. CASE g = f /\ type # "EFeatureFeatureDeleted"
            <4>1. Holds(n, f) /\ n[f] = e
                BY <2>0, <2>7, <3>2 DEF u, FileChange
            <4>2. l[f] = e
                BY <1>3, <3>2 DEF ChangeOK
            <4> QED BY <3>2, <4>1, <4>2 DEF AgreeOn
        <3>3. CASE g = f /\ type = "EFeatureFeatureDeleted"
            <4>1. f \notin r.unsaved /\ out = "done"
                BY <2>7, <3>3 DEF u
            <4>2. AgreeOn(r.list, r.file, f)
                BY <2>7, <3>3, <4>1 DEF Agree
            <4>3. Flagged(r.list, f, "EFeaturePersisted") /\ r.list[f] # Rom[f]
                BY <1>8, <3>3, RegistryAssumption DEF ChangeOK, Flagged, Has
            <4>4. ~Holds(n, f)
                BY <2>0, <3>3, <4>1, <4>2, <4>3 DEF AgreeOn, FileChange
            <4>5. ~Flagged(l, f, "EFeaturePersisted")
                BY <1>3, <3>3 DEF ChangeOK, Flagged, Has
            <4> QED BY <3>3, <4>4, <4>5 DEF AgreeOn
        <3> QED BY <3>1, <3>2, <3>3
    <2>8. Agree(r) => Agree(h)
        BY <2>2, <2>6, <2>7 DEF Agree
    <2>9. \A g \in Feature : Holds(r.file, g) /\ ~Holds(n, g) => g = f /\ x = Absent
        <3> SUFFICES ASSUME NEW g \in Feature, Holds(r.file, g), ~Holds(n, g)
                     PROVE  g = f /\ x = Absent
            OBVIOUS
        <3>1. g = f
            BY <2>0 DEF FileChange
        <3>2. type = "EFeatureFeatureDeleted"
            BY <2>0, <3>1 DEF FileChange
        <3> QED BY <3>1, <3>2 DEF ChangeOK
    <2> HIDE DEF h
    <2> QED BY <2>2, <2>5, <2>8, <2>9 DEF l, Changed
<1> QED BY <1>7, <1>8

\* What a step from registry r to h, for the command q, does.
SaneStep(r, h, q) ==
    /\ Sane(h)
    /\ Agree(r) => Agree(h)
    /\ \A g \in Feature : Holds(r.file, g) /\ ~Holds(h.file, g) =>
          q.op = "delete" /\ q.f = g /\ Has(r.list, g) /\ ~Has(h.list, g)

\* A command that is refused changes nothing.
LEMMA Refused == ASSUME NEW r, Sane(r), NEW q PROVE SaneStep(r, r, q)
BY DEF SaneStep

\* AddFeature: the feature is new, so it is not blacklisted, and its entry is
\* marked as one of the run time.
LEMMA AddFeatureSane ==
    ASSUME NEW r, Sane(r), NEW q \in Command, q.op = "add", NEW out
    PROVE  SaneStep(r, AddFeature(r, q.f, q.e, out), q)
<1> DEFINE f == q.f
           entry == [q.e EXCEPT !.flags = @ \cup {"EFeatureRuntime"}]
<1>1. f \in Feature /\ q.e \in Entry
    BY DEF Command
<1>2. entry \in Entry /\ "EFeatureRuntime" \in entry.flags
    BY <1>1 DEF Entry, Flags
<1>3. CASE Has(r.list, f) \/ ~Valid(entry.flags)
    BY <1>3, Refused DEF AddFeature
<1>4. CASE ~Has(r.list, f) /\ Valid(entry.flags)
    <2> DEFINE h == HandleChange([r EXCEPT !.list[f] = entry], f, entry, "EFeatureFeatureCreated", out)
    <2>1. AddFeature(r, f, q.e, out) = h
        BY <1>4 DEF AddFeature
    <2> HIDE DEF entry, f
    <2>2. ~Flagged(Rom, f, "EFeatureBlackListed")
        BY <1>1, <1>4 DEF Sane, SaneList, Flagged, Has, f
    <2>3. ChangeOK(r, f, entry, entry, "EFeatureFeatureCreated")
        BY <1>2, <1>4, <2>2 DEF ChangeOK, Flagged
    <2>4. entry # Absent /\ f \in Feature /\ entry \in Entry \cup {Absent}
        BY <1>1, <1>2, RegistryAssumption DEF f
    <2> HIDE DEF h
    <2>5. Changed(r, h, f, entry)
        BY <1>2, <2>3, <2>4, HandleChangeSane DEF h
    <2>6. SaneStep(r, h, q)
        BY <2>4, <2>5 DEF SaneStep, Changed
    <2> QED BY <2>1, <2>6 DEF f
<1> QED BY <1>3, <1>4

\* DeleteFeature: only a feature of the run time.
LEMMA DeleteFeatureSane ==
    ASSUME NEW r, Sane(r), NEW q \in Command, q.op = "delete", NEW out
    PROVE  SaneStep(r, DeleteFeature(r, q.f, out), q)
<1> DEFINE f == q.f
<1>1. f \in Feature
    BY DEF Command
<1>2. CASE ~Flagged(r.list, f, "EFeatureRuntime")
    BY <1>2, Refused DEF DeleteFeature
<1>3. CASE Flagged(r.list, f, "EFeatureRuntime")
    <2> DEFINE e == r.list[f]
               h == HandleChange([r EXCEPT !.list[f] = Absent], f, e, "EFeatureFeatureDeleted", out)
    <2>1. DeleteFeature(r, f, out) = h
        BY <1>3 DEF DeleteFeature
    <2>2. r.list \in Listing /\ e \in Entry /\ Has(r.list, f) /\ "EFeatureRuntime" \in e.flags
        BY <1>1, <1>3, RegFields DEF Sane, Flagged
    <2> HIDE DEF f
    <2>3. SaneEntry(e, f) /\ (Flagged(Rom, f, "EFeatureBlackListed") => e = Rom[f])
        BY <1>1, <2>2 DEF Sane, SaneList
    <2>4. ~Flagged(Rom, f, "EFeatureBlackListed")
        BY <1>1, <2>2, <2>3, RegistryAssumption DEF Flagged, Has
    <2>5. ChangeOK(r, f, Absent, e, "EFeatureFeatureDeleted")
        BY <2>2, <2>3, <2>4 DEF ChangeOK, SaneEntry, Flagged
    <2> HIDE DEF e, h
    <2>6. Changed(r, h, f, Absent)
        BY <1>1, <2>2, <2>5, HandleChangeSane DEF h
    <2>7. ~Has(h.list, f)
        BY <1>1, <2>2, <2>6 DEF Has, Listing, Changed
    <2>8. SaneStep(r, h, q)
        BY <2>2, <2>6, <2>7 DEF SaneStep, f, Changed
    <2> QED BY <2>1, <2>8 DEF f
<1> QED BY <1>2, <1>3

\* SetFeature: only a modifiable feature, so it is not blacklisted.
LEMMA SetFeatureSane ==
    ASSUME NEW r, Sane(r), NEW q \in Command, q.op = "set", NEW out
    PROVE  SaneStep(r, SetFeature(r, q.f, q.enable, q.data, out), q)
<1> DEFINE f == q.f
<1>1. f \in Feature /\ q.data \in Data \cup {NoData} /\ q.enable \in {"enable", "disable", "untouch"}
    BY DEF Command
<1>2. CASE ~Flagged(r.list, f, "EFeatureModifiable")
    BY <1>2, Refused DEF SetFeature
<1>3. CASE Flagged(r.list, f, "EFeatureModifiable")
    <2> DEFINE old == r.list[f]
               sup == IF q.enable = "untouch" THEN old.supported ELSE q.enable = "enable"
               dat == IF q.data = NoData THEN old.data ELSE q.data
               entry == [supported |-> sup, data |-> dat,
                         flags |-> old.flags \ {"EFeatureUninitialized"}]
               h == HandleChange([r EXCEPT !.list[f] = entry], f, entry,
                                 "EFeatureStatusDataUpdated", out)
    <2>1. SetFeature(r, f, q.enable, q.data, out) = h
        BY <1>3 DEF SetFeature
    <2>2. old \in Entry /\ Has(r.list, f) /\ "EFeatureModifiable" \in old.flags
        BY <1>1, <1>3, RegFields DEF Sane, Flagged
    <2>3. sup \in BOOLEAN /\ dat \in Data
        BY <1>1, <2>2 DEF Entry
    <2>4. SaneEntry(old, f) /\ (Flagged(Rom, f, "EFeatureBlackListed") => old = Rom[f])
        BY <1>1, <2>2 DEF Sane, SaneList
    <2> HIDE DEF sup, dat, old, f
    <2>5. /\ entry \in Entry /\ entry.flags = old.flags \ {"EFeatureUninitialized"}
          /\ entry # Absent
        BY <2>2, <2>3, RegistryAssumption DEF Entry
    <2> HIDE DEF entry
    <2>6. ~Flagged(Rom, f, "EFeatureBlackListed") /\ "EFeatureBlackListed" \notin old.flags
        BY <1>1, <2>2, <2>4 DEF SaneEntry, Flagged
    <2>7. Valid(entry.flags)
        BY <2>5, <2>6 DEF Valid
    <2>8. ChangeOK(r, f, entry, entry, "EFeatureStatusDataUpdated")
        BY <2>2, <2>4, <2>5, <2>6, <2>7 DEF ChangeOK, SaneEntry, Flagged, old
    <2> HIDE DEF h
    <2>9. Changed(r, h, f, entry)
        BY <1>1, <2>5, <2>8, HandleChangeSane DEF h
    <2>10. SaneStep(r, h, q)
        BY <2>5, <2>9 DEF SaneStep, Changed
    <2> QED BY <2>1, <2>10 DEF f
<1> QED BY <1>2, <1>3

\* Together: what a command does to the registry.
LEMMA ApplySane ==
    ASSUME NEW r, Sane(r), NEW q \in Command, NEW out
    PROVE  SaneStep(r, Apply(r, q, out), q)
<1>1. q.op \in {"add", "delete", "set"}
    BY DEF Command
<1>2. CASE q.op = "add"
    BY <1>2, AddFeatureSane DEF Apply
<1>3. CASE q.op = "delete"
    BY <1>3, DeleteFeatureSane DEF Apply
<1>4. CASE q.op = "set"
    BY <1>4, SetFeatureSane DEF Apply
<1> QED BY <1>1, <1>2, <1>3, <1>4

\* A commit of the operations ops takes r to h.
Committed(r, h, ops) ==
    /\ Sane(h)
    /\ Agree(r) => Agree(h)
    /\ \A g \in Feature : Holds(r.file, g) /\ ~Holds(h.file, g) =>
          \E i \in 1 .. Len(ops) : ops[i].op = "delete" /\ ops[i].f = g

\* All operations of an installation, in their order.
LEMMA CommitSane ==
    ASSUME NEW x, Sane(x.r), x.w.ops \in Seq(Command), NEW out
    PROVE  Committed(x.r, CommitSWIFeatChanges(x, out).r, x.w.ops)
<1> DEFINE ops == x.w.ops
           N == Len(ops)
<1>1. N \in Nat /\ \A i \in 1 .. N : ops[i] \in Command
    OBVIOUS
<1>2. PICK g : Applying(g, x.r, ops, out, N) /\ CommitSWIFeatChanges(x, out).r = g[N]
    BY <1>1, CommitApplies
<1> HIDE DEF ops, N
<1>3. /\ g[0] = x.r
      /\ \A i \in 0 .. N - 1 : g[i + 1] = Apply(g[i], ops[i + 1], out)
    BY <1>1, <1>2 DEF Applying
<1> DEFINE Lost(n) == \A f \in Feature : Holds(x.r.file, f) /\ ~Holds(g[n].file, f) =>
                         \E i \in 1 .. n : ops[i].op = "delete" /\ ops[i].f = f
           A == {n \in 0 .. N : Sane(g[n]) /\ (Agree(x.r) => Agree(g[n])) /\ Lost(n)}
<1>4. 0 \in A
    BY <1>1, <1>3
<1>5. ASSUME NEW n \in 0 .. N - 1, n \in A PROVE n + 1 \in A
    <2>1. Sane(g[n]) /\ (Agree(x.r) => Agree(g[n])) /\ Lost(n)
        BY <1>5
    <2>2. n + 1 \in 1 .. N /\ n + 1 \in 0 .. N /\ ops[n + 1] \in Command
        BY <1>1
    <2>3. SaneStep(g[n], g[n + 1], ops[n + 1])
        BY <1>3, <2>1, <2>2, ApplySane
    <2>4. Sane(g[n + 1]) /\ (Agree(x.r) => Agree(g[n + 1]))
        BY <2>1, <2>3 DEF SaneStep
    <2>5. Lost(n + 1)
        <3> SUFFICES ASSUME NEW f \in Feature, Holds(x.r.file, f), ~Holds(g[n + 1].file, f)
                     PROVE  \E i \in 1 .. n + 1 : ops[i].op = "delete" /\ ops[i].f = f
            OBVIOUS
        <3>1. CASE Holds(g[n].file, f)
            <4>1. ops[n + 1].op = "delete" /\ ops[n + 1].f = f
                BY <2>3, <3>1 DEF SaneStep
            <4> QED BY <2>2, <4>1
        <3>2. CASE ~Holds(g[n].file, f)
            <4>1. PICK i \in 1 .. n : ops[i].op = "delete" /\ ops[i].f = f
                BY <2>1, <3>2
            <4>2. i \in 1 .. n + 1
                OBVIOUS
            <4> QED BY <4>1, <4>2
        <3> QED BY <3>1, <3>2
    <2> HIDE DEF Lost
    <2> QED BY <2>2, <2>4, <2>5
<1>6. \A n \in 0 .. N : n \in A
    <2> HIDE DEF A
    <2> QED BY <1>1, <1>4, <1>5, SetInduction, Zenon
<1>7. N \in A
    BY <1>1, <1>6
<1>8. Committed(x.r, g[N], ops)
    BY <1>7 DEF Committed, N
<1> QED BY <1>2, <1>8 DEF ops

\* List and file agree on every feature.
AgreeAll(l, file) ==
    /\ Readable(file)
    /\ \A f \in Feature : ~Flagged(Rom, f, "EFeatureBlackListed") => AgreeOn(l, file, f)

\* The file is read over the list of the ROM.
LEMMA ReadSane ==
    ASSUME NEW r \in Reg, r.list = Rom, OwnFile(r.file), CleanRom,
           NEW h, h = ReadRuntimeFeaturesL(r)
    PROVE  /\ Sane(h) /\ AgreeAll(h.list, h.file) /\ h.unsaved = r.unsaved
           /\ Readable(r.file) => h.file = r.file
<1>0. Listing \cap {NoFile, Torn} = {} /\ NoFile # Torn /\ Rom \in Listing
    BY RegistryAssumption
<1>1. SaneList(Rom)
    BY RegistryAssumption DEF SaneList, SaneEntry, CleanRom, Flagged, Has
<1>2. r.list \in Listing /\ r.file \in Listing \cup {NoFile, Torn}
    BY RegFields
<1>3. CASE r.file = NoFile
    <2>1. h = [r EXCEPT !.ready = TRUE]
        BY <1>0, <1>3 DEF ReadRuntimeFeaturesL
    <2>2. h \in Reg /\ h.list = Rom /\ h.file = NoFile /\ h.unsaved = r.unsaved
        BY <1>3, <2>1 DEF Reg
    <2> QED BY <1>1, <1>3, <2>2 DEF Sane, AgreeAll, AgreeOn, OwnFile, Holds, Readable
<1>4. CASE r.file = Torn
    <2>1. h = r
        BY <1>0, <1>4 DEF ReadRuntimeFeaturesL
    <2> QED BY <1>1, <1>4, <2>1 DEF Sane, AgreeAll, AgreeOn, OwnFile, Holds, Readable
<1>5. CASE r.file \notin {NoFile, Torn} /\ Corrupt(r.list, r.file)
    <2>1. h = [r EXCEPT !.file = NoFile, !.ready = TRUE]
        BY <1>5 DEF ReadRuntimeFeaturesL
    <2>2. h \in Reg /\ h.list = Rom /\ h.file = NoFile /\ h.unsaved = r.unsaved
        BY <2>1 DEF Reg
    <2> QED BY <1>1, <1>5, <2>2 DEF Sane, AgreeAll, AgreeOn, OwnFile, Holds, Readable
<1>6. CASE r.file \notin {NoFile, Torn} /\ ~Corrupt(r.list, r.file)
    <2> DEFINE l == Overlaid(Rom, r.file)
    <2>1. h = [r EXCEPT !.list = l, !.ready = TRUE]
        BY <1>6 DEF ReadRuntimeFeaturesL
    <2>2. \A f \in Feature : r.file[f] \in Entry \cup {Absent} /\ Rom[f] \in Entry \cup {Absent}
        BY <1>0, <1>2, <1>6 DEF Listing
    <2>3. /\ l \in Listing
          /\ \A f \in Feature : l[f] = IF Has(r.file, f) /\ ~Flagged(Rom, f, "EFeatureBlackListed")
                                       THEN r.file[f] ELSE Rom[f]
        BY <2>2 DEF Overlaid, Listing
    <2> HIDE DEF l
    <2>4. h \in Reg /\ h.list = l /\ h.file = r.file /\ h.unsaved = r.unsaved
        BY <2>1, <2>3 DEF Reg
    <2>5. SaneList(l)
        <3> SUFFICES ASSUME NEW f \in Feature
                     PROVE  /\ Has(l, f) => SaneEntry(l[f], f)
                            /\ Flagged(Rom, f, "EFeatureBlackListed") => l[f] = Rom[f]
            BY DEF SaneList
        <3>1. CASE Has(r.file, f) /\ ~Flagged(Rom, f, "EFeatureBlackListed")
            <4>1. Valid(r.file[f].flags) /\ ("EFeatureRuntime" \in r.file[f].flags \/ Has(Rom, f))
                BY <1>6, <3>1 DEF Corrupt, Flagged
            <4> QED BY <2>3, <3>1, <4>1 DEF SaneEntry, Valid
        <3>2. CASE ~(Has(r.file, f) /\ ~Flagged(Rom, f, "EFeatureBlackListed"))
            <4>1. l[f] = Rom[f]
                BY <2>3, <3>2
            <4> QED BY <1>1, <4>1 DEF SaneList, Has
        <3> QED BY <3>1, <3>2
    <2>6. \A f \in Feature : ~Flagged(Rom, f, "EFeatureBlackListed") => AgreeOn(l, r.file, f)
        BY <1>6, <2>3 DEF AgreeOn, Holds
    <2>7. Sane(h) /\ AgreeAll(h.list, h.file)
        BY <1>6, <2>4, <2>5, <2>6 DEF Sane, AgreeAll, Readable
    <2> QED BY <2>4, <2>7
<1> QED BY <1>2, <1>3, <1>4, <1>5, <1>6

-----------------------------------------------------------------------------
(* The server without plugins *)

Srv == [pluginsReady : BOOLEAN, pluginsDeleted : BOOLEAN, pending : BOOLEAN,
        plugins : {Asked, NoPlugins}, busy : BOOLEAN,
        bur : {"None", "BackupStarted", "RestoreStarted", "Error"}, timers : Nat]

\* Nobody waits, for there is nothing to wait for.
Settled == srv \in Srv /\ srv.pluginsReady = TRUE /\ srv.timers = 0 /\ queue = NoneWaits

\* Where nobody waits, serving does nothing.
LEMMA ServedNone ==
    ASSUME NEW x, NEW order \in Orders, NEW out, queue = NoneWaits
    PROVE  Served(x, order, out) = x
<1> DEFINE N == Len(order)
<1>1. N \in Nat /\ \A i \in 1 .. N : order[i] \in Session
    BY OrdersType
<1>2. PICK g : Serving1(g, x, order, out, N) /\ Served(x, order, out) = g[N]
    BY <1>1, ServedSteps
<1> HIDE DEF N
<1>3. /\ g[0] = x
      /\ \A i \in 0 .. N - 1 : g[i + 1] = ServedOne(g[i], order[i + 1], out)
    BY <1>1, <1>2 DEF Serving1
<1> DEFINE A == {i \in 0 .. N : g[i] = x}
<1>4. 0 \in A
    BY <1>1, <1>3
<1>5. ASSUME NEW i \in 0 .. N - 1, i \in A PROVE i + 1 \in A
    <2>1. i + 1 \in 1 .. N /\ i + 1 \in 0 .. N /\ g[i] = x
        BY <1>1, <1>5
    <2>2. order[i + 1] \in Session
        BY <1>1, <2>1
    <2>3. ServedOne(g[i], order[i + 1], out) = g[i]
        BY <2>2 DEF ServedOne, NoneWaits
    <2> QED BY <1>3, <2>1, <2>3
<1>6. \A i \in 0 .. N : i \in A
    <2> HIDE DEF A
    <2> QED BY <1>1, <1>4, <1>5, SetInduction, Zenon
<1> QED BY <1>1, <1>2, <1>6

\* Without plugins the server is settled after every step.
LEMMA SettledStep == ASSUME Plugin = {}, Settled, [Next]_vars PROVE Settled'
<1> DEFINE Goal == srv' \in Srv /\ srv'.pluginsReady = TRUE /\ srv'.timers = 0 /\ queue' = NoneWaits
<1> SUFFICES Goal
    BY DEF Settled, NoneWaits
<1>0. srv \in Srv /\ srv.pluginsReady = TRUE /\ srv.timers = 0 /\ queue = NoneWaits
    BY DEF Settled
<1>1. ASSUME NEW s \in Session, NEW q \in Requests, Wait(s, q) PROVE Goal
    BY <1>0, <1>1 DEF Wait
<1>2. ASSUME NEW s \in Session, NEW q \in Requests, Request(s, q) PROVE Goal
    BY <1>0, <1>2 DEF Request
<1>3. ASSUME TimerFired PROVE Goal
    BY <1>0, <1>3 DEF TimerFired
<1>4. ASSUME InstallStarts \/ InstallEnds \/ InstallOver \/ ListenerRuns \/ SWITimerRuns
                \/ RestoreFile \/ UNCHANGED vars
      PROVE  Goal
    BY <1>0, <1>4 DEF InstallStarts, InstallEnds, InstallOver, SetProperty, ListenerRuns,
                      SWITimerRuns, RestoreFile, vars
<1>5. ASSUME StartBackup \/ StartRestore PROVE Goal
    BY <1>0, <1>5 DEF StartBackup, StartRestore, Starts, Srv
<1>6. ASSUME NEW r, NEW v \in Srv, v.pluginsReady = TRUE, v.timers = 0, ServeAll(r, v) PROVE Goal
    BY <1>6 DEF ServeAll, Srv
<1> DEFINE w == Reloading(srv)
<1>7. w \in Srv /\ w.pluginsReady = TRUE /\ w.timers = 0
    <2>1. w = [srv EXCEPT !.pluginsReady = TRUE, !.pluginsDeleted = FALSE, !.pending = TRUE,
                          !.plugins = Asked, !.timers = 0]
        BY <1>0 DEF Reloading
    <2> QED BY <1>0, <2>1 DEF Srv
<1> HIDE DEF w
<1>8. ASSUME EndBackup PROVE Goal
    <2> DEFINE v == [srv EXCEPT !.bur = "None", !.busy = FALSE]
    <2>1. v \in Srv /\ v.pluginsReady = TRUE /\ v.timers = 0
        BY <1>0 DEF Srv
    <2>2. ServeAll(reg, v)
        BY <1>8 DEF EndBackup
    <2> HIDE DEF v
    <2> QED BY <1>6, <2>1, <2>2
<1>9. ASSUME EndRestore PROVE Goal
    <2> DEFINE v == [w EXCEPT !.busy = FALSE]
               u == [Serving(v) EXCEPT !.bur = "None"]
    <2>1. v \in Srv /\ v.pluginsReady = TRUE /\ v.timers = 0
        BY <1>7 DEF Srv
    <2>2. u \in Srv /\ u.pluginsReady = TRUE /\ u.timers = 0
        BY <2>1 DEF Srv, Serving
    <2>3. \/ ServeAll(Reloaded, u)
          \/ srv' = [v EXCEPT !.bur = "Error"] /\ queue' = queue
        BY <1>9 DEF EndRestore, w
    <2> HIDE DEF u
    <2>4. CASE ServeAll(Reloaded, u)
        BY <1>6, <2>2, <2>4
    <2>5. CASE srv' = [v EXCEPT !.bur = "Error"] /\ queue' = queue
        BY <1>0, <2>1, <2>5 DEF Srv
    <2> QED BY <2>3, <2>4, <2>5
<1>10. ASSUME RestoreAgain PROVE Goal
    <2> DEFINE u == [Serving(w) EXCEPT !.bur = "None"]
    <2>1. u \in Srv /\ u.pluginsReady = TRUE /\ u.timers = 0
        BY <1>7 DEF Srv, Serving
    <2>2. ServeAll(Reloaded, u)
        BY <1>10 DEF RestoreAgain, w
    <2> HIDE DEF u
    <2> QED BY <1>6, <2>1, <2>2
<1>11. ASSUME Restart PROVE Goal
    BY <1>11 DEF Restart, Started, Srv
<1> QED BY <1>1, <1>2, <1>3, <1>4, <1>5, <1>8, <1>9, <1>10, <1>11 DEF Next

\* The inductive invariant of the list and the file.  While a restore is under
\* way the file may be any; then everything is read again.
RegistryInv ==
    /\ Settled /\ CacheInv
    /\ Sane(reg)
    /\ srv.bur # "RestoreStarted" => Agree(reg)

\* What a step may take away from the file.
NothingLost ==
    \A f \in Feature : Holds(reg.file, f) /\ ~Holds(reg'.file, f) =>
                          Deletes(f) \/ srv.bur = "RestoreStarted"

\* Reading again after a restore and at a restart.
LEMMA ReloadedSane ==
    ASSUME Plugin = {}, CleanRom, Sane(reg),
           NEW h, h = ReadRuntimeFeaturesL([reg EXCEPT !.list = Rom, !.ready = FALSE])
    PROVE  /\ Sane(h) /\ AgreeAll(h.list, h.file)
           /\ Readable(reg.file) => h.file = reg.file
<1> DEFINE r == [reg EXCEPT !.list = Rom, !.ready = FALSE]
<1>1. r \in Reg /\ r.list = Rom /\ r.file = reg.file
    BY RegistryAssumption DEF Sane, Reg
<1>2. OwnFile(r.file) /\ h = ReadRuntimeFeaturesL(r)
    BY <1>1 DEF Sane
<1> HIDE DEF r
<1> QED BY <1>1, <1>2, ReadSane

\* Agreement on all features is agreement on the saved ones.
LEMMA AllAgree == ASSUME NEW r, AgreeAll(r.list, r.file) PROVE Agree(r)
BY DEF AgreeAll, Agree

\* A request of a client.
LEMMA RequestSane ==
    ASSUME RegistryInv, NEW s \in Session, NEW q \in Requests, Request(s, q)
    PROVE  Sane(reg') /\ (Agree(reg) => Agree(reg')) /\ NothingLost /\ srv' = srv
<1>1. PICK out \in Outcomes, oom \in BOOLEAN :
          reg' = Dispatch(World, s, q, Installing, out, oom).r
    BY DEF Request
<1>2. srv' = srv /\ Sane(reg) /\ World = [r |-> reg, w |-> swi]
    BY DEF Request, RegistryInv, World
<1>3. reg' = reg \/ (q.op \notin {"SWIStart", "SWIEnd"} /\ reg' = Apply(reg, q, out))
    <2>1. CASE q.op \in {"SWIStart", "SWIEnd"}
        BY <1>1, <1>2, <2>1 DEF Dispatch
    <2>2. CASE q.op \notin {"SWIStart", "SWIEnd"} /\ q.op \in {"add", "delete", "set"}
                  /\ swi.caching /\ swi.process = s
        BY <1>1, <1>2, <2>2 DEF Dispatch
    <2>3. CASE q.op \notin {"SWIStart", "SWIEnd"}
                 /\ ~(q.op \in {"add", "delete", "set"} /\ swi.caching /\ swi.process = s)
        BY <1>1, <1>2, <2>3 DEF Dispatch
    <2> QED BY <2>1, <2>2, <2>3
<1>4. CASE reg' = reg
    BY <1>2, <1>4 DEF NothingLost
<1>5. CASE q.op \notin {"SWIStart", "SWIEnd"} /\ reg' = Apply(reg, q, out)
    <2>1. q \in Command
        BY <1>5, ServerAssumption
    <2>2. SaneStep(reg, reg', q)
        BY <1>2, <1>5, <2>1, ApplySane
    <2>3. q # Idle /\ Request(s, q)
        BY <2>1, ServerAssumption
    <2> QED BY <1>2, <2>2, <2>3 DEF SaneStep, NothingLost, Deletes
<1> QED BY <1>3, <1>4, <1>5

\* The listener, which may commit the operations of an installation.
LEMMA ListenerSane ==
    ASSUME RegistryInv, ListenerRuns
    PROVE  Sane(reg') /\ (Agree(reg) => Agree(reg')) /\ NothingLost /\ srv' = srv
<1> DEFINE v == [swi EXCEPT !.event = FALSE]
           x == [r |-> reg, w |-> v]
<1>1. [World EXCEPT !.w.event = FALSE] = x
    <2>1. World.w = swi /\ World.r = reg /\ DOMAIN World = {"r", "w"}
        BY DEF World
    <2>2. [World EXCEPT !.w.event = FALSE] = [World EXCEPT !.w = v]
        BY <2>1
    <2> HIDE DEF v
    <2>3. [World EXCEPT !.w = v] = [r |-> reg, w |-> v]
        BY WorldExcept DEF World
    <2> QED BY <2>2, <2>3
<1>2. swi.ops \in Seq(Command) /\ v.ops = swi.ops
    BY DEF RegistryInv, CacheInv, Swi
<1> HIDE DEF v
<1>3. x.r = reg /\ x.w = v
    OBVIOUS
<1> HIDE DEF x
<1>4. PICK out \in Outcomes : reg' = Listened(x, install, out).r
    BY <1>1 DEF ListenerRuns
<1>5. srv' = srv /\ Sane(reg)
    BY DEF ListenerRuns, RegistryInv
<1>6. reg' = reg \/ reg' = CommitSWIFeatChanges(x, out).r
    <2>1. CASE install = "success" /\ v.status # "ESWIOutOfMemory" /\ ~v.caching
        BY <1>3, <1>4, <2>1 DEF Listened
    <2>2. CASE install = "success" /\ (v.status = "ESWIOutOfMemory" \/ v.caching)
        BY <1>3, <1>4, <2>2 DEF Listened, x
    <2>3. CASE install = "aborted"
        BY <1>3, <1>4, <2>3 DEF Listened, x
    <2>4. CASE install \notin {"success", "aborted"}
        BY <1>3, <1>4, <2>4 DEF Listened
    <2> QED BY <2>1, <2>2, <2>3, <2>4
<1>7. CASE reg' = reg
    BY <1>5, <1>7 DEF NothingLost
<1>8. CASE reg' = CommitSWIFeatChanges(x, out).r
    <2>1. Committed(x.r, CommitSWIFeatChanges(x, out).r, x.w.ops)
        BY <1>2, <1>3, <1>5, CommitSane
    <2>2. Committed(reg, reg', swi.ops)
        BY <1>2, <1>3, <1>8, <2>1
    <2>3. NothingLost
        <3> SUFFICES ASSUME NEW f \in Feature, Holds(reg.file, f), ~Holds(reg'.file, f)
                     PROVE  Deletes(f)
            BY DEF NothingLost
        <3>1. PICK i \in 1 .. Len(swi.ops) : swi.ops[i].op = "delete" /\ swi.ops[i].f = f
            BY <2>2 DEF Committed
        <3>2. swi.ops[i] \in Command /\ swi.ops[i] \in Range(swi.ops)
            BY <1>2 DEF Range
        <3>3. swi.ops[i] # Idle
            BY <3>2, ServerAssumption
        <3> QED BY <3>1, <3>2, <3>3 DEF Deletes
    <2> QED BY <1>5, <2>2, <2>3 DEF Committed
<1> QED BY <1>6, <1>7, <1>8

\* Every step of the server without plugins.
LEMMA RegistryInvStep ==
    ASSUME Plugin = {}, CleanRom, \A file \in Restored : OwnFile(file), RegistryInv, [Next]_vars
    PROVE  RegistryInv' /\ NothingLost
<1>0. /\ Settled /\ CacheInv /\ Sane(reg) /\ (srv.bur # "RestoreStarted" => Agree(reg))
      /\ reg \in Reg /\ srv \in Srv
    BY DEF RegistryInv, Sane, Settled
<1>1. Settled'
    BY <1>0, SettledStep
<1>2. CacheInv'
    <2>1. NoStartWaits
        BY <1>0 DEF Settled, NoneWaits, NoStartWaits
    <2> QED BY <1>0, <2>1, CacheInvStep
<1> DEFINE Goal == Sane(reg') /\ (srv'.bur # "RestoreStarted" => Agree(reg')) /\ NothingLost
<1> SUFFICES Goal
    BY <1>1, <1>2 DEF RegistryInv, Sane, Agree, SaneList, SaneEntry, OwnFile, AgreeOn, Readable,
                      Flagged, Has, Holds, Corrupt, Valid
<1>3. ASSUME reg' = reg, srv' = srv \/ srv.bur # "RestoreStarted" PROVE Goal
    BY <1>0, <1>3 DEF NothingLost
<1>4. ASSUME NEW s \in Session, NEW q \in Requests, Wait(s, q) PROVE Goal
    BY <1>3, <1>4 DEF Wait
<1>5. ASSUME NEW s \in Session, NEW q \in Requests, Request(s, q) PROVE Goal
    BY <1>0, <1>5, RequestSane
<1>6. ASSUME TimerFired PROVE Goal
    BY <1>0, <1>6 DEF TimerFired, Settled
<1>7. ASSUME InstallStarts \/ InstallEnds \/ InstallOver \/ SWITimerRuns \/ UNCHANGED vars PROVE Goal
    BY <1>3, <1>7 DEF InstallStarts, InstallEnds, InstallOver, SetProperty, SWITimerRuns, vars
<1>8. ASSUME ListenerRuns PROVE Goal
    BY <1>0, <1>8, ListenerSane
<1>9. ASSUME StartBackup \/ StartRestore PROVE Goal
    BY <1>3, <1>9 DEF StartBackup, StartRestore, Starts
<1>10. ASSUME NEW r, NEW v, ServeAll(r, v) PROVE reg' = r /\ srv' = [v EXCEPT !.pending = FALSE]
    <2>1. PICK order \in Orders, out \in Outcomes :
              /\ reg' = Served([r |-> r, w |-> swi], order, out).r
              /\ srv' = [v EXCEPT !.pending = FALSE]
        BY <1>10 DEF ServeAll
    <2>2. Served([r |-> r, w |-> swi], order, out) = [r |-> r, w |-> swi]
        BY <1>0, ServedNone DEF Settled
    <2> QED BY <2>1, <2>2
<1>11. ASSUME EndBackup PROVE Goal
    BY <1>3, <1>10, <1>11 DEF EndBackup
<1>12. ASSUME RestoreFile PROVE Goal
    <2>1. PICK file \in Restored : reg' = [reg EXCEPT !.file = file, !.unsaved = {}]
        BY <1>12 DEF RestoreFile
    <2>2. srv' = srv /\ srv.bur = "RestoreStarted"
        BY <1>12 DEF RestoreFile
    <2>3. file \in Listing /\ OwnFile(file)
        BY ServerAssumption
    <2>4. reg' \in Reg /\ reg'.list = reg.list /\ reg'.file = file
        BY <1>0, <2>1, <2>3 DEF Reg
    <2> QED BY <1>0, <2>2, <2>3, <2>4 DEF Sane, NothingLost
<1> DEFINE h == ReadRuntimeFeaturesL([reg EXCEPT !.list = Rom, !.ready = FALSE])
<1>13. /\ Sane(h) /\ AgreeAll(h.list, h.file) /\ Agree(h)
       /\ Readable(reg.file) => h.file = reg.file
    BY <1>0, ReloadedSane, AllAgree
<1>14. Reloaded = h
    BY DEF Reloaded
<1> HIDE DEF h
<1>15. ASSUME reg' = h, srv.bur = "RestoreStarted" PROVE Goal
    BY <1>13, <1>15 DEF NothingLost
<1>16. ASSUME EndRestore \/ RestoreAgain PROVE Goal
    <2>1. reg' = h
        BY <1>10, <1>14, <1>16 DEF EndRestore, RestoreAgain
    <2>2. srv.bur = "RestoreStarted"
        BY <1>16 DEF EndRestore, RestoreAgain
    <2> QED BY <1>15, <2>1, <2>2
<1>17. ASSUME Restart PROVE Goal
    <2>1. reg' = [h EXCEPT !.unsaved = {}] /\ srv'.bur = "None"
        BY <1>17 DEF Restart, Started, h
    <2>2. reg' \in Reg /\ reg'.list = h.list /\ reg'.file = h.file
        BY <1>13, <2>1 DEF Sane, Reg
    <2>3. Sane(reg') /\ Agree(reg')
        BY <1>13, <2>2 DEF Sane, AgreeAll, Agree
    <2>4. srv.bur # "RestoreStarted" => h.file = reg.file
        BY <1>0, <1>13 DEF Agree
    <2> QED BY <2>2, <2>3, <2>4 DEF NothingLost
<1> QED BY <1>4, <1>5, <1>6, <1>7, <1>8, <1>9, <1>11, <1>12, <1>16, <1>17 DEF Next

\* A new device: no file, and the list of the ROM.
LEMMA RegistryInvInit == ASSUME Plugin = {}, CleanRom, Init PROVE RegistryInv
<1>1. Settled /\ CacheInv
    BY CacheInvInit DEF Init, Settled, Srv
<1>2. reg \in Reg /\ reg.list = Rom /\ reg.file = NoFile
    BY RegistryAssumption DEF Init, Reg
<1>3. SaneList(Rom)
    BY RegistryAssumption DEF SaneList, SaneEntry, CleanRom, Flagged, Has
<1>4. Sane(reg) /\ Agree(reg)
    BY <1>2, <1>3 DEF Sane, Agree, AgreeOn, OwnFile, Holds, Readable
<1> QED BY <1>1, <1>4 DEF RegistryInv

\* Without plugins the list before the file is read is that of the ROM.
LEMMA KnownIsRom == ASSUME Plugin = {} PROVE Known = Rom
<1>1. Cardinality(Plugin) = 0
    BY FS_EmptySet
<1> DEFINE WithPlugin(list, p) ==
               LET basic == IF PluginKind[p] = "enhanced" THEN list
                            ELSE MergedBasic(list, PluginInfo[p])
               IN IF PluginKind[p] = "simple" THEN basic
                  ELSE MergedEnhanced(basic, PluginInfo[p])
           Def(k) == [n \in 0 .. Cardinality(Plugin) |->
                         IF n = 0 THEN Rom ELSE WithPlugin(k[n - 1], SetToSeq(Plugin)[n])]
           known == CHOOSE k : k = Def(k)
<1>2. Known = known[Cardinality(Plugin)]
    BY DEF Known
<1>3. [n \in 0 .. 0 |-> Rom] = Def([n \in 0 .. 0 |-> Rom])
    BY <1>1
<1>4. known = Def(known)
    BY <1>3
<1> HIDE DEF known, WithPlugin
<1> QED BY <1>1, <1>2, <1>4

\* What the invariant says of a restart.
LEMMA SavedSurvive == ASSUME Plugin = {}, RegistryInv PROVE PersistedSurvive
<1> SUFFICES ASSUME srv.bur # "RestoreStarted", NEW f \in Feature \ reg.unsaved,
                    \/ Flagged(reg.list, f, "EFeaturePersisted")
                    \/ ~Has(reg.list, f) /\ ~Has(Known, f)
             PROVE  AfterRestart[f] = reg.list[f]
    BY DEF PersistedSurvive
<1> DEFINE r == [reg EXCEPT !.list = Rom]
<1>0. Known = Rom
    BY KnownIsRom
<1>1. Sane(reg) /\ Agree(reg) /\ reg \in Reg
    BY DEF RegistryInv, Sane
<1>2. r \in Reg /\ r.list = Rom /\ r.file = reg.file
    BY <1>1, RegistryAssumption DEF Reg
<1>3. AfterRestart = ReadRuntimeFeaturesL(r).list
    BY <1>0 DEF AfterRestart
<1>4. Listing \cap {NoFile, Torn} = {} /\ NoFile # Torn
    BY RegistryAssumption
<1>5. CASE reg.file \in {NoFile, Torn}
    <2>1. AfterRestart = Rom
        BY <1>2, <1>3, <1>4, <1>5 DEF ReadRuntimeFeaturesL, Reg
    <2>2. ~Holds(reg.file, f)
        BY <1>5 DEF Holds
    <2> QED BY <1>0, <1>1, <2>1, <2>2 DEF Agree, AgreeOn, Sane, SaneList, Has
<1>6. CASE reg.file \notin {NoFile, Torn}
    <2>1. ~Corrupt(Rom, reg.file)
        BY <1>1, <1>6 DEF Agree, Readable
    <2>2. AfterRestart = Overlaid(Rom, reg.file)
        BY <1>2, <1>3, <1>6, <2>1 DEF ReadRuntimeFeaturesL, Reg
    <2>3. CASE Flagged(Rom, f, "EFeatureBlackListed")
        BY <1>1, <2>2, <2>3 DEF Overlaid, Sane, SaneList
    <2>4. CASE ~Flagged(Rom, f, "EFeatureBlackListed")
        <3>1. AgreeOn(reg.list, reg.file, f)
            BY <1>1, <2>4 DEF Agree
        <3>2. CASE Has(reg.file, f)
            BY <1>6, <2>2, <2>4, <3>1, <3>2 DEF Overlaid, AgreeOn, Holds
        <3>3. CASE ~Has(reg.file, f)
            BY <1>0, <1>6, <2>2, <3>1, <3>3 DEF Overlaid, AgreeOn, Holds, Has
        <3> QED BY <3>2, <3>3
    <2> QED BY <2>3, <2>4
<1> QED BY <1>5, <1>6
-----------------------------------------------------------------------------
(***************************************************************************)
(* The theorems about the server without plugins.                          *)
(***************************************************************************)

\* The invariant holds of every behaviour: the server is settled, the cache
\* keeps its promises, and outside a restore the file can be read and agrees
\* with the list.
THEOREM RegistryInductive ==
    ASSUME Plugin = {}, CleanRom, \A file \in Restored : OwnFile(file)
    PROVE  Spec => []RegistryInv
<1>1. Init => RegistryInv
    BY RegistryInvInit
<1>2. RegistryInv /\ [Next]_vars => RegistryInv'
    BY RegistryInvStep
<1> QED BY <1>1, <1>2, PTL DEF Spec

\* Whatever requests, installations, failing writes, backups, restores and
\* crashes came before, a restart finds every feature that was saved as the
\* list has it (CRegistry::ReadRuntimeFeaturesL after SaveFeaturesL).
THEOREM PersistedFeaturesSurvive ==
    ASSUME Plugin = {}, CleanRom, \A file \in Restored : OwnFile(file)
    PROVE  Spec => []PersistedSurvive
<1>1. Spec => []RegistryInv
    BY RegistryInductive
<1>2. RegistryInv => PersistedSurvive
    BY SavedSurvive
<1> QED BY <1>1, <1>2, PTL

\* No step takes a feature out of the file except a client's request to delete
\* it, at once or when its installation ends, or a restore: a restart finds no
\* file that it takes for corrupt.
THEOREM SavedFeaturesKept ==
    ASSUME Plugin = {}, CleanRom, \A file \in Restored : OwnFile(file)
    PROVE  Spec => FileKept
<1>1. Spec => []RegistryInv
    BY RegistryInductive
<1>2. RegistryInv /\ [Next]_vars => [NothingLost]_vars
    BY RegistryInvStep
<1>3. Spec => [][Next]_vars
    BY PTL DEF Spec
<1>4. Spec => [][NothingLost]_vars
    BY <1>1, <1>2, <1>3, PTL
<1> QED BY <1>4 DEF FileKept, NothingLost

\* Without plugins no SWIStart ever waits, so the promises of SWIEnd are kept
\* unconditionally when the executables run one after another.
THEOREM PromisesKeptWithoutPlugins ==
    ASSUME {"two executables", "after refusal"} \cap Careless = {}, Plugin = {}
    PROVE  Spec => []PromisedOperations
<1>1. ASSUME Init PROVE Settled
    BY <1>1 DEF Init, Settled, Srv
<1>2. Settled /\ [Next]_vars => Settled'
    BY SettledStep
<1>3. Settled => NoStartWaits
    BY DEF Settled, NoneWaits, NoStartWaits
<1>4. Spec /\ []NoStartWaits => []PromisedOperations
    BY PromisesKept
<1> QED BY <1>1, <1>2, <1>3, <1>4, PTL DEF Spec


=============================================================================
