------------------------------ MODULE StreamStore ------------------------------
(***************************************************************************)
(* What a stream store promises (CStreamStore): a set of streams that a     *)
(* client changes one at a time, and commit points.  Whatever fails, the    *)
(* store is left as of the last commit point or, once the commit has taken  *)
(* effect, as of the new one; never in between.                             *)
(***************************************************************************)
CONSTANTS Stream, Datum, NoRoot

VARIABLES stable,   \* as of the last commit point: [root, streams]
          current   \* as the client has changed it since

streamVars == <<stable, current>>

Bare == [root |-> NoRoot, streams |-> [h \in {} |-> NoRoot]]

WellFormed(s) ==
    /\ s.root \in Stream \cup {NoRoot}
    /\ DOMAIN s.streams \subseteq Stream
    /\ \A h \in DOMAIN s.streams : s.streams[h] \in Datum

StreamInit == stable = Bare /\ current = Bare

\* One stream is created, replaced or deleted, or the root is set.
OneChange(s, t) ==
    /\ WellFormed(t)
    /\ \/ t.streams = s.streams
       \/ /\ t.root = s.root
          /\ \E h \in Stream :
                /\ DOMAIN t.streams \ {h} = DOMAIN s.streams \ {h}
                /\ \A k \in DOMAIN s.streams \ {h} : t.streams[k] = s.streams[k]

\* A step from <<s, c>> to <<t, d>>: a change, a commit, or the loss of all
\* changes in a revert, a failure or the death of the process.
Change(s, c, t, d) == t = s /\ OneChange(c, d)
CommitAll(s, c, t, d) == t = c /\ d = c
Forget(s, c, t, d) == t = s /\ d = s

StreamNext ==
    \E s \in {stable}, c \in {current}, t \in {stable'}, d \in {current'} :
        Change(s, c, t, d) \/ CommitAll(s, c, t, d) \/ Forget(s, c, t, d)

StreamSpec == StreamInit /\ [][StreamNext]_streamVars
=============================================================================
