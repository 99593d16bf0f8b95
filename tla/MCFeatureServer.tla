--------------------------- MODULE MCFeatureServer ---------------------------
(* Small instances of FeatureServer for TLC. *)
EXTENDS FeatureServer

CONSTANTS s1, s2, p1, p2

\* Feature 1 is in the ROM, feature 2 is added at run time, feature 3 is the
\* plugins'.
E(sup, flags) == [supported |-> sup, data |-> 0, flags |-> flags]
Persistent == {"EFeaturePersisted", "EFeatureModifiable"}
Rom3 == [f \in Feature |-> IF f = 1 THEN E(FALSE, Persistent \cup {"EFeatureUninitialized"})
                           ELSE Absent]

Add2 == [op |-> "add", f |-> 2, e |-> E(TRUE, Persistent)]
Delete2 == [op |-> "delete", f |-> 2]
Set1 == [op |-> "set", f |-> 1, enable |-> "enable", data |-> NoData]
Set2 == [op |-> "set", f |-> 2, enable |-> "disable", data |-> NoData]
Data3 == [op |-> "set", f |-> 3, enable |-> "untouch", data |-> 0]
Start == [op |-> "SWIStart"]
End == [op |-> "SWIEnd"]
Disable3 == [op |-> "set", f |-> 3, enable |-> "disable", data |-> NoData]
Changes == {Add2, Delete2, Set1, Set2, Disable3}
InstallRequests == {Add2, Delete2, Set1, Start, End}
SlowRequests == {Add2, Data3}

NoPlugin == {}
OnePlugin == {p1}
TwoPlugins == {p1, p2}
Simple == [p \in Plugin |-> "simple"]
Enhanced == [p \in Plugin |-> "enhanced"]
\* p1 answers both commands, the other plugin one.
MixedAndSimple == [p \in Plugin |-> IF p = p1 THEN "mixed" ELSE "simple"]
Info3 == [p \in Plugin |-> [f \in Feature |->
            IF f = 3 THEN E(TRUE, {"EFeatureModifiable"})
            ELSE Absent]]
Info3p1 == [p \in Plugin |-> IF p = p1 THEN Info3[p] ELSE Empty]
\* The plugin's feature is persisted.
Persisted3 == [p \in Plugin |-> [f \in Feature |->
            IF f = 3 THEN E(TRUE, Persistent) ELSE Absent]]
\* A restored file that has both features.
Restored12 == {[f \in Feature |->
                  IF f = 1 THEN E(TRUE, Persistent)
                  ELSE IF f = 2 THEN E(FALSE, Persistent \cup {"EFeatureRuntime"})
                  ELSE Absent]}
BackupFlags == {"EReleaseLockReadOnly", "EReleaseLockNoAccess", "ETakeLock"}
=============================================================================
