---------------------------- MODULE StoredEntry -----------------------------
(***************************************************************************)
(* What the document store promises of one entry, whatever its files look  *)
(* like: it holds one version, whole; an append lands only on the version  *)
(* its editor read; and a write that is interrupted has either happened or *)
(* not.                                                                    *)
(***************************************************************************)
CONSTANTS Save, None

VARIABLES
    stored,     \* the version the entry holds, or None
    writing     \* the write under way, or Nobody

vars == <<stored, writing>>

Nobody == [how |-> "none", save |-> None, base |-> None]

Write(how, s, base) ==
    /\ writing = Nobody
    /\ writing' = [how |-> how, save |-> s, base |-> base]
    /\ UNCHANGED stored

\* An editor that read the version `base` saves its changes since.
Append(base, s) == stored = base /\ Write("append", s, base)
Replace(s) == Write("replace", s, None)
Delete == Write("delete", None, None)

Finish ==
    /\ writing # Nobody
    /\ stored' = writing.save
    /\ writing' = Nobody

Interrupt ==
    /\ writing # Nobody
    /\ stored' \in {stored, writing.save}
    /\ writing' = Nobody

Init == stored = None /\ writing = Nobody

Next ==
    \/ \E base \in Save, s \in Save : Append(base, s)
    \/ \E s \in Save : Replace(s)
    \/ Delete
    \/ Finish
    \/ Interrupt

Spec == Init /\ [][Next]_vars
=============================================================================
