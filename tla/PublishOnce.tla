----------------------------- MODULE PublishOnce -----------------------------
(***************************************************************************)
(* What src/deploy promises of each asset, leaving out how: the slot of an *)
(* asset is taken before anything is published, it is given back only when *)
(* nothing was published under it, and an asset that has been published    *)
(* keeps its slot for good, so that it is published at most once           *)
(* ("claim before side effect", DESIGN-phase3.md:99, publishUnit.ts:31-34).*)
(***************************************************************************)
EXTENDS Naturals

CONSTANT Assets

VARIABLES
    taken,          \* assets whose slot is taken
    publications    \* how often each asset has been published

TypeOK ==
    /\ taken \subseteq Assets
    /\ publications \in [Assets -> {0, 1}]

Init ==
    /\ taken = {}
    /\ publications = [a \in Assets |-> 0]

Take(a) ==
    /\ a \notin taken
    /\ taken' = taken \cup {a}
    /\ UNCHANGED publications

GiveBack(a) ==
    /\ a \in taken
    /\ publications[a] = 0
    /\ taken' = taken \ {a}
    /\ UNCHANGED publications

Publish(a) ==
    /\ a \in taken
    /\ publications[a] = 0
    /\ publications' = [publications EXCEPT ![a] = 1]
    /\ UNCHANGED taken

Next == \E a \in Assets : Take(a) \/ GiveBack(a) \/ Publish(a)

Spec == Init /\ [][Next]_<<taken, publications>>

=============================================================================
