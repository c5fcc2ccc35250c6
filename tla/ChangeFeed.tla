----------------------------- MODULE ChangeFeed -----------------------------
(***************************************************************************)
(* What a space's change log promises, with everything else forgotten: an  *)
(* ordered feed in which a change id occupies at most one place at a time, *)
(* a place is never reassigned, new changes only ever arrive above         *)
(* everything that was numbered before, and only a prefix is ever dropped. *)
(***************************************************************************)
EXTENDS Integers

CONSTANT Changes    \* change ids

VARIABLES
    top,        \* every place up to here has been numbered
    floor,      \* the lowest place that is still kept
    entries     \* the kept entries: records of a place and a change id

vars == <<top, floor, entries>>

Entry == [seq : Nat, cid : Changes]

\* An entry names one change, and a change is kept at one place only.
OnePlaceEach(es) ==
    \A a, b \in es : (a.seq = b.seq \/ a.cid = b.cid) => a = b

Init ==
    /\ top = 0
    /\ floor = 1
    /\ entries = {}

\* Changes join above every place numbered so far; places may be left empty.
Publish ==
    /\ top' \in Nat
    /\ top' > top
    /\ entries \subseteq entries'
    /\ \A e \in entries' \ entries : e \in Entry /\ top < e.seq /\ e.seq <= top'
    /\ OnePlaceEach(entries')
    /\ UNCHANGED floor

\* Entries below a new floor, and no others, are dropped.
Trim ==
    /\ floor' \in Nat
    /\ floor <= floor'
    /\ floor' <= top + 1
    /\ entries' = {e \in entries : e.seq >= floor'}
    /\ UNCHANGED top

Next == Publish \/ Trim

Spec == Init /\ [][Next]_vars
=============================================================================
