---------------------------- MODULE MCSpaceKeys -----------------------------
(* SpaceKeys for TLC: two devices of the owner, one of another member.     *)
EXTENDS SpaceKeys, TLC

CONSTANTS o, m, d1, d2, e1

\* d2 waited for approval when devices still did.
OnePending == (d1 :> "absent") @@ (d2 :> "pending") @@ (e1 :> "active")

AllAbsent == [d \in Devices |-> "absent"]

PhraseAndMinted == (o :> "phrase") @@ (m :> "minted")

OneAndOne == (d1 :> o) @@ (e1 :> m)

TwoAndOne == (d1 :> o) @@ (d2 :> o) @@ (e1 :> m)
=============================================================================
