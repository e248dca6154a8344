------------------------------- MODULE Postal -------------------------------
(***************************************************************************)
(* What the server promises about a message, and all it promises.          *)
(*                                                                         *)
(* A letter is stored, then taken out by a collection of its addressee,    *)
(* then delivered, once, or lost on the way: a collection removes its      *)
(* letters before it sends them.  A sender who was told that a letter is   *)
(* stored was told the truth.  A letter nobody was told about may get any  *)
(* of these fates too, or stay unsent for ever.                            *)
(***************************************************************************)
CONSTANT Letters

VARIABLES
  fate,       \* of each letter
  confirmed   \* letters whose sender was told they are stored

Fates == {"unsent", "waiting", "taken", "delivered", "lost"}

Moves ==
  [unsent    |-> Fates \ {"delivered"},
   waiting   |-> {"waiting", "taken", "lost"},
   taken     |-> {"taken", "delivered", "lost"},
   delivered |-> {"delivered"},
   lost      |-> {"lost"}]

Init ==
  /\ fate = [l \in Letters |-> "unsent"]
  /\ confirmed = {}

Next ==
  /\ fate' \in [Letters -> Fates]
  /\ \A l \in Letters : fate'[l] \in Moves[fate[l]]
  /\ confirmed \subseteq confirmed'
  /\ \A l \in Letters : l \in confirmed' \ confirmed => fate[l] # "unsent"

Spec == Init /\ [][Next]_<<fate, confirmed>>
=============================================================================
