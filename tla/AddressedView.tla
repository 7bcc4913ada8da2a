---------------------------- MODULE AddressedView ----------------------------
(***************************************************************************)
(* What a page that loads data for an address promises its reader: all     *)
(* data it shows is about the address it shows, and choosing an address    *)
(* clears what was there before.                                           *)
(***************************************************************************)
CONSTANTS Shown, None

VARIABLES
  chosen,   \* the address on the page, or None
  about     \* the addresses that the data on the page is about

Init == chosen = None /\ about = {}

Choose(a) == chosen' = a /\ about' = {}

Show == UNCHANGED chosen /\ about' \in SUBSET {chosen}

Next == Show \/ \E a \in Shown \cup {None} : Choose(a)

Spec == Init /\ [][Next]_<<chosen, about>>
=============================================================================
