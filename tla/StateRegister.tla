--------------------------- MODULE StateRegister ---------------------------
(***************************************************************************)
(* What the durable state of a node promises, files and renames apart: one *)
(* register.  A save in progress may or may not have taken effect; a save  *)
(* reported as done has, and no crash undoes it; a save reported as failed *)
(* leaves either the old or the new generation.  Nothing else is ever      *)
(* left, with one exception: a save that could not read what it replaces   *)
(* is in doubt about it, and may set it aside in favour of an older one    *)
(* until it is done.  DurableState implements this register.               *)
(***************************************************************************)
EXTENDS Naturals

VARIABLES
  value,     \* the generation a restart would load; 0: none
  possible,  \* the generations a crash may leave behind, value among them
  saving,    \* the generation a save in progress writes; 0: no save
  doubt,     \* this save could not read the generation it replaces
  acked,     \* the generation of the last save that reported success
  damage     \* how often a file was damaged from outside

vars == <<value, possible, saving, doubt, acked, damage>>

TypeOK ==
  /\ value \in Nat
  /\ possible \subseteq Nat
  /\ value \in possible
  /\ saving \in Nat
  /\ doubt \in BOOLEAN
  /\ acked \in Nat
  /\ damage \in Nat

Init ==
  /\ value \in Nat
  /\ possible = {value}
  /\ saving = 0
  /\ doubt = FALSE
  /\ acked = 0
  /\ damage = 0

\* A save of a generation never saved before begins.
Begin ==
  /\ saving = 0
  /\ saving' \in Nat \ {0}
  /\ \A v \in possible : saving' > v
  /\ possible' = possible \cup {saving'}
  /\ doubt' \in BOOLEAN
  /\ UNCHANGED <<value, acked, damage>>

\* Inside a save: the register moves among the possible values, or some of
\* them stop being possible.
Settle ==
  /\ saving # 0
  /\ possible' \subseteq possible
  /\ value' \in possible'
  /\ UNCHANGED <<saving, doubt, acked, damage>>

\* Inside a save in doubt: what the register held is set aside, and an older
\* generation or none is possible.
SetAside ==
  /\ doubt
  /\ \A v \in possible' : v \in possible \/ v < saving
  /\ value' \in possible'
  /\ UNCHANGED <<saving, doubt, acked, damage>>

\* The save reports success: its generation is the only possible one.
Done ==
  /\ saving # 0
  /\ value = saving
  /\ possible' = {saving}
  /\ saving' = 0
  /\ doubt' = FALSE
  /\ acked' = saving
  /\ UNCHANGED <<value, damage>>

\* The save reports an error: old or new.
Fail ==
  /\ saving # 0
  /\ saving' = 0
  /\ doubt' = FALSE
  /\ possible' \subseteq possible
  /\ value' \in possible'
  /\ UNCHANGED <<acked, damage>>

\* The process or the machine stops: one of the possible values is left.
Crash ==
  /\ value' \in possible
  /\ possible' = {value'}
  /\ saving' = 0
  /\ doubt' = FALSE
  /\ UNCHANGED <<acked, damage>>

\* A file is damaged from outside: an older generation, or none, is left.
Damage ==
  /\ \A v \in possible' : \E w \in possible : v <= w
  /\ value' \in possible'
  /\ value' <= value
  /\ damage' = damage + 1
  /\ UNCHANGED <<saving, doubt, acked>>

Next == Begin \/ Settle \/ SetAside \/ Done \/ Fail \/ Crash \/ Damage

Spec == Init /\ [][Next]_vars
=============================================================================
