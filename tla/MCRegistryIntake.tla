-------------------------- MODULE MCRegistryIntake --------------------------
(***************************************************************************)
(* RegistryIntake for TLC, in three instances chosen at the start:         *)
(*   "wide"  three cards, all of them fit to be approved, compete for a    *)
(*           place in the catalog, and drafts meet removals;               *)
(*   "pair"  two cards, with rejected versions and intakes cut short;      *)
(*   "long"  a longer chain about one card, which is served by a version   *)
(*           older than the last.                                          *)
(***************************************************************************)
EXTENDS RegistryIntake

CONSTANTS Second, Third     \* units that only the wider instances mention

VARIABLE part

Without(units) == \A p \in DOMAIN feed', u \in units : feed'[p][u] = "absent"

AllValid ==
    \A c \in Consumers : \A u \in DOMAIN intake'[c].draft :
        intake'[c].draft[u].fresh # NoVersion => intake'[c].draft[u].fresh.valid

Within ==
    CASE part = "wide" -> /\ Len(feed') <= 2 /\ faults' = 0 /\ AllValid
                          /\ feed' # <<>> => \A u \in Units : feed'[1][u] = "added"
      [] part = "pair" -> Len(feed') <= 2 /\ decisions' <= 2 /\ Without({Third})
      [] part = "long" -> Without({Second, Third})

RegistryInit == Init /\ part \in {"wide", "pair", "long"}
RegistryNext == Next /\ Within /\ UNCHANGED part

RegistrySpec == RegistryInit /\ [][RegistryNext]_<<vars, part>> /\ Fairness
=============================================================================
