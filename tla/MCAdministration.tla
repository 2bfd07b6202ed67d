-------------------------- MODULE MCAdministration -------------------------
(* What the user administers: accounts, the mails imported into one,       *)
(* devices, and attempts to log in.  The components share nothing, so that *)
(* the states of their product show no more than those of each while the   *)
(* others are at their start, and only these are looked at.                *)
EXTENDS AccountRegistry, MailImport, Devices, RateLimit, TLC

File(a, b, fails) == <<[address |-> a, fails |-> FALSE], [address |-> b, fails |-> fails]>>

\* One import that works, and one whose second row fails.
TwoFiles == {File(1, 2, FALSE), File(3, 2, TRUE)}

\* A mail in the inbox and one in the trash, each the first of its folder.
Places2 == <<"inbox", "trash">>
Looks2 == <<1, 2>>

Init == RegistryInit /\ ImportInit /\ DevicesInit /\ RateInit

Next ==
    \/ /\ RegistryNext
       /\ ImportInit /\ DevicesInit /\ RateInit
       /\ UNCHANGED <<importVars, deviceVars, rateVars>>
    \/ /\ ImportNext
       /\ RegistryInit /\ DevicesInit /\ RateInit
       /\ UNCHANGED <<registryVars, deviceVars, rateVars>>
    \/ /\ DevicesNext
       /\ RegistryInit /\ ImportInit /\ RateInit
       /\ UNCHANGED <<registryVars, importVars, rateVars>>
    \/ /\ RateNext
       /\ RegistryInit /\ ImportInit /\ DevicesInit
       /\ UNCHANGED <<registryVars, importVars, deviceVars>>

vars == <<registryVars, importVars, deviceVars, rateVars>>

Spec == Init /\ [][Next]_vars

TypeOK == RegistryTypeOK /\ ImportTypeOK /\ DevicesTypeOK /\ RateTypeOK

Symmetric == Permutations(Clients) \union Permutations(Importers) \union Permutations(Visitors)
=============================================================================
