--------------------------- MODULE Administration ---------------------------
(***************************************************************************)
(* What owners administer: the registry of markets, and the proxies of one *)
(* market.  No call of one reads or writes what the other keeps.           *)
(***************************************************************************)
EXTENDS AddressesProviderRegistry, Upgradeability

administrationVars == <<vars, upgradeVars>>

AdministrationInit == Init /\ UpgradeabilityInit

RegistrySteps == Next /\ UNCHANGED upgradeVars
MarketSteps   == UpgradeabilityNext /\ UNCHANGED vars

AdministrationSpec ==
    AdministrationInit /\ [][RegistrySteps \/ MarketSteps]_administrationVars

\* The types of both.
AdministrationTypeOK == RegistryTypeOK /\ UpgradeabilityTypeOK
=============================================================================
