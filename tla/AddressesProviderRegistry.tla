--------------------- MODULE AddressesProviderRegistry ----------------------
(***************************************************************************)
(* The registry of markets: configuration/PoolAddressesProviderRegistry.   *)
(*                                                                         *)
(* Two mappings, a list and the index of each provider in the list hold    *)
(* the same set of providers four times.  A provider is taken out of the   *)
(* list by moving the last one to its place.                               *)
(*                                                                         *)
(* Only the owner calls it.  Indices count from 0, as in the code; entries *)
(* of a TLA+ sequence count from 1.                                        *)
(***************************************************************************)
EXTENDS Integers, Sequences

CONSTANTS
    Providers,     \* the addresses an owner may register
    Ids,           \* bound: the ids it may give them
    ZeroAddress    \* address(0)

ASSUME IdsAreNumbers == Ids \subseteq Nat

VARIABLES
    addressesProviderToId, idToAddressesProvider,
    addressesProvidersList, addressesProvidersIndexes

maps == <<addressesProviderToId, idToAddressesProvider>>
list == <<addressesProvidersList, addressesProvidersIndexes>>
vars == <<maps, list>>

Init ==
    /\ addressesProviderToId = [p \in Providers |-> 0]
    /\ idToAddressesProvider = [id \in Ids |-> ZeroAddress]
    /\ addressesProvidersList = <<>>
    /\ addressesProvidersIndexes = [p \in Providers |-> 0]

\* A wrong addition: the index of the last entry of before.
AddWithIndexOfLast(provider) ==
    /\ addressesProvidersIndexes' =
           [addressesProvidersIndexes EXCEPT ![provider] = Len(addressesProvidersList) - 1]
    /\ addressesProvidersList' = Append(addressesProvidersList, provider)

AddToAddressesProvidersList(provider) ==
    /\ addressesProvidersIndexes' =
           [addressesProvidersIndexes EXCEPT ![provider] = Len(addressesProvidersList)]
    /\ addressesProvidersList' = Append(addressesProvidersList, provider)

\* A wrong registration: a provider that has an id is given another one.
RegisterOrRename(provider, id) ==
    /\ id # 0
    /\ idToAddressesProvider[id] = ZeroAddress
    /\ addressesProviderToId' = [addressesProviderToId EXCEPT ![provider] = id]
    /\ idToAddressesProvider' =
           [i \in Ids |-> CASE i = id -> provider
                           [] i # id /\ i = addressesProviderToId[provider] -> ZeroAddress
                           [] OTHER -> idToAddressesProvider[i]]
    /\ IF addressesProviderToId[provider] = 0 THEN AddToAddressesProvidersList(provider)
       ELSE UNCHANGED list

RegisterAddressesProvider(provider, id) ==
    /\ id # 0
    /\ idToAddressesProvider[id] = ZeroAddress
    /\ addressesProviderToId[provider] = 0
    /\ addressesProviderToId' = [addressesProviderToId EXCEPT ![provider] = id]
    /\ idToAddressesProvider' = [idToAddressesProvider EXCEPT ![id] = provider]
    /\ AddToAddressesProvidersList(provider)

\* A wrong removal: the provider that fills the gap keeps its old index.
RemoveWithoutIndex(provider) ==
    LET last  == Len(addressesProvidersList) - 1
        index == addressesProvidersIndexes[provider]
    IN  /\ addressesProvidersList' =
               SubSeq([addressesProvidersList EXCEPT
                          ![index + 1] = addressesProvidersList[last + 1]], 1, last)
        /\ addressesProvidersIndexes' = [addressesProvidersIndexes EXCEPT ![provider] = 0]

\* The last provider of the list fills the gap, unless it is the one to go.
RemoveFromAddressesProvidersList(provider) ==
    LET last  == Len(addressesProvidersList) - 1
        index == addressesProvidersIndexes[provider]
        mover == addressesProvidersList[last + 1]
    IN  /\ addressesProvidersList' =
               SubSeq([addressesProvidersList EXCEPT ![index + 1] = mover], 1, last)
        /\ addressesProvidersIndexes' =
               [p \in Providers |->
                   IF p = mover /\ index < last THEN index
                   ELSE IF p = provider THEN 0 ELSE addressesProvidersIndexes[p]]

\* A wrong unregistration: the id stays taken by the provider.
UnregisterKeepingId(provider) ==
    /\ addressesProviderToId[provider] # 0
    /\ addressesProviderToId' = [addressesProviderToId EXCEPT ![provider] = 0]
    /\ UNCHANGED idToAddressesProvider
    /\ RemoveFromAddressesProvidersList(provider)

UnregisterAddressesProvider(provider) ==
    /\ addressesProviderToId[provider] # 0
    /\ idToAddressesProvider' =
           [idToAddressesProvider EXCEPT ![addressesProviderToId[provider]] = ZeroAddress]
    /\ addressesProviderToId' = [addressesProviderToId EXCEPT ![provider] = 0]
    /\ RemoveFromAddressesProvidersList(provider)

Next ==
    \E provider \in Providers :
        \/ UnregisterAddressesProvider(provider)
        \/ \E id \in Ids : RegisterAddressesProvider(provider, id)

Spec == Init /\ [][Next]_vars

-----------------------------------------------------------------------------
Registered == {p \in Providers : addressesProviderToId[p] # 0}

\* Type invariant.
RegistryTypeOK ==
    /\ addressesProviderToId \in [Providers -> Ids \cup {0}]
    /\ idToAddressesProvider \in [Ids -> Providers \cup {ZeroAddress}]
    /\ addressesProvidersList \in Seq(Providers)
    /\ addressesProvidersIndexes \in [Providers -> Nat]

\* The list holds every registered provider once and no other, at the index
\* that is stored for it, after any order of swaps and removals: else a removal
\* would take out the wrong provider.
ListConsistent ==
    /\ \A i \in 1 .. Len(addressesProvidersList) :
           /\ addressesProvidersList[i] \in Registered
           /\ addressesProvidersIndexes[addressesProvidersList[i]] = i - 1
    /\ \A p \in Registered :
           /\ addressesProvidersIndexes[p] + 1 \in 1 .. Len(addressesProvidersList)
           /\ addressesProvidersList[addressesProvidersIndexes[p] + 1] = p

\* The two mappings are each other's inverse: an id is taken as long as its
\* provider is registered, and free again afterwards.
MapsInverse ==
    /\ \A p \in Registered : idToAddressesProvider[addressesProviderToId[p]] = p
    /\ \A id \in Ids : idToAddressesProvider[id] # ZeroAddress =>
           /\ idToAddressesProvider[id] \in Registered
           /\ addressesProviderToId[idToAddressesProvider[id]] = id

\* The four data structures together are one injective map of providers to ids.
registeredIds == [p \in Registered |-> addressesProviderToId[p]]

Abstract == INSTANCE ProviderIds WITH Ids <- Ids \ {0}, idOf <- registeredIds

\* Every registration and removal of the registry is one of that map: no two
\* providers ever share an id.
ImplementsProviderIds == Abstract!Spec
=============================================================================
