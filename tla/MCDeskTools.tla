---------------------------- MODULE MCDeskTools ----------------------------
(* The parts of the desk that share no state with one another, each on its own    *)
(* small sets, checked in one run: the first state says which of them moves.      *)
EXTENDS Confirmation, ContactProfiles, EmployeeChat, CatalogDishes, PickupSignal,
        OfferCharges, TLC

VARIABLE tool

toolVars == <<confirmVars, contactVars, chatVars, catalogVars, pickupVars, chargeVars, tool>>

Tools == {"confirmation", "contacts", "chat", "catalog", "pickup", "charges"}

\* While another tool moves the inquiries are as in one of the states ConfirmInit allows.
AtRest ==
    /\ \A o \in Orders : orders[o] = NoOrder
    /\ \A i \in Inquiries :
         customer[i] = [contact |-> "none", mode |-> "UNKNOWN", address |-> NoAddress]

ToolsInit ==
    /\ tool \in Tools
    /\ ConfirmInit
    /\ tool # "confirmation" => AtRest
    /\ ContactInit /\ ChatInit /\ CatalogInit /\ PickupInit /\ ChargesInit

ToolsNext ==
    /\ UNCHANGED tool
    /\ \/ /\ tool = "confirmation" /\ ConfirmNext
          /\ UNCHANGED <<contactVars, chatVars, catalogVars, pickupVars, chargeVars>>
       \/ /\ tool = "contacts" /\ ContactNext
          /\ UNCHANGED <<confirmVars, chatVars, catalogVars, pickupVars, chargeVars>>
       \/ /\ tool = "chat" /\ ChatNext
          /\ UNCHANGED <<confirmVars, contactVars, catalogVars, pickupVars, chargeVars>>
       \/ /\ tool = "catalog" /\ CatalogNext
          /\ UNCHANGED <<confirmVars, contactVars, chatVars, pickupVars, chargeVars>>
       \/ /\ tool = "pickup" /\ PickupNext
          /\ UNCHANGED <<confirmVars, contactVars, chatVars, catalogVars, chargeVars>>
       \/ /\ tool = "charges" /\ ChargesNext
          /\ UNCHANGED <<confirmVars, contactVars, chatVars, catalogVars, pickupVars>>

ToolsSpec == ToolsInit /\ [][ToolsNext]_toolVars

\* Ids of versions, employees and threads are compared for equality only.
ToolSymmetry == Permutations(Versions) \cup Permutations(Employees) \cup Permutations(ChatThreads)

=============================================================================
