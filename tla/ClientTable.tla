---------------------------- MODULE ClientTable -----------------------------
(***************************************************************************)
(* The arbiter's directory of clients (dz8/queue_arbiter/client_table.c):  *)
(* MAX_N_CLIENTS slots and the next identifier to give away.  A slot whose *)
(* id_for_arbiter is 0 is free; its zeroed name is the empty string.       *)
(***************************************************************************)
EXTENDS Integers, FiniteSetsExt

CONSTANTS MAX_N_CLIENTS,  \* slots of the table
          NoName          \* the empty string

ASSUME TableAssumption == MAX_N_CLIENTS \in Nat \ {0}

kArbiterId == 1
NotFound == -1

Slots == 0 .. MAX_N_CLIENTS - 1

FreeSlot == [client_name |-> NoName, id_for_arbiter |-> 0,
             id_for_rmessages |-> 0, is_awaken |-> FALSE]

\* Mutant: the first identifier given away is the arbiter's own.
InitTable_FromArbiterId == [free_id |-> kArbiterId,
                            client_info |-> [i \in Slots |-> FreeSlot]]

InitTable == [free_id |-> kArbiterId + 1,
              client_info |-> [i \in Slots |-> FreeSlot]]

AvailableSlots(t) == {i \in Slots : t.client_info[i].id_for_arbiter = 0}

\* AddToTable fails on a full table: it returns false and keeps table_mutex.
IsFull(t) == AvailableSlots(t) = {}

\* AddToTable gives away two identifiers: free_id and the one after it.
NewIdForArbiter(t) == t.free_id
NewIdForRMessages(t) == t.free_id + 1

\* Mutant: free_id advances once for the two identifiers.
AddToTable_OneIncrement(t, name) ==
    [free_id |-> t.free_id + 1,
     client_info |-> [t.client_info EXCEPT ![Min(AvailableSlots(t))] =
        [client_name |-> name, id_for_arbiter |-> NewIdForArbiter(t),
         id_for_rmessages |-> NewIdForRMessages(t), is_awaken |-> TRUE]]]

\* Mutant: the two identifiers are stored the wrong way round.
AddToTable_SwappedIds(t, name) ==
    [free_id |-> t.free_id + 2,
     client_info |-> [t.client_info EXCEPT ![Min(AvailableSlots(t))] =
        [client_name |-> name, id_for_arbiter |-> NewIdForRMessages(t),
         id_for_rmessages |-> NewIdForArbiter(t), is_awaken |-> TRUE]]]

AddToTable(t, name) ==
    [free_id |-> t.free_id + 2,
     client_info |-> [t.client_info EXCEPT ![Min(AvailableSlots(t))] =
        [client_name |-> name, id_for_arbiter |-> NewIdForArbiter(t),
         id_for_rmessages |-> NewIdForRMessages(t), is_awaken |-> TRUE]]]

\* Mutant: strcmp's result is taken the wrong way.
SlotsNamed_Inverted(t, name) == {i \in Slots : t.client_info[i].client_name # name}

SlotsNamed(t, name) == {i \in Slots : t.client_info[i].client_name = name}

\* Mutant: the other of the two lookups, which yields id_for_arbiter.
GetIdForRMessagesFromName_ForArbiter(t, name) ==
    IF SlotsNamed(t, name) = {} THEN NotFound
    ELSE t.client_info[Min(SlotsNamed(t, name))].id_for_arbiter

\* The lookup compares names only: the empty name finds the first free slot.
GetIdForRMessagesFromName(t, name) ==
    IF SlotsNamed(t, name) = {} THEN NotFound
    ELSE t.client_info[Min(SlotsNamed(t, name))].id_for_rmessages
=============================================================================
