----------------------- MODULE QueueArbiterRefinement -----------------------
(***************************************************************************)
(* The arbiter and its clients are a messenger.  A mailbox is the          *)
(* subsequence of the queue that carries its identifier; a line counts as  *)
(* resolved as soon as the arbiter's answer stands in the queue.           *)
(***************************************************************************)
EXTENDS QueueArbiterProps

UsedSlots == Slots \ AvailableSlots(client_table)
DirectoryNames == {name \in Names : GetIdForRMessagesFromName(client_table, name) > 0}
DirectoryMap ==
    [name \in DirectoryNames |-> GetIdForRMessagesFromName(client_table, name)]

TextsIn(q) == [i \in DOMAIN q |-> q[i].mes]
BoxesInUse == {client_table.client_info[i].id_for_rmessages : i \in UsedSlots}
MailboxMap == [b \in BoxesInUse |-> TextsIn(OfType(queue, b))]

OwnedMap   == [c \in Clients |-> client[c].id_for_rmessages]
PrintedMap == [c \in Clients |-> TextsIn(stdout[c])]

BoxOf(id) == IF id > 0 THEN id ELSE 0
LineMap ==
    [c \in Clients |->
        CASE sender_pc[c] \in {"off", "read", "done"} -> [to |-> "nothing typed"]
          [] sender_pc[c] = "post" -> [to |-> dest_name[c], box |-> BoxOf(dest_id[c])]
          [] sender_pc[c] = "await" /\ RepliesTo(c) # {} ->
                [to |-> dest_name[c],
                 box |-> BoxOf(queue[CHOOSE i \in RepliesTo(c) : TRUE].dest_id)]
          [] OTHER -> [to |-> dest_name[c], box |-> -1]]

Abstract == INSTANCE Messenger WITH
    Boxes     <- 2 .. 2 * MAX_N_CLIENTS + 1,
    directory <- DirectoryMap,
    mailbox   <- MailboxMap,
    owned     <- OwnedMap,
    typed     <- lines,
    line      <- LineMap,
    printed   <- PrintedMap

\* Every step of the implementation is a step of the messenger or changes
\* nothing a user can see: no text is lost, doubled, reordered within its
\* mailbox or put into another's, and a name always means its first holder.
MessengerSpec == Abstract!Spec
=============================================================================
