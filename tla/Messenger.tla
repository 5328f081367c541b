----------------------------- MODULE Messenger ------------------------------
(***************************************************************************)
(* What the arbiter and its clients offer their users (task3.c): a         *)
(* directory that maps a name to the mailbox of whoever registered it      *)
(* first, and mailboxes in which texts stay in the order they were posted  *)
(* until their one owner prints them.  No queue, shared memory or          *)
(* handshake: those are QueueArbiter's.                                    *)
(***************************************************************************)
EXTENDS Integers, Sequences

CONSTANTS Clients, Names, NameOf, MaxLines, Boxes

VARIABLES directory,  \* a name's mailbox, for the names registered
          mailbox,    \* the texts of each mailbox in use
          owned,      \* the mailbox of each client, 0 for none
          typed,      \* lines each client has typed
          line,       \* the line it is sending
          printed     \* the texts it has printed

mVars == <<directory, mailbox, owned, typed, line, printed>>

NoLine == [to |-> "nothing typed"]
Unresolved(name) == [to |-> name, box |-> -1]
Resolved(name, b) == [to |-> name, box |-> b]
Undeliverable == 0

Extend(f, x, v) == [y \in DOMAIN f \union {x} |-> IF y = x THEN v ELSE f[y]]

Init ==
    /\ directory = << >> /\ mailbox = << >>
    /\ owned = [c \in Clients |-> 0]
    /\ typed = [c \in Clients |-> 0]
    /\ line = [c \in Clients |-> NoLine]
    /\ printed = [c \in Clients |-> <<>>]

\* A name is registered with a new mailbox; an earlier holder keeps the name.
Announce(name, b) ==
    /\ b \notin DOMAIN mailbox
    /\ mailbox' = Extend(mailbox, b, <<>>)
    /\ directory' = IF name \in DOMAIN directory THEN directory
                    ELSE Extend(directory, name, b)
    /\ UNCHANGED <<owned, typed, line, printed>>

\* A client takes possession of a mailbox that nobody else has.
Own(c, b) ==
    /\ owned[c] = 0
    /\ b \in DOMAIN mailbox /\ \A d \in Clients : owned[d] # b
    /\ owned' = [owned EXCEPT ![c] = b]
    /\ UNCHANGED <<directory, mailbox, typed, line, printed>>

Type(c, name) ==
    /\ owned[c] # 0 /\ line[c] = NoLine
    /\ typed' = [typed EXCEPT ![c] = @ + 1]
    /\ line' = [line EXCEPT ![c] = Unresolved(name)]
    /\ UNCHANGED <<directory, mailbox, owned, printed>>

\* The name is looked up once for each line.
Resolve(c, name) ==
    /\ line[c] = Unresolved(name)
    /\ line' = [line EXCEPT ![c] = Resolved(name,
                    IF name \in DOMAIN directory THEN directory[name] ELSE Undeliverable)]
    /\ UNCHANGED <<directory, mailbox, owned, typed, printed>>

\* The line joins its mailbox, or is dropped when it has none.
Post(c, name, b) ==
    /\ line[c] = Resolved(name, b)
    /\ mailbox' = IF b = Undeliverable THEN mailbox
                  ELSE [mailbox EXCEPT ![b] = Append(@, [from |-> c, n |-> typed[c], to |-> name])]
    /\ line' = [line EXCEPT ![c] = NoLine]
    /\ UNCHANGED <<directory, owned, typed, printed>>

\* A client that dies loses the line it was sending.
LoseLine(c) ==
    /\ line[c] # NoLine
    /\ line' = [line EXCEPT ![c] = NoLine]
    /\ UNCHANGED <<directory, mailbox, owned, typed, printed>>

PrintNext(c) ==
    /\ owned[c] # 0 /\ mailbox[owned[c]] # <<>>
    /\ printed' = [printed EXCEPT ![c] = Append(@, Head(mailbox[owned[c]]))]
    /\ mailbox' = [mailbox EXCEPT ![owned[c]] = Tail(@)]
    /\ UNCHANGED <<directory, owned, typed, line>>

Next ==
    \/ \E c \in Clients, b \in Boxes : Announce(NameOf[c], b) \/ Own(c, b)
    \/ \E c \in Clients, name \in Names : Type(c, name) \/ Resolve(c, name)
    \/ \E c \in Clients, name \in Names, b \in Boxes \union {Undeliverable} : Post(c, name, b)
    \/ \E c \in Clients : PrintNext(c) \/ LoseLine(c)

Spec == Init /\ [][Next]_mVars
=============================================================================
