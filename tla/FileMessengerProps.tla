------------------------ MODULE FileMessengerProps --------------------------
(* The properties of FileMessenger. *)
EXTENDS FileMessenger

\* Everybody reads the same conversation: of two screens one is the beginning of
\* the other, unless a write to one of them was short (main.c:56,66-80,91,111).
ScreensAgree ==
    LET Whole == {u \in Users : Len(screen[u]) + Len(to_screen[u]) = offset[u]}
    IN \A u, v \in Whole : IsPrefix(screen[u], screen[v]) \/ IsPrefix(screen[v], screen[u])

\* What a user typed is in the file in the order it was typed, each unit once,
\* with gaps only where a write was short (main.c:103-114).
TypedOrder ==
    \A j, k \in DOMAIN file : j < k /\ file[j][1] = file[k][1] => file[j][2] < file[k][2]

\* Without a fault everything a user typed and the child has read comes to the
\* screen of everybody who listens (main.c:66-80,101-115).
EveryoneSeesAll ==
    \A u, v \in Users :
        (typed[u] = MaxTyped /\ parent[v] # "none")
            ~> (faults > 0 \/ {u} \X (1..MaxTyped) \subseteq Range(screen[v]))
=============================================================================
