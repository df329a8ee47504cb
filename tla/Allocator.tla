----------------------------- MODULE Allocator -----------------------------
(***************************************************************************)
(* What the kernel heap promises its callers, with nothing said about how  *)
(* free space is kept: a set of reservations, each a header followed by    *)
(* usable bytes, that never overlap and never leave the arena.  Heap.tla   *)
(* (memory.c) is shown to implement this specification.                    *)
(***************************************************************************)
EXTENDS Integers

CONSTANTS ArenaSize,   \* bytes handed to kheap_init
          HeaderSize   \* bytes in front of every reservation

VARIABLE held          \* reserved pointer -> number of usable bytes

(* The reservation of m bytes at p and the one of k bytes at q, headers    *)
(* included, share no byte.                                                *)
Apart(p, m, q, k) == p + m <= q - HeaderSize \/ q + k <= p - HeaderSize

(* m bytes at p, with their header, lie in the arena and avoid every       *)
(* reservation of h.                                                       *)
Vacant(h, p, m) == /\ m >= 0 /\ p >= HeaderSize /\ p + m <= ArenaSize
                   /\ \A q \in DOMAIN h : Apart(p, m, q, h[q])

Without(h, p) == [q \in DOMAIN h \ {p} |-> h[q]]

With(h, p, m) == [q \in DOMAIN h \cup {p} |-> IF q = p THEN m ELSE h[q]]

Init == held = [p \in {} |-> 0]

(* A new reservation takes only vacant bytes.                              *)
Reserve == \E p \in DOMAIN held' \ DOMAIN held :
             /\ Vacant(held, p, held'[p])
             /\ held' = With(held, p, held'[p])

Release == \E p \in DOMAIN held : held' = Without(held, p)

(* A reservation grows where it stands, over vacant bytes only.            *)
Grow == \E p \in DOMAIN held \cap DOMAIN held' :
          /\ held'[p] > held[p]
          /\ Vacant(Without(held, p), p, held'[p])
          /\ held' = With(held, p, held'[p])

(* A reservation moves: source and destination of the copy do not overlap, *)
(* and the destination can take every byte of the source.                  *)
Move == \E p \in DOMAIN held, q \in DOMAIN held' \ DOMAIN held :
          /\ held'[q] >= held[p]
          /\ Vacant(held, q, held'[q])
          /\ held' = Without(With(held, q, held'[q]), p)

Next == Reserve \/ Release \/ Grow \/ Move

Spec == Init /\ [][Next]_held
=============================================================================
