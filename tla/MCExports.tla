----------------------------- MODULE MCExports -----------------------------
(***************************************************************************)
(* A trie of four nodes with the exports "ab", "aba" (with a resolver) and *)
(* "b" (a re-export), as a linker writes it; with any one of its bytes     *)
(* replaced by one of six; and cut short at every length.  Tries with      *)
(* padding, with two branches to one node, with cycles, with an empty      *)
(* label and cycles of those, with numbers of several bytes and with       *)
(* exports of every kind.                                                  *)
(***************************************************************************)
EXTENDS Exports

a == 97
b == 98

Trie == <<0, 2, a, b, 0, 9, b, 0, 16,
          2, 0, 5, 1, a, 0, 21,
          3, 8, 1, 0, 0,
          3, 16, 1, 2, 0>>

\* What follows the trie in the segment.
Behind == <<1, a, 0, 3>>

Whole(bytes) == [bytes |-> bytes \o Behind, size |-> Len(bytes)]
Damaged == {Whole([Trie EXCEPT ![k] = new]) : k \in 1 .. Len(Trie), new \in {0, 1, 9, b, 128, 255}}
Cut == {[bytes |-> Trie, size |-> n] : n \in 1 .. Len(Trie)}

Others ==
  {Trie \o <<0, 0, 0>>,                                            \* padded
   <<0, 2, a, 0, 8, b, 0, 8, 2, 0, 5, 0>>,                         \* two branches to one node
   <<0, 1, a, 0, 0>>,                                              \* a cycle through the root
   <<0, 1, a, 0, 5, 0, 1, b, 0, 5>>,                               \* a cycle below it
   <<0, 1, 0, 4, 2, 0, 5, 0>>,                                     \* an empty label
   <<0, 1, a, 0, 5, 0, 1, 0, 5>>,                                  \* one that leads to its own node
   <<0, 2, b, 0, 9, a, 0, 14, 0, 0, 2, 0, 5, 0, 0, 1, 0, 18, 0, 1, 0, 14>>,  \* two in a cycle
   <<0, 1, 0, 0>>,                                                 \* one that leads nowhere
   <<2, 0, 5, 0>>,                                                 \* the root is terminal
   <<0, 1, a, 0, 134, 0, 131, 0, 16, 133, 1, 1, 0>>,               \* long numbers
   <<0, 1, a, 0, 5, 132, 128, 128, 128, 0>>,                       \* too long a number
   <<0, 1, a, 0, 5, 131, 128, 0, 0, 1, 0, 0>>,                     \* too long a size for one
   <<0, 1, a, 0, 5, 132, 0, 16, 1, 130, 0, 0>>,                    \* a size of two bytes
   <<0, 1, a, 0, 5, 4, 8, 1, b, 0, 0>>,                            \* another name
   <<0, 1, a, 0, 5, 3, 8, 1, b, 0>>,                               \* one that is not inside
   <<0, 1, a, 0, 5, 3, 17, 129, 0, 0>>,                            \* thread-local
   <<0, 1, a, 0, 5, 2, 3, 7, 0>>}                                  \* of no known kind

MCImages == Damaged \cup Cut \cup {Whole(bytes) : bytes \in Others}
MCSymbols == {<<a>>, <<b>>, <<a, b>>, <<a, b, a>>, <<a, a>>, <<b, b>>, <<a, b, a, b>>}
=============================================================================
