---------------------------- MODULE EventSchema -----------------------------
(***************************************************************************)
(* Occurrences, edges and the compiler manifest they are validated         *)
(* against: the data of rheg.h and validate_entries of rheg.cc.            *)
(***************************************************************************)
EXTENDS Integers

CONSTANTS Sites,         \* site numbers a callback may carry
          Refs,          \* identities: <<site, sequence>>
          Cycles,        \* cycle numbers
          Widths,        \* payload widths a callback may carry, in bits
          WordIndexes,   \* payload word indexes a callback may carry
          WordValues,    \* values of a payload word
          WordBits,      \* bits of a payload word: 32
          PayloadWidth,  \* the manifest: width of each of its sites
          Dependencies   \* the manifest: permitted <<parent, child>> sites

ASSUME SchemaAssumption ==
  /\ Sites \subseteq Nat /\ Refs \subseteq Sites \X Nat
  /\ Cycles \subseteq Nat /\ Widths \subseteq Nat
  /\ WordIndexes \subseteq Nat /\ WordValues \subseteq Nat
  /\ WordBits \in Nat \ {0}
  /\ DOMAIN PayloadWidth \subseteq Sites
  /\ Dependencies \subseteq (DOMAIN PayloadWidth) \X (DOMAIN PayloadWidth)

NoCycle == -1

\* Payload words are index/value pairs: a word may arrive before its node.
Words == SUBSET (WordIndexes \X WordValues)
Node  == [present : BOOLEAN, cycle : Cycles \cup {0}, width : Widths \cup {0}, words : Words]

\* What operator[] of the map would create: an identity nothing was recorded for.
NoNode == [present |-> FALSE, cycle |-> 0, width |-> 0, words |-> {}]

\* Exactly the words of the width, and no bit above it in the last one.
CompletePayload(n) ==
  LET count == (n.width + WordBits - 1) \div WordBits
  IN  /\ {w[1] : w \in n.words} = 0 .. (count - 1)
      /\ \A w \in n.words :
           w[1] = count - 1 /\ n.width % WordBits # 0 => w[2] < 2 ^ (n.width % WordBits)

\* The per node part of validate_entries, with a manifest bound.
ValidNode(r, n) ==
  /\ r[1] \in DOMAIN PayloadWidth
  /\ n.present
  /\ n.width = PayloadWidth[r[1]]
  /\ CompletePayload(n)

\* The per edge part; that both ends exist is left to the caller.
ValidEdge(e, nodes) ==
  /\ <<e[1][1], e[2][1]>> \in Dependencies
  /\ nodes[e[1]].cycle <= nodes[e[2]].cycle
=============================================================================
