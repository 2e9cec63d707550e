------------------------------ MODULE Huffbench ------------------------------
(***************************************************************************)
(* The benchmark libhuffbench.c: Huffman compression of a buffer into a     *)
(* second one, and decompression in place.  A character is one of SYMBOLS   *)
(* (256 in the code), a byte of compressed data has BYTE_BITS bits (8), and *)
(* compressed data is the sequence of its bits.  The heaps are one-based,   *)
(* as heap_adjust makes them.                                               *)
(***************************************************************************)
EXTENDS Integers, Sequences, SequencesExt, FiniteSetsExt, TLC

CONSTANTS SYMBOLS, BYTE_BITS, LONG_BITS

Char == 0 .. SYMBOLS - 1

LeftChildOnly(freq, heap, n, k) ==   \* mutant
  LET v == heap[k]
      RECURSIVE Sift(_, _)
      Sift(h, i) == IF i <= n \div 2 /\ freq[v] >= freq[heap[2 * i]]
                    THEN Sift([h EXCEPT ![i] = heap[2 * i]], 2 * i)
                    ELSE [h EXCEPT ![i] = v]
  IN Sift(heap, k)

\* heap_adjust: move the element at k down until no child has a smaller
\* frequency.
heap_adjust(freq, heap, n, k) ==
  LET v == heap[k]
      Smaller(i) == IF 2 * i < n /\ freq[heap[2 * i]] > freq[heap[2 * i + 1]]
                    THEN 2 * i + 1 ELSE 2 * i
      RECURSIVE Sift(_, _)
      Sift(h, i) == IF i <= n \div 2 /\ freq[v] >= freq[heap[Smaller(i)]]
                    THEN Sift([h EXCEPT ![i] = heap[Smaller(i)]], Smaller(i))
                    ELSE [h EXCEPT ![i] = v]
  IN Sift(heap, k)

Frequencies(data) ==
  [i \in 0 .. 2 * SYMBOLS - 1 |-> Cardinality({p \in DOMAIN data : data[p] = i})]

\* The indirect heap of the characters that occur.
InitialHeap(freq) ==
  LET chars == SetToSortSeq({c \in Char : freq[c] > 0}, <)
      n == Len(chars)
  IN FoldRight(LAMBDA i, h : heap_adjust(freq, h, n, i), [i \in 1 .. n |-> i],
               chars)

\* Join the two least frequent elements under a new node until one is left.
\* A link is the number of the parent, negative for a left child.
RECURSIVE Trie(_, _, _, _)
Trie(freq, heap, link, size) ==
  IF size <= 1 THEN link
  ELSE LET n == size - 1
           node == SYMBOLS + n
           temp == heap[1]
           rest == heap_adjust(freq, [heap EXCEPT ![1] = heap[size]], n, 1)
           other == rest[1]
           sum == [freq EXCEPT ![node] = freq[other] + freq[temp]]
       IN Trie(sum, heap_adjust(sum, [rest EXCEPT ![1] = node], n, 1),
               [link EXCEPT ![temp] = node, ![other] = -node], n)

\* The code of character m: the bits met on the way up, the first one last.
RECURSIVE Climb(_, _)
Climb(link, l) ==
  IF l = 0 THEN << >>
  ELSE IF l < 0 THEN Append(Climb(link, link[-l]), 1)
       ELSE Append(Climb(link, link[l]), 0)

Codes(data) ==
  LET freq == Frequencies(data)
      heap == InitialHeap(freq)
      link == Trie(freq, heap, [i \in 0 .. 2 * SYMBOLS - 1 |-> 0], Len(heap))
  IN [m \in Char |-> IF freq[m] = 0 THEN << >> ELSE Climb(link, link[m])]

Encoded(data, code) == FoldLeft(LAMBDA s, c : s \o code[c], << >>, data)

\* The bits fill whole bytes; those of the last byte are shifted to its top.
Packed(bits) ==
  LET missing == (BYTE_BITS - (Len(bits) % BYTE_BITS)) % BYTE_BITS
  IN bits \o [i \in 1 .. missing |-> 0]

\* A code of more than 31 bits would also shift an int, 1 << (clen - 1), beyond
\* its width (lines 462 and 532), which is undefined. It takes a text of millions
\* of characters; Texts has none.
\* compdecomp returns early: a code too long for an unsigned long, no code
\* with a one in it (at most one character occurs), or as many full bytes
\* stored as the data has, with bits left to store.
GivesUp(data, code) ==
  \/ \E m \in Char : Len(code[m]) > LONG_BITS
  \/ \A m \in Char : \A i \in DOMAIN code[m] : code[m][i] = 0
  \/ (Len(Encoded(data, code)) - 1) \div BYTE_BITS >= Len(data)

\* The number of the node that a path from the root ends in.
Node(bits) == FoldLeft(LAMBDA k, b : 2 * k + 1 + b, 0, bits)

\* The characters that have a code, sorted by the node of the code.
DecodeTable(code) ==
  SetToSortSeq({[char |-> m, node |-> Node(code[m])] :
                m \in {c \in Char : code[c] /= << >>}},
               LAMBDA x, y : x.node < y.node)

\* Decoding: follow the bits from the root; k is the node and i the first
\* entry of the table not before it.
RECURSIVE Decode(_, _, _, _, _, _)
Decode(table, comp, length, k, i, out) ==
  IF Len(out) = length THEN out
  ELSE LET next == 2 * k + 1 + Head(comp)
           j == CHOOSE e \in i .. Len(table) :
                  /\ table[e].node >= next
                  /\ \A f \in i .. e - 1 : table[f].node < next
       IN IF table[j].node = next
          THEN Decode(table, Tail(comp), length, 0, 1, Append(out, table[j].char))
          ELSE Decode(table, Tail(comp), length, next, j, out)

\* compdecomp: what the buffer holds afterwards, and the compressed bits.
compdecomp(data) ==
  LET code == Codes(data)
      comp == Packed(Encoded(data, code))
  IN IF GivesUp(data, code) THEN [data |-> data, comp |-> << >>]
     ELSE [data |-> Decode(DecodeTable(code), comp, Len(data), 0, 1, << >>),
           comp |-> comp]

Weights(data) ==
  LET chars == SetToSortSeq(Range(data), <)
  IN [i \in 1 .. Len(chars) |-> Frequencies(data)[chars[i]]]

\* The least number of bits a prefix code needs: the sum of the frequencies
\* of all inner nodes when the two least frequent trees are always joined.
RECURSIVE LeastCost(_)
LeastCost(weights) ==
  IF Len(weights) <= 1 THEN 0
  ELSE LET sorted == SortSeq(weights, <)
           joined == sorted[1] + sorted[2]
       IN joined + LeastCost(Append(SubSeq(sorted, 3, Len(sorted)), joined))
=============================================================================
