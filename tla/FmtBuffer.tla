----------------------------- MODULE FmtBuffer -----------------------------
(***************************************************************************)
(* The output buffers of the bundled fmt library (base.h, format.h): all   *)
(* formatting goes through buffer<T>, whose kinds differ in what grow_     *)
(* does. A buffer is a record:                                             *)
(*   kind    "memory"    basic_memory_buffer                               *)
(*           "iterator"  iterator_buffer over an output iterator           *)
(*           "pointer"   iterator_buffer<T*, T, fixed_buffer_traits>       *)
(*           "container" container_buffer                                  *)
(*           "counting"  counting_buffer                                   *)
(*   data    the size_ elements at ptr_      cap     capacity_             *)
(*   own     ptr_ is the buffer's own array (store_, data_)                *)
(*   count   count_ of the traits or of the counting buffer                *)
(*   limit   limit_ of fixed_buffer_traits   sink    what left the buffer  *)
(***************************************************************************)
EXTENDS Integers, Sequences
CONSTANTS BufferSize \* buffer_size, SIZE
ASSUME BufferSizeAssumption == BufferSize \in Nat \ {0}

Lesser(a, b) == IF a < b THEN a ELSE b
Greater(a, b) == IF a > b THEN a ELSE b
NoLimit == 1000
Buffer(kind, cap, own, limit) ==
  [kind |-> kind, data |-> <<>>, cap |-> cap, own |-> own, count |-> 0, limit |-> limit, sink |-> <<>>]
memory_buffer == Buffer("memory", BufferSize, TRUE, NoLimit)
iterator_buffer(limit) == Buffer("iterator", BufferSize, TRUE, limit)
pointer_buffer(n) == Buffer("pointer", n, FALSE, n)
container_buffer == Buffer("container", 0, FALSE, NoLimit)
counting_buffer == Buffer("counting", BufferSize, TRUE, NoLimit)

size(b) == Len(b.data)
clear(b) == [b EXCEPT !.data = <<>>]
(* fixed_buffer_traits::limit, which counts what it is asked about.        *)
limit(b, n) == Lesser(n, Greater(0, b.limit - b.count))

flush_uncounted(b) ==
  LET n == limit(b, size(b))
      c == [b EXCEPT !.count = @ + n, !.sink = @ \o (IF b.kind = "pointer" /\ b.own THEN <<>> ELSE SubSeq(b.data, 1, n))]
  IN clear(IF b.kind = "pointer" /\ ~b.own THEN [c EXCEPT !.own = TRUE, !.cap = BufferSize] ELSE c)
(* flush: an iterator gets what the limit leaves; a pointer has it already *)
(* and continues in the buffer's own array, from which nothing comes out.  *)
flush(b) ==
  LET n == limit(b, size(b))
      c == [b EXCEPT !.count = @ + size(b),
                     !.sink = @ \o (IF b.kind = "pointer" /\ b.own THEN <<>> ELSE SubSeq(b.data, 1, n))]
  IN clear(IF b.kind = "pointer" /\ ~b.own THEN [c EXCEPT !.own = TRUE, !.cap = BufferSize] ELSE c)

grow(b, need) ==
  CASE b.kind = "memory" -> [b EXCEPT !.cap = Greater(need, @ + @ \div 2), !.own = FALSE]
    [] b.kind = "iterator" -> IF size(b) = BufferSize THEN flush(b) ELSE b
    [] b.kind = "pointer" -> IF size(b) = b.cap THEN flush(b) ELSE b
    [] b.kind = "container" -> [b EXCEPT !.cap = need]
    [] b.kind = "counting" -> IF size(b) = BufferSize THEN [clear(b) EXCEPT !.count = @ + size(b)] ELSE b
try_reserve(b, n) == IF n > b.cap THEN grow(b, n) ELSE b
(* An element that ptr_ has no place for would be written out of bounds.   *)
Store(b, xs) == IF size(b) + Len(xs) <= b.cap THEN [b EXCEPT !.data = @ \o xs] ELSE [b EXCEPT !.sink = <<"out of bounds">>]
push_back(b, x) == LET c == try_reserve(b, size(b) + 1) IN Store(c, <<x>>)
try_resize(b, n) == LET c == try_reserve(b, n) IN [c EXCEPT !.data = SubSeq(@, 1, Lesser(Lesser(n, c.cap), Len(@)))]

RECURSIVE append(_, _)
append(b, xs) ==
  IF xs = <<>> THEN b
  ELSE LET c == IF b.cap - size(b) < Len(xs) THEN grow(b, size(b) + Len(xs)) ELSE b
           n == Lesser(Len(xs), c.cap - size(c))
       IN append(Store(c, SubSeq(xs, 1, n)), SubSeq(xs, n + 1, Len(xs)))

(* Writing of a number of known size: to_pointer reserves its place in the *)
(* buffer, and if there is none the digits are copied from elsewhere.      *)
write_direct(b, xs) ==
  LET c == try_reserve(b, size(b) + Len(xs))
  IN IF c.cap < size(c) + Len(xs) THEN append(c, xs) ELSE Store(c, xs)
(* write_padded: reserve, then element by element.                         *)
RECURSIVE push_all(_, _)
push_all(b, xs) == IF xs = <<>> THEN b ELSE push_all(push_back(b, Head(xs)), Tail(xs))
write_reserved(b, xs) == push_all(try_reserve(b, size(b) + Len(xs)), xs)

(* basic_memory_buffer::move, <<this, other>>: an array on the heap changes*)
(* hands and leaves the other buffer without capacity; the contents of the *)
(* inline array are copied and stay where they were.                       *)
move(other) == IF other.own THEN <<[other EXCEPT !.own = TRUE], other>>
               ELSE <<other, [clear(other) EXCEPT !.cap = 0, !.own = TRUE]>>

(* What the caller ends up with: vformat_to_n's out and size, a container  *)
(* of the buffer's capacity, formatted_size, the memory buffer's text.     *)
Target(b) == CASE b.kind \in {"iterator", "pointer"} -> flush(b).sink
               [] b.kind = "container" -> b.data \o [i \in 1..(b.cap - size(b)) |-> 0]
               [] OTHER -> b.data
Count(b) == CASE b.kind \in {"iterator", "pointer"} -> flush(b).count
              [] b.kind = "counting" -> b.count + size(b)
              [] OTHER -> size(b)
truncated(b) == Count(b) > b.limit

(* A buffer delivers exactly the text that was appended to it, the first   *)
(* limit elements of it if it is limited, and knows how long the text was  *)
(* without the limit, whatever sizes the pieces had and however they were  *)
(* written: one by one, as a block, or into reserved places.               *)
KeepsText(b, text) ==
  /\ b.kind # "counting" => Target(b) = SubSeq(text, 1, Lesser(Len(text), b.limit))
  /\ Count(b) = Len(text)
  /\ truncated(b) <=> Len(text) > b.limit
=============================================================================
