---------------------------- MODULE SmartBuffer -----------------------------
(***************************************************************************)
(* CSmartBuffer (tinyxml.h, tinyxml.cpp): the words in use are the first   *)
(* data_size words of an allocated piece of memory, which grows when more  *)
(* is appended than fits and never shrinks.  What was used before stays in *)
(* it behind data_size.  The code computes the new size as an int; buffers *)
(* of two gigabytes are not modelled.                                      *)
(***************************************************************************)
LOCAL INSTANCE Integers
LOCAL INSTANCE Sequences

CONSTANT step_size   \* how much more than needed is allocated
ASSUME StepSizeAssumption == step_size \in Nat

Zeros(n) == [i \in 1 .. n |-> 0]

(* memcpy of words to where data_size words are in use.                    *)
memcpy(memory, data_size, words) ==
  [i \in DOMAIN memory |->
     IF i - data_size \in DOMAIN words THEN words[i - data_size] ELSE memory[i]]

(* CSmartBuffer(allocated_size, step_size).                                *)
Allocated(allocated_size) == [buffer |-> Zeros(allocated_size), data_size |-> 0]

data(b) == SubSeq(b.buffer, 1, b.data_size)

(* Mutant: what is allocated already is added every time.                  *)
GrownMore(b, n) ==
  IF b.data_size + n > Len(b.buffer)
    THEN data(b) \o Zeros(Len(b.buffer) + n + step_size) ELSE b.buffer

(* The memory with room for n more words.                                  *)
Grown(b, n) ==
  IF b.data_size + n > Len(b.buffer) THEN data(b) \o Zeros(n + step_size) ELSE b.buffer

append(b, words) ==
  [buffer |-> memcpy(Grown(b, Len(words)), b.data_size, words),
   data_size |-> b.data_size + Len(words)]

empty(b) == [b EXCEPT !.data_size = 0]

(* memmove of what is behind the first n words to the front.               *)
truncate(b, n) ==
  IF b.data_size <= n THEN empty(b)
  ELSE [buffer |-> memcpy(b.buffer, 0, SubSeq(b.buffer, n + 1, b.data_size)),
        data_size |-> b.data_size - n]
=============================================================================
