------------------------------- MODULE Chunking -------------------------------
(***************************************************************************)
(* chunkText: how the text of an uploaded document is cut into chunks.     *)
(* The loop over the words is the state machine, one word per step, for    *)
(* every sequence of words; a word is known by its length in bytes.        *)
(***************************************************************************)
EXTENDS Naturals, Sequences

CONSTANTS
    Words,
    Length,         \* bytes of a word
    MaxChunkSize,   \* defaultChunkSize
    MaxWords        \* bound on the words of a text

ASSUME LengthAssumption == Length \in [Words -> Nat \ {0}]
ASSUME SizeAssumption == MaxChunkSize \in Nat /\ MaxWords \in Nat

VARIABLES
    text,       \* the words read so far
    chunks,     \* the chunks that are complete
    builder,    \* the words of the chunk that is being built
    size,       \* builder.Len()
    ended       \* the words are used up and the last chunk is written

vars == <<text, chunks, builder, size, ended>>

Init ==
    /\ text = <<>>
    /\ chunks = <<>>
    /\ builder = <<>>
    /\ size = 0
    /\ ended = FALSE

\* Broken variant: the blank between two words is not counted.
FitsWithoutBlank(word) == size + Length[word] <= MaxChunkSize

Fits(word) == size + 1 + Length[word] <= MaxChunkSize

\* Broken variant: the builder is reset before it is written to a chunk.
AddWordForgetsChunk(word) ==
    /\ ~ended
    /\ Len(text) < MaxWords
    /\ text' = Append(text, word)
    /\ \/ /\ size > 0 /\ Fits(word)
          /\ builder' = Append(builder, word)
          /\ size' = size + 1 + Length[word]
       \/ /\ size > 0 => ~Fits(word)
          /\ builder' = <<word>>
          /\ size' = Length[word]
    /\ UNCHANGED <<chunks, ended>>

AddWord(word) ==
    /\ ~ended
    /\ Len(text) < MaxWords
    /\ text' = Append(text, word)
    /\ \/ /\ size = 0
          /\ builder' = <<word>>
          /\ size' = Length[word]
          /\ UNCHANGED chunks
       \/ /\ size > 0 /\ Fits(word)
          /\ builder' = Append(builder, word)
          /\ size' = size + 1 + Length[word]
          /\ UNCHANGED chunks
       \/ /\ size > 0 /\ ~Fits(word)
          /\ chunks' = Append(chunks, builder)
          /\ builder' = <<word>>
          /\ size' = Length[word]
    /\ UNCHANGED ended

\* Broken variant: only chunks that are cut off by a word are written.
EndForgetsLast ==
    /\ ~ended
    /\ ended' = TRUE
    /\ builder' = <<>>
    /\ size' = 0
    /\ UNCHANGED <<text, chunks>>

End ==
    /\ ~ended
    /\ ended' = TRUE
    /\ chunks' = IF size > 0 THEN Append(chunks, builder) ELSE chunks
    /\ builder' = <<>>
    /\ size' = 0
    /\ UNCHANGED text

Next == End \/ \E word \in Words : AddWord(word)

Spec == Init /\ [][Next]_vars

-----------------------------------------------------------------------------
(* Properties. *)

\* Bytes of some words with a blank between any two.
SizeOf(words) ==
    LET sum[k \in 0..Len(words)] ==
            IF k = 0 THEN 0
            ELSE sum[k - 1] + Length[words[k]] + (IF k = 1 THEN 0 ELSE 1)
    IN  sum[Len(words)]

Joined(parts) ==
    LET all[k \in 0..Len(parts)] == IF k = 0 THEN <<>> ELSE all[k - 1] \o parts[k]
    IN  all[Len(parts)]

\* chunkText writes no empty chunk, and builder.Len() counts words and blanks.
TypeOK ==
    /\ text \in Seq(Words) /\ Len(text) <= MaxWords
    /\ chunks \in Seq(Seq(Words) \ {<<>>})
    /\ builder \in Seq(Words)
    /\ size = SizeOf(builder)
    /\ ended \in BOOLEAN

\* No word is lost, repeated or moved, wherever the cuts fall.
WordsAreKept == Joined(chunks) \o builder = text

\* chunkText cuts as late as it may: a chunk is longer than the limit only when
\* it is a single long word, and the first word of the next chunk would not have
\* fitted into it.
ChunksAreFull ==
    \A i \in DOMAIN chunks :
        LET next == IF i < Len(chunks) THEN chunks[i + 1] ELSE builder IN
            /\ SizeOf(chunks[i]) <= MaxChunkSize \/ Len(chunks[i]) = 1
            /\ next # <<>> => SizeOf(Append(chunks[i], next[1])) > MaxChunkSize
=============================================================================
