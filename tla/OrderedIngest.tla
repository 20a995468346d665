--------------------------- MODULE OrderedIngest ---------------------------
(***************************************************************************)
(* What ingestion into Bronze promises, without batches, logs, crashes or  *)
(* retries: a reader walks a growing log from front to back; each step     *)
(* copies some of the records it passes into a table, each of them once,   *)
(* and moves the reader past all of them.  Only an operator can send the   *)
(* reader back to the start, which opens a new generation of copies.       *)
(***************************************************************************)
EXTENDS Naturals

CONSTANTS
  MaxOffset,       \* bound: records ever published (a natural number)
  MaxGeneration    \* bound: generations of copies (a positive number)

VARIABLES
  end,         \* offsets 1..end have been published
  position,    \* offsets 1..position are behind the reader
  copies,      \* copies of each offset in the table
  generation   \* 1 + times the reader was sent back

ingestVars == <<end, position, copies, generation>>

IngestInit ==
  /\ end = 0
  /\ position = 0
  /\ copies = [o \in 1..MaxOffset |-> 0]
  /\ generation = 1

Publish ==
  /\ end < MaxOffset
  /\ end' = end + 1
  /\ UNCHANGED <<position, copies, generation>>

CopyUpTo(n, S) ==
  /\ position < n
  /\ n <= end
  /\ position' = n
  /\ copies' = [o \in 1..MaxOffset |-> IF o \in S THEN copies[o] + 1 ELSE copies[o]]
  /\ UNCHANGED <<end, generation>>

StartOver ==
  /\ generation < MaxGeneration
  /\ generation' = generation + 1
  /\ position' = 0
  /\ UNCHANGED <<end, copies>>

IngestNext ==
  \/ Publish
  \/ \E n \in 1..MaxOffset : \E S \in SUBSET (position + 1 .. n) : CopyUpTo(n, S)
  \/ StartOver

IngestSpec == IngestInit /\ [][IngestNext]_ingestVars
=============================================================================
