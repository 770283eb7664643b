---------------------------------- MODULE Streams ----------------------------------
(***************************************************************************)
(* src/dataStructures/avStream.c: characters collected in a buffer and,    *)
(* when it is full, written to a file, or dropped when there is none.      *)
(* write may take less than it is given.                                   *)
(***************************************************************************)
EXTENDS Integers, Sequences

CONSTANTS MaxBuffer    (* bound: characters of the buffer                   *)

VARIABLES size,        (* the size of the buffer                            *)
          discard,     (* whether there is a file                           *)
          buffer,      (* the characters before pos                         *)
          written,     (* what the file has got                             *)
          totalSize,
          offered,     (* every character of avStreamPutC so far            *)
          short        (* whether a write took less than it was given       *)

streamVars == <<size, discard, buffer, written, totalSize, offered, short>>

StreamInit ==
    /\ size \in 1..MaxBuffer
    /\ discard \in BOOLEAN
    /\ buffer = <<>> /\ written = <<>> /\ offered = <<>>
    /\ totalSize = 0
    /\ short = FALSE

(* avStreamDiscard: what write does not take is lost.                      *)
Discarding(taken) ==
    /\ written' = written \o SubSeq(buffer, 1, taken)
    /\ short' = (short \/ taken < Len(buffer))

(* Mutation: the last place of the buffer is not used, but counted. *)
PutCShort(c) ==
    /\ offered' = Append(offered, c)
    /\ \/ /\ Len(buffer) < size
          /\ buffer' = IF Len(buffer) + 1 < size THEN Append(buffer, c) ELSE buffer
          /\ totalSize' = totalSize + 1
          /\ UNCHANGED <<written, short>>
       \/ /\ Len(buffer) = size /\ discard
          /\ \E taken \in 0..size : Discarding(taken)
          /\ buffer' = <<c>>
          /\ totalSize' = totalSize + 1
       \/ /\ Len(buffer) = size /\ ~discard
          /\ UNCHANGED <<buffer, totalSize, written, short>>
    /\ UNCHANGED <<size, discard>>

(* avStreamPutC *)
PutC(c) ==
    /\ offered' = Append(offered, c)
    /\ \/ /\ Len(buffer) < size
          /\ buffer' = Append(buffer, c)
          /\ totalSize' = totalSize + 1
          /\ UNCHANGED <<written, short>>
       \/ /\ Len(buffer) = size /\ discard
          /\ \E taken \in 0..size : Discarding(taken)
          /\ buffer' = <<c>>
          /\ totalSize' = totalSize + 1
       \/ /\ Len(buffer) = size /\ ~discard
          /\ UNCHANGED <<buffer, totalSize, written, short>>
    /\ UNCHANGED <<size, discard>>

(* avStreamFlush *)
Flush ==
    /\ discard
    /\ \E taken \in 0..Len(buffer) : Discarding(taken)
    /\ buffer' = <<>>
    /\ UNCHANGED <<size, discard, totalSize, offered>>

--------------------------------------------------------------------------------

(* Without a file the buffer is the start of what was printed and the size *)
(* counts what it holds; with one, the file and the buffer have everything *)
(* in order unless a write was short, and the size counts it all.          *)
StreamSound ==
    /\ Len(buffer) <= size
    /\ IF discard
       THEN /\ totalSize = Len(offered)
            /\ short \/ written \o buffer = offered
       ELSE /\ written = <<>>
            /\ buffer = SubSeq(offered, 1, IF Len(offered) < size THEN Len(offered) ELSE size)
            /\ totalSize = Len(buffer)
================================================================================
