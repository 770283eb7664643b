---------------------------------- MODULE Files ----------------------------------
(***************************************************************************)
(* src/filesystem/avFile.c: one AvFile and the file it names, which other  *)
(* programs change, create, replace and remove.  A stream is a FILE*;      *)
(* fopen, fwrite, fseek, fclose and stat are external: what is written to  *)
(* a stream waits in its buffer, and reaches the file when the buffer is   *)
(* full, and at fseek and fclose.  Positions and contents are left out.    *)
(***************************************************************************)
EXTENDS Integers

CONSTANTS Streams,   (* what fopen may return                               *)
          NoStream,
          MaxBytes,  (* bound: the largest size of the file                 *)
          SizeRange  (* 2^32, scaled: sizes are cut to this many values     *)

ASSUME NoStreamIsNull == NoStream \notin Streams
ASSUME SizesAreCounted == MaxBytes \in Nat /\ SizeRange \in Nat \ {0}

VARIABLES file,      (* the AvFile_T; made is FALSE when there is none      *)
          disk,      (* whether there is a file of that name, and its size  *)
          streams,   (* the streams that are open                           *)
          named,     (* those of the file that has the name now             *)
          buffering, (* those with something in the buffer                  *)
          reopened,  (* streams that a second avFileOpen has overwritten    *)
          fresh      (* the file is as it was at the look at its attributes *)

fileVars == <<file, disk, streams, named, buffering, reopened, fresh>>

(* can stands for the bits of status: nothing in a closed handle.          *)
NoFile == [made |-> FALSE, can |-> {}, stream |-> NoStream, statted |-> FALSE, size |-> 0]
Absent == [exists |-> FALSE, size |-> 0]
IsOpen == file.can # {}

FileInit ==
    /\ file = NoFile
    /\ disk = Absent
    /\ streams = {}
    /\ named = {}
    /\ buffering = {}
    /\ reopened = {}
    /\ fresh = FALSE

(* A part of what is in the buffer of s, or all of it, is written to its   *)
(* file, which may have lost its name.                                     *)
Reaches(s) ==
    IF s \in named
    THEN /\ \E n \in disk.size..MaxBytes : disk' = [disk EXCEPT !.size = n]
         /\ fresh' = FALSE
    ELSE UNCHANGED <<disk, fresh>>

(* All of it, when there is any.                                           *)
Flushes(s) ==
    /\ buffering' = buffering \ {s}
    /\ IF s \in buffering THEN Reaches(s) ELSE UNCHANGED <<disk, fresh>>

(* avFileHandleCreate                                                      *)
HandleCreate ==
    /\ ~file.made
    /\ file' = [NoFile EXCEPT !.made = TRUE]
    /\ fresh' = FALSE
    /\ UNCHANGED <<disk, streams, named, buffering, reopened>>

Can(mode) == IF mode = "read" THEN {"read"} ELSE {"write"}

(* avFileOpen, of a handle that may be open already.  "write" empties the  *)
(* file; "write" and "append" create it; update leaves no mark in status.  *)
Open(mode) ==
    /\ file.made
    /\ mode = "read" => disk.exists
    /\ \E s \in Streams \ streams :
          /\ file' = [file EXCEPT !.can = Can(mode), !.stream = s]
          /\ streams' = streams \cup {s}
          /\ named' = named \cup {s}
    /\ reopened' = reopened \cup ({file.stream} \ {NoStream})
    /\ disk' = IF mode = "read" THEN disk
               ELSE [exists |-> TRUE, size |-> IF mode = "write" THEN 0 ELSE disk.size]
    /\ fresh' = (fresh /\ disk' = disk /\ mode # "write")
    /\ UNCHANGED buffering

(* fopen fails: there is no such file, no right, or no stream left.        *)
OpenFails(mode) ==
    /\ file.made
    /\ file' = [file EXCEPT !.can = {}, !.stream = NoStream]
    /\ reopened' = reopened \cup ({file.stream} \ {NoStream})
    /\ UNCHANGED <<disk, streams, named, buffering, fresh>>

(* avFileWrite; without the status it does nothing, like avFileRead.  The  *)
(* buffer takes it all, or is full and some of it reaches the file.        *)
Write ==
    /\ "write" \in file.can
    /\ \/ /\ buffering' = buffering \cup {file.stream}
          /\ UNCHANGED <<disk, fresh>>
       \/ /\ buffering' \in {buffering \ {file.stream}, buffering \cup {file.stream}}
          /\ Reaches(file.stream)
    /\ UNCHANGED <<file, streams, named, reopened>>

(* avFileSeek, avFileSeekEnd and avFileMovePos.                            *)
Seek ==
    /\ IsOpen
    /\ Flushes(file.stream)
    /\ UNCHANGED <<file, streams, named, reopened>>

(* avFileGetSize and the three times: getFileStat asks the system the      *)
(* first time only.  A stat that fails, of a file that is not there or     *)
(* that can't be looked at, leaves zeros.                                  *)
GetStat ==
    /\ file.made /\ ~file.statted
    /\ \E found \in {disk.exists, FALSE} :
          /\ file' = [file EXCEPT !.statted = TRUE, !.size = IF found THEN disk.size ELSE 0]
          /\ fresh' = found
    /\ UNCHANGED <<disk, streams, named, buffering, reopened>>
GetSize == file.size % SizeRange

Drops(s) ==
    /\ streams' = streams \ {s}
    /\ named' = named \ {s}

(* avFileClose                                                             *)
Close ==
    /\ IsOpen
    /\ Flushes(file.stream) /\ Drops(file.stream)
    /\ file' = [file EXCEPT !.can = {}, !.stream = NoStream]
    /\ UNCHANGED reopened

(* Mutation: the handle is freed while it is open. *)
HandleFreed ==
    /\ file.made
    /\ file' = NoFile
    /\ UNCHANGED <<disk, streams, named, buffering, reopened, fresh>>

(* avFileHandleDestroy closes what is open.                                *)
HandleDestroy ==
    /\ file.made
    /\ file' = NoFile
    /\ IF IsOpen THEN Flushes(file.stream) /\ Drops(file.stream)
       ELSE UNCHANGED <<disk, streams, named, buffering, fresh>>
    /\ UNCHANGED reopened

(* avFileDelete; a stream of the file stays open.                          *)
Delete ==
    /\ file.made /\ disk.exists
    /\ disk' = Absent
    /\ named' = {}
    /\ fresh' = FALSE
    /\ UNCHANGED <<file, streams, buffering, reopened>>

(* Another program writes the file, removes it, or puts another in its     *)
(* place.                                                                  *)
Changes ==
    /\ \/ /\ \E n \in 0..MaxBytes : disk' = [exists |-> TRUE, size |-> n]
          /\ named' \in {named, {}}
       \/ disk' = Absent /\ named' = {}
    /\ fresh' = FALSE
    /\ UNCHANGED <<file, streams, buffering, reopened>>

FileNext ==
    \/ HandleCreate \/ Write \/ Seek \/ GetStat \/ Close \/ HandleDestroy \/ Delete \/ Changes
    \/ \E mode \in {"read", "write", "append"} : Open(mode) \/ OpenFails(mode)

--------------------------------------------------------------------------------

(* Whatever the order of calls and failures, the handle reads and writes   *)
(* only through the stream it will close, every other stream that is open  *)
(* was overwritten by avFileOpen on a handle that was open, and so nothing *)
(* that was written stays in a buffer but in that of the handle's stream,  *)
(* which avFileClose writes to the file, or of such a stream.  The size is *)
(* that of the file, if it fits in 32 bits, until something reaches or     *)
(* changes the file after the first look.                                  *)
FilesSound ==
    /\ IsOpen <=> file.stream # NoStream
    /\ streams = reopened \cup ({file.stream} \ {NoStream})
    /\ buffering \ reopened \subseteq {file.stream} \ {NoStream}
    /\ file.statted /\ fresh /\ disk.size < SizeRange => GetSize = disk.size
================================================================================
